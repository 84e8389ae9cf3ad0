----------------------------- MODULE ExpiringMap -----------------------------
(***************************************************************************)
(* What the message layer of ws4d-jcoap expects of a TimeoutHashMap: a map *)
(* whose entries vanish Timeout after they were put, and for no other      *)
(* reason than that, a later put, a remove or a clear.  There is no queue  *)
(* and no update(): purging must not be visible.                           *)
(***************************************************************************)
EXTENDS Integers

CONSTANTS Keys, Values, NoEntry, Timeout

VARIABLES
    now,       \* the clock
    entry,     \* Keys -> NoEntry or [value, expires]; only entries still valid
    lastCall   \* the last call for each key: no entry goes but by one, or by its age

vars == <<now, entry, lastCall>>

Init ==
    /\ now \in Int
    /\ entry = [k \in Keys |-> NoEntry]
    /\ lastCall = [k \in Keys |-> "none"]

Put(k, v) ==
    /\ entry' = [entry EXCEPT ![k] = [value |-> v, expires |-> now + Timeout]]
    /\ lastCall' = [lastCall EXCEPT ![k] = "put"]
    /\ UNCHANGED now

Remove(k) ==
    /\ entry' = [entry EXCEPT ![k] = NoEntry]
    /\ lastCall' = [lastCall EXCEPT ![k] = "remove"]
    /\ UNCHANGED now

Clear ==
    /\ entry' = [k \in Keys |-> NoEntry]
    /\ lastCall' = [k \in Keys |-> "remove"]
    /\ UNCHANGED now

\* Time passes, and takes with it the entries that expire.
TimePasses ==
    /\ now' \in Int /\ now' >= now
    /\ entry' = [k \in Keys |->
                    IF entry[k] # NoEntry /\ now' < entry[k].expires
                    THEN entry[k] ELSE NoEntry]
    /\ UNCHANGED lastCall

Next ==
    \/ \E k \in Keys : Remove(k) \/ \E v \in Values : Put(k, v)
    \/ Clear
    \/ TimePasses

Spec == Init /\ [][Next]_vars
=============================================================================
