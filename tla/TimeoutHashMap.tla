--------------------------- MODULE TimeoutHashMap ---------------------------
(***************************************************************************)
(* TimeoutHashMap (ws4d-jcoap, tools): a HashMap whose entries expire, and *)
(* next to it timeoutQueue, a list with one element per put, in the order  *)
(* of the puts, from which update() purges what has expired.               *)
(*                                                                         *)
(* The worker thread of BasicCoapSocketHandler puts and updates.  Entries  *)
(* of timeoutConMsgMap are also removed by the threads that handle the     *)
(* answers (SharedKeys); the worker takes no lock.  update() reads the     *)
(* clock twice for an element it polls, and between its remove and its     *)
(* re-put the entry is out of the map: both are steps of their own here.   *)
(***************************************************************************)
EXTENDS Integers, Sequences

CONSTANTS
    Keys, Values,
    NoKey, NoEntry,   \* no key, no entry
    Timeout,          \* the lifetime of an entry
    ClockSteps,       \* by how much System.currentTimeMillis may move at once
    SharedKeys,       \* keys that other threads may remove while update() runs
    MaxTime, MaxQueue \* bounds of the checked instance

Entry == [value : Values, expires : Int]

ASSUME MapAssumption ==
    /\ NoKey \notin Keys
    /\ NoEntry \notin Entry
    /\ Timeout \in Nat \ {0}
    /\ ClockSteps \subseteq Int
    /\ SharedKeys \subseteq Keys
    /\ MaxTime \in Nat /\ MaxQueue \in Nat

VARIABLES
    map,           \* the HashMap: Keys -> entry or NoEntry
    timeoutQueue,  \* the LinkedList: [key, expires]
    now,           \* System.currentTimeMillis
    pc,            \* "idle", or inside update(): "update", "removed"; "dead" once it threw
    polled,        \* the key update() has polled and removed, or NoKey
    removed,       \* the entry that was in the map for it, or NoEntry
    lastCall       \* history: the last call for each key, "put" or "remove"

vars == <<map, timeoutQueue, now, pc, polled, removed, lastCall>>

Valid(e) == e # NoEntry /\ now < e.expires

Init ==
    /\ map = [k \in Keys |-> NoEntry]
    /\ timeoutQueue = <<>>
    /\ now = 0
    /\ pc = "idle"
    /\ polled = NoKey
    /\ removed = NoEntry
    /\ lastCall = [k \in Keys |-> "none"]

-----------------------------------------------------------------------------
\* Mutated form: the key is queued only if it is new, as if one element could do for
\* every value put under it.
PutOnce(k, v) ==
    /\ pc = "idle" /\ Len(timeoutQueue) < MaxQueue
    /\ map' = [map EXCEPT ![k] = [value |-> v, expires |-> now + Timeout]]
    /\ lastCall' = [lastCall EXCEPT ![k] = "put"]
    /\ timeoutQueue' = IF map[k] = NoEntry
                       THEN Append(timeoutQueue, [key |-> k, expires |-> now + Timeout])
                       ELSE timeoutQueue
    /\ UNCHANGED <<now, pc, polled, removed>>

\* Mutated form: a new element is queued in front.
PutInFront(k, v) ==
    /\ pc = "idle" /\ Len(timeoutQueue) < MaxQueue
    /\ map' = [map EXCEPT ![k] = [value |-> v, expires |-> now + Timeout]]
    /\ lastCall' = [lastCall EXCEPT ![k] = "put"]
    /\ timeoutQueue' = <<[key |-> k, expires |-> now + Timeout]>> \o timeoutQueue
    /\ UNCHANGED <<now, pc, polled, removed>>

\* put, by the worker.  The overridden entry's queue element stays where it is.
Put(k, v) ==
    /\ pc = "idle" /\ Len(timeoutQueue) < MaxQueue
    /\ map' = [map EXCEPT ![k] = [value |-> v, expires |-> now + Timeout]]
    /\ lastCall' = [lastCall EXCEPT ![k] = "put"]
    /\ timeoutQueue' = Append(timeoutQueue, [key |-> k, expires |-> now + Timeout])
    /\ UNCHANGED <<now, pc, polled, removed>>

\* remove, by the worker between two updates or by a handler thread at any time.
Remove(k) ==
    /\ k \in SharedKeys \/ pc = "idle"
    /\ map' = [map EXCEPT ![k] = NoEntry]
    /\ lastCall' = [lastCall EXCEPT ![k] = "remove"]
    /\ UNCHANGED <<timeoutQueue, now, pc, polled, removed>>

\* clear; the socket handler never calls it.
Clear ==
    /\ pc = "idle"
    /\ map' = [k \in Keys |-> NoEntry]
    /\ lastCall' = [k \in Keys |-> "remove"]
    /\ timeoutQueue' = <<>>
    /\ UNCHANGED <<now, pc, polled, removed>>

-----------------------------------------------------------------------------
(* update(), by the worker.                                                *)

StartUpdate ==
    /\ pc = "idle"
    /\ pc' = "update"
    /\ UNCHANGED <<map, timeoutQueue, now, polled, removed, lastCall>>

\* Mutated form: the list element is passed to remove, not the key in it.
PollWrongObject ==
    /\ pc = "update"
    /\ timeoutQueue # <<>> /\ now > Head(timeoutQueue).expires
    /\ polled' = Head(timeoutQueue)
    /\ timeoutQueue' = Tail(timeoutQueue)
    /\ pc' = "removed"
    /\ UNCHANGED <<map, now, removed, lastCall>>

\* The head has expired: poll it and take whatever the map holds for its key.
PollExpired ==
    /\ pc = "update"
    /\ timeoutQueue # <<>> /\ now > Head(timeoutQueue).expires
    /\ polled' = Head(timeoutQueue).key
    /\ removed' = map[polled']
    /\ map' = [map EXCEPT ![polled'] = NoEntry]
    /\ timeoutQueue' = Tail(timeoutQueue)
    /\ pc' = "removed"
    /\ UNCHANGED <<now, lastCall>>

\* Mutated form: whatever was removed stays out.
DropAlways ==
    /\ pc = "removed"
    /\ pc' = "update"
    /\ polled' = NoKey /\ removed' = NoEntry
    /\ UNCHANGED <<map, timeoutQueue, now, lastCall>>

\* "Reput" what was removed if it is still valid: it overrode the entry whose element was
\* polled.
Reput ==
    /\ pc = "removed"
    /\ map' = IF Valid(removed) THEN [map EXCEPT ![polled] = removed] ELSE map
    /\ pc' = "update"
    /\ polled' = NoKey /\ removed' = NoEntry
    /\ UNCHANGED <<timeoutQueue, now, lastCall>>

\* The head has not expired, or there is nothing left in queue and map.  "Timeout queue is
\* empty but hashmap not!": nobody catches the IllegalStateException, it ends the worker.
UpdateEnds ==
    /\ pc = "update"
    /\ timeoutQueue # <<>> => now <= Head(timeoutQueue).expires
    /\ pc' = IF timeoutQueue = <<>> /\ (\E k \in Keys : map[k] # NoEntry)
             THEN "dead" ELSE "idle"
    /\ UNCHANGED <<map, timeoutQueue, now, polled, removed, lastCall>>

\* The clock moves.  It is the wall clock, which may be set back.
ClockMoves ==
    /\ \E d \in ClockSteps : now' = now + d /\ now' \in 0..MaxTime
    /\ UNCHANGED <<map, timeoutQueue, pc, polled, removed, lastCall>>

Next ==
    \/ \E k \in Keys : Remove(k) \/ \E v \in Values : Put(k, v)
    \/ Clear
    \/ StartUpdate \/ PollExpired \/ Reput \/ UpdateEnds
    \/ ClockMoves

Spec == Init /\ [][Next]_vars

-----------------------------------------------------------------------------
\* Every variable holds a value of its type, and update() holds a key exactly between its
\* remove and its re-put.
TypeOK ==
    /\ map \in [Keys -> Entry \cup {NoEntry}]
    /\ timeoutQueue \in Seq([key : Keys, expires : Int])
    /\ now \in Int
    /\ pc \in {"idle", "update", "removed", "dead"}
    /\ polled \in Keys \cup {NoKey}
    /\ (pc = "removed") <=> (polled # NoKey)
    /\ removed \in Entry \cup {NoEntry}
    /\ lastCall \in [Keys -> {"none", "put", "remove"}]

Covered(k, e) ==
    \E i \in 1..Len(timeoutQueue) : timeoutQueue[i] = [key |-> k, expires |-> e.expires]

\* Every entry of the map has a queue element with its expiry: what put() let in, update()
\* will take out, overridden or not.
QueueCoversMap == \A k \in Keys : map[k] # NoEntry => Covered(k, map[k])

\* The comment in update(): "if the timeoutKey queue is empty, there must be no more
\* elements in the hashmap otherwise there is a bug in the implementation".
NeverThrows == pc # "dead"

\* When update() returns, no expired entry is left, although it looked only at the front of
\* the queue.
UpdatePurges ==
    [][pc = "update" /\ pc' = "idle" =>
        \A k \in Keys : map[k] # NoEntry => now <= map[k].expires]_vars

PrivateKeys == Keys \ SharedKeys

\* What get returns for k, as an entry; an entry update() is about to re-put counts as
\* being in the map.
Contents ==
    [k \in PrivateKeys |->
        LET e == IF polled = k THEN removed ELSE map[k]
        IN IF Valid(e) THEN e ELSE NoEntry]

OwnCalls == [k \in PrivateKeys |-> lastCall[k]]

Abstract == INSTANCE ExpiringMap
    WITH Keys <- PrivateKeys, entry <- Contents, lastCall <- OwnCalls

\* To the worker, and for the keys it alone removes, the map is an expiring map: update()
\* takes out only what get would not return any more, and no entry outlives its timeout.
\* It is none for a key that another thread removes between the two steps of update().
ImplementsExpiringMap == Abstract!Spec

-----------------------------------------------------------------------------
(* What makes the properties inductive, as long as the clock is not set back.   *)

\* What update() has in its hand has expired, or another element covers it.
HandCovered ==
    removed # NoEntry => pc = "removed" /\ (now >= removed.expires \/ Covered(polled, removed))

\* The queue is in the order of expiry.
Chronological ==
    /\ \A i, j \in 1..Len(timeoutQueue) :
        i <= j => timeoutQueue[i].expires <= timeoutQueue[j].expires
    /\ \A i \in 1..Len(timeoutQueue) : timeoutQueue[i].expires <= now + Timeout

\* The key update() holds is out of the map.
OutOfMap == polled # NoKey => map[polled] = NoEntry

IInv ==
    TypeOK /\ QueueCoversMap /\ HandCovered /\ Chronological /\ OutOfMap /\ NeverThrows
=============================================================================
