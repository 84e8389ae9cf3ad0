------------------------------ MODULE Promises ------------------------------
(***************************************************************************)
(* What the users of deferreds rely on: each of them is settled at most    *)
(* once, and calls the handlers of its outcome, each as often as it was    *)
(* registered, in the order of their registration, whether they came       *)
(* before or after the outcome.                                            *)
(***************************************************************************)
EXTENDS Sequences

CONSTANTS
    Deferreds,
    Handlers,
    None

VARIABLES
    outcome,        \* "done", "fail", or None while pending
    waiting,        \* for either outcome: the handlers not yet called
    called          \* the handlers called so far

vars == <<outcome, waiting, called>>

Outcomes == {"done", "fail"}

Init ==
    /\ outcome = [d \in Deferreds |-> None]
    /\ waiting = [d \in Deferreds |-> [o \in Outcomes |-> <<>>]]
    /\ called = [d \in Deferreds |-> <<>>]

Register(d, o, h) ==
    /\ outcome[d] \in {None, o}
    /\ UNCHANGED <<outcome, called>>
    /\ waiting' = [waiting EXCEPT ![d][o] = Append(@, h)]

Settle(d, o) ==
    /\ outcome[d] = None
    /\ outcome' = [outcome EXCEPT ![d] = o]
    /\ waiting' = [waiting EXCEPT ![d] = [p \in Outcomes |-> IF p = o THEN @[p] ELSE <<>>]]
    /\ UNCHANGED called

CallNext(d) ==
    /\ outcome[d] # None /\ waiting[d][outcome[d]] # <<>>
    /\ called' = [called EXCEPT ![d] = Append(@, Head(waiting[d][outcome[d]]))]
    /\ waiting' = [waiting EXCEPT ![d][outcome[d]] = Tail(@)]
    /\ UNCHANGED outcome

Next ==
    \E d \in Deferreds :
        \/ \E o \in Outcomes : (\E h \in Handlers : Register(d, o, h)) \/ Settle(d, o)
        \/ CallNext(d)

Spec == Init /\ [][Next]_vars
=============================================================================
