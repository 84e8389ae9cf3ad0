--------------------------- MODULE JQueryDeferred ---------------------------
(***************************************************************************)
(* jQuery.Callbacks and jQuery.Deferred, with then and $.when.  Everything *)
(* is synchronous: a handler may register, resolve, reject and notify      *)
(* while the loop that called it is still under way.  todo is the stack of *)
(* what JavaScript has begun: the rest of the loops, the calls that follow *)
(* one another in a function, the handler that is running.                 *)
(***************************************************************************)
EXTENDS Integers, Sequences, FiniteSets

CONSTANTS
    Sources,        \* deferreds created by the user, who settles them
    Derived,        \* deferreds that then and $.when create
    UserHandlers,
    MaxCalls,       \* bound: calls of the user
    None

VARIABLES
    lists,          \* the three callback lists of each deferred
    state,          \* "done" (resolved), "fail" (rejected), or None
    remaining,      \* of a deferred created by $.when: subordinates not yet resolved
    todo,           \* see above
    nCalls,
    called,         \* history: the handlers called, but for those of progress
    follows,        \* history: the deferreds a derived one takes its outcome from, and whether by a
                    \* function of the user; None if not created
    broken          \* history: the deferreds with work under way when a handler threw

deferredVars == <<lists, state, remaining, todo, nCalls, called, follows, broken>>

Deferreds == Sources \cup Derived
Outcomes == {"done", "fail"}
Lists == Outcomes \cup {"progress"}
Other(o) == CHOOSE p \in Outcomes : p # o

\* A function in a list: what it does, on which deferred (or which function of the user) and list.
Function(do, to, on) == [do |-> do, to |-> to, on |-> on]
Handlers ==
    {Function("user", h, None) : h \in UserHandlers}
        \cup {Function(do, d, l) : do \in {"pipe", "fire"}, d \in Derived, l \in Lists}
        \cup {Function("count", d, None) : d \in Derived}
\* What a list may hold: the three functions that the deferred puts in front of its outcomes, and handlers.
Functions == {Function(do, None, None) : do \in {"settle", "disable", "lock"}} \cup Handlers

ASSUME NoneAssumption == None \notin Outcomes \cup Nat \cup Seq(Functions)

Task(op, d, l, arg) == [op |-> op, d |-> d, l |-> l, arg |-> arg]
Running(op) == todo # <<>> /\ Head(todo).op = op

-----------------------------------------------------------------------------
(* jQuery.Callbacks.  The end of a loop, firingLength, is the length of the *)
(* list, as deferreds remove nothing; stack counts the calls that wait.    *)

NewList(list, stack) ==
    [list |-> list, stack |-> stack, firing |-> FALSE, index |-> 0, memory |-> FALSE, fired |-> FALSE]
Fire(c, start) == [c EXCEPT !.memory = TRUE, !.fired = TRUE, !.index = start, !.firing = TRUE]
Disabled(c) == [c EXCEPT !.list = None, !.stack = None, !.memory = FALSE]
Locked(c) == IF c.memory THEN [c EXCEPT !.stack = None] ELSE Disabled(c)

\* add: a function for a list that has fired is called right away, for one that is firing in its turn.
RunAdd ==
    LET t == Head(todo)
        c == lists[t.d][t.l]
        longer == [c EXCEPT !.list = Append(@, t.arg)]
        fires == ~c.firing /\ c.memory
    IN  /\ Running("add")
        /\ lists' = [lists EXCEPT ![t.d][t.l] =
                        IF c.list = None THEN c ELSE IF fires THEN Fire(longer, Len(c.list)) ELSE longer]
        /\ todo' = (IF c.list # None /\ fires THEN <<Task("loop", t.d, t.l, None)>> ELSE <<>>) \o Tail(todo)
        /\ UNCHANGED <<state, remaining, nCalls, called, follows, broken>>

CanFire(c) == c.list # None /\ (~c.fired \/ c.stack # None)

RunFire ==
    LET t == Head(todo)
        c == lists[t.d][t.l]
    IN  /\ Running("fire")
        /\ lists' = [lists EXCEPT ![t.d][t.l] =
                        IF ~CanFire(c) THEN c
                        ELSE IF c.firing THEN [c EXCEPT !.stack = @ + 1]
                        ELSE Fire(c, 0)]
        /\ todo' = (IF CanFire(c) /\ ~c.firing THEN <<Task("loop", t.d, t.l, None)>> ELSE <<>>) \o Tail(todo)
        /\ UNCHANGED <<state, remaining, nCalls, called, follows, broken>>

\* Mutated: a list that fires once is emptied even of what was added meanwhile.
EndDisabled(c) ==
    IF c.list = None THEN [c EXCEPT !.firing = FALSE]
    ELSE IF c.stack # None THEN [c EXCEPT !.firing = FALSE]
    ELSE [Disabled(c) EXCEPT !.firing = FALSE]

\* What the end of the loop leaves: with memory an empty list, for functions that come later.
Ended(c) ==
    IF c.list = None \/ c.stack # None THEN [c EXCEPT !.firing = FALSE]
    ELSE IF c.memory THEN [c EXCEPT !.firing = FALSE, !.list = <<>>]
    ELSE [Disabled(c) EXCEPT !.firing = FALSE]

InLoop(d, l) == lists[d][l].list # None /\ lists[d][l].index < Len(lists[d][l].list)

\* The loop is at its end; if a call waits the list fires anew.
RunEnd ==
    LET t == Head(todo)
        c == lists[t.d][t.l]
        again == c.list # None /\ c.stack # None /\ c.stack > 0
    IN  /\ Running("loop") /\ ~InLoop(t.d, t.l)
        /\ lists' = [lists EXCEPT ![t.d][t.l] =
                        IF again THEN Fire([c EXCEPT !.stack = @ - 1], 0) ELSE Ended(c)]
        /\ todo' = IF again THEN todo ELSE Tail(todo)
        /\ UNCHANGED <<state, remaining, nCalls, called, follows, broken>>

-----------------------------------------------------------------------------
(* jQuery.Deferred: the functions in its lists. *)

\* The loop calls its next function, of this kind.
NextIs(do) ==
    /\ Running("loop")
    /\ LET t == Head(todo)
       IN  InLoop(t.d, t.l) /\ lists[t.d][t.l].list[lists[t.d][t.l].index + 1].do = do
ItsFunction == LET c == lists[Head(todo).d][Head(todo).l] IN c.list[c.index + 1]
Advanced == [lists EXCEPT ![Head(todo).d][Head(todo).l].index = @ + 1]
Begin(tasks) == todo' = tasks \o todo
Remember ==
    LET t == Head(todo)
    IN  called' = IF t.l = "progress" THEN called ELSE [called EXCEPT ![t.d] = Append(@, ItsFunction)]

\* The three functions that a deferred itself puts in front of either list.
CallSettle ==
    /\ NextIs("settle")
    /\ state' = [state EXCEPT ![Head(todo).d] = Head(todo).l]
    /\ lists' = Advanced
    /\ UNCHANGED <<remaining, todo, nCalls, called, follows, broken>>

\* Mutated: settling leaves the lists of the other outcome as they are.
CallDisableNothing ==
    /\ NextIs("disable")
    /\ lists' = Advanced
    /\ UNCHANGED <<state, remaining, todo, nCalls, called, follows, broken>>

CallDisable ==
    /\ NextIs("disable")
    /\ lists' = [Advanced EXCEPT ![Head(todo).d][Other(Head(todo).l)] = Disabled(@)]
    /\ UNCHANGED <<state, remaining, todo, nCalls, called, follows, broken>>

CallLock ==
    /\ NextIs("lock")
    /\ lists' = [Advanced EXCEPT ![Head(todo).d].progress = Locked(@)]
    /\ UNCHANGED <<state, remaining, todo, nCalls, called, follows, broken>>

CallUser ==
    /\ NextIs("user") /\ Remember /\ lists' = Advanced
    /\ Begin(<<Task("user", None, None, ItsFunction)>>)
    /\ UNCHANGED <<state, remaining, nCalls, follows, broken>>

\* resolve, reject or notify of another deferred.
CallFire ==
    /\ NextIs("fire") /\ Remember /\ lists' = Advanced
    /\ Begin(<<Task("fire", ItsFunction.to, ItsFunction.on, None)>>)
    /\ UNCHANGED <<state, remaining, nCalls, follows, broken>>

\* then: the function of the user returned a value, or there is none: the outcome is passed on.
CallPipe ==
    /\ NextIs("pipe") /\ Remember /\ lists' = Advanced
    /\ Begin(<<Task("fire", ItsFunction.to, ItsFunction.on, None)>>)
    /\ UNCHANGED <<state, remaining, nCalls, follows, broken>>

\* The tasks that make e follow d.
Following(d, e) == <<Task("add", d, "done", Function("fire", e, "done")),
                     Task("add", d, "fail", Function("fire", e, "fail")),
                     Task("add", d, "progress", Function("fire", e, "progress"))>>

\* then: the function returned a promise, which decides in its turn.
CallPipeToPromise(f) ==
    LET e == ItsFunction.to
    IN  /\ NextIs("pipe") /\ f # e /\ (f \in Derived => follows[f] # None)
        /\ Remember /\ lists' = Advanced /\ Begin(Following(f, e))
        /\ follows' = [follows EXCEPT ![e] =
                        {<<"fire", f>>} \cup (IF Head(todo).l = "progress" THEN @ ELSE @ \ {<<"pipe", Head(todo).d>>})]
        /\ UNCHANGED <<state, remaining, nCalls, broken>>

\* $.when: the last subordinate resolves the master.
CallCount ==
    LET m == ItsFunction.to
    IN  /\ NextIs("count") /\ Remember /\ lists' = Advanced
        /\ remaining' = [remaining EXCEPT ![m] = @ - 1]
        /\ Begin(IF remaining[m] = 1 THEN <<Task("fire", m, "done", None)>> ELSE <<>>)
        /\ UNCHANGED <<state, nCalls, follows, broken>>

\* The end of $.when: nothing to wait for.
RunWhen ==
    /\ Running("when")
    /\ todo' = (IF remaining[Head(todo).d] = 0 THEN <<Task("fire", Head(todo).d, "done", None)>> ELSE <<>>)
                    \o Tail(todo)
    /\ UNCHANGED <<lists, state, remaining, nCalls, called, follows, broken>>

-----------------------------------------------------------------------------
(* The user's code: outside of all handlers, or in the one that is running. *)

Calls(tasks) ==
    /\ todo = <<>> \/ Running("user")
    /\ nCalls < MaxCalls /\ nCalls' = nCalls + 1
    /\ todo' = tasks \o todo
    /\ UNCHANGED <<lists, state, called, broken>>

Exists(d) == d \in Derived => follows[d] # None
Adding(d, l, h) == Task("add", d, l, Function("user", h, None))

Register(d, l, h) == Exists(d) /\ Calls(<<Adding(d, l, h)>>) /\ UNCHANGED <<remaining, follows>>

Always(d, h) ==
    /\ Exists(d) /\ Calls(<<Adding(d, "done", h), Adding(d, "fail", h)>>)
    /\ UNCHANGED <<remaining, follows>>

\* resolve, reject, notify
Trigger(d, l) == d \in Sources /\ Calls(<<Task("fire", d, l, None)>>) /\ UNCHANGED <<remaining, follows>>

Then(d, e) ==
    /\ Exists(d) /\ e \in Derived /\ follows[e] = None
    /\ Calls(<<Task("add", d, "done", Function("pipe", e, "done")),
               Task("add", d, "fail", Function("pipe", e, "fail")),
               Task("add", d, "progress", Function("pipe", e, "progress"))>>)
    /\ follows' = [follows EXCEPT ![e] = {<<"pipe", d>>}]
    /\ UNCHANGED remaining

Subordinate(d, m) == <<Task("add", d, "done", Function("count", m, None)),
                       Task("add", d, "fail", Function("fire", m, "fail")),
                       Task("add", d, "progress", Function("fire", m, "progress"))>>

\* $.when of two deferreds; of a single one it is that deferred itself.
When(a, b, m) ==
    /\ Exists(a) /\ Exists(b) /\ m \in Derived /\ follows[m] = None
    /\ Calls(Subordinate(a, m) \o Subordinate(b, m) \o <<Task("when", m, None, None)>>)
    /\ remaining' = [remaining EXCEPT ![m] = 2]
    /\ follows' = [follows EXCEPT ![m] = {<<"fire", a>>, <<"fire", b>>}]

Return ==
    /\ Running("user") /\ todo' = Tail(todo)
    /\ UNCHANGED <<lists, state, remaining, nCalls, called, follows, broken>>

\* Nothing catches what a handler throws: all that has begun is left as it is, its lists firing for ever.
Throw ==
    /\ Running("user") /\ todo' = <<>>
    /\ broken' = broken \cup {todo[i].d : i \in DOMAIN todo}
    /\ UNCHANGED <<lists, state, remaining, nCalls, called, follows>>

-----------------------------------------------------------------------------

DeferredInit ==
    LET own == <<Function("settle", None, None), Function("disable", None, None), Function("lock", None, None)>>
    IN  /\ lists = [d \in Deferreds |->
                        [l \in Lists |-> IF l = "progress" THEN NewList(<<>>, 0) ELSE NewList(own, None)]]
        /\ state = [d \in Deferreds |-> None]
        /\ remaining = [d \in Derived |-> 0]
        /\ todo = <<>> /\ nCalls = 0
        /\ called = [d \in Deferreds |-> <<>>]
        /\ follows = [d \in Derived |-> None]
        /\ broken = {}

DeferredNext ==
    \/ RunAdd \/ RunFire \/ RunEnd \/ RunWhen
    \/ CallSettle \/ CallDisable \/ CallLock \/ CallUser \/ CallFire \/ CallPipe \/ CallCount
    \/ \E f \in Deferreds : CallPipeToPromise(f)
    \/ \E d \in Deferreds, h \in UserHandlers : Always(d, h) \/ \E l \in Lists : Register(d, l, h)
    \/ \E d \in Deferreds, l \in Lists : Trigger(d, l)
    \/ \E d \in Deferreds, e \in Derived : Then(d, e)
    \/ \E a, b \in Deferreds, m \in Derived : When(a, b, m)
    \/ Return \/ Throw

-----------------------------------------------------------------------------
(* Properties. *)

\* The handlers a list has yet to call: the three functions of the deferred itself, in front, are none.
OwnInFront(list) == list # <<>> /\ list[1].do = "settle"
HandlersFrom(c) ==
    LET next == IF c.firing THEN c.index + 1 ELSE 1
    IN  IF OwnInFront(c.list) /\ next < 4 THEN 4 ELSE next
Waiting(d, o) ==
    LET c == lists[d][o]
    IN  IF state[d] \notin {None, o} \/ c.list = None THEN <<>> ELSE SubSeq(c.list, HandlersFrom(c), Len(c.list))

Promise == INSTANCE Promises WITH
    outcome <- state, waiting <- [d \in Deferreds |-> [o \in Outcomes |-> Waiting(d, o)]]

\* A step that changes nothing of what Promises has, which follows from state, lists and called
Unnoticed == UNCHANGED called /\ (UNCHANGED <<state, lists>> \/ UNCHANGED Promise!vars)

\* Whatever handlers do while they are called, and even if they throw, a deferred is settled once, and
\* calls the handlers of its outcome once each and in order: every step is one of Promises, or none there.
ImplementsPromises == Promise!Init /\ [][Unnoticed \/ Promise!Next]_deferredVars

\* When the handlers have returned none is left waiting; what then and $.when have created has settled
\* if what it follows has, and how that has.  Only what a handler that threw interrupted is excused.
NoneForgotten ==
    todo = <<>> =>
        /\ \A d \in Deferreds \ broken : state[d] # None => Waiting(d, state[d]) = <<>>
        /\ \A e \in Derived : follows[e] # None =>
            LET followed == {f[2] : f \in follows[e]}
                outcomes == {state[d] : d \in followed} \ {None}
            IN  (followed \cup {e}) \cap broken = {} =>
                /\ state[e] = None <=> (IF remaining[e] > 0 THEN outcomes \subseteq {"done"} ELSE outcomes = {})
                /\ state[e] \in outcomes \cup {None}
=============================================================================
