------------------------------ MODULE JQueryFx ------------------------------
(***************************************************************************)
(* The fx queues of jQuery: animate and delay put an item into the queue   *)
(* of an element, whose first one runs while a sentinel stands for it; one *)
(* interval timer drives all animations.  complete callbacks run in the    *)
(* middle of these loops, and may queue, stop, finish and clear.  work is  *)
(* the stack of what JavaScript has begun, as todo in JQueryDeferred.      *)
(***************************************************************************)
EXTENDS Integers, Sequences, FiniteSets, SequencesExt

CONSTANTS
    Elements,
    MaxItems,       \* bound for each element: items queued
    MaxFxCalls      \* bound: calls of stop, finish, clearQueue and promise

VARIABLES
    queues,         \* the fx queue of each element
    hooks,          \* its queueHooks: the delay that hooks.stop would end, 0 without one; or Absent
    promised,       \* elements whose empty callbacks hold the promise of the end of the queue
    timers,         \* jQuery.timers: the animations driven
    delays,         \* the timeouts of delay
    ended,          \* the animations whose deferred is settled
    interval,       \* timerId is set
    finishing,      \* elements with the mark finish
    work,
    nItems, nFxCalls,
    loose,          \* history: elements on which something else than the sentinel's item may run
    halted          \* history: elements whose queue something that threw, or a nested stop, cut short

fxVars == <<queues, hooks, promised, timers, delays, ended, interval, finishing, work, nItems, nFxCalls, loose, halted>>
drives == <<delays, ended, interval, finishing>>
counts == <<nItems, nFxCalls>>
histories == <<loose, halted>>

Absent == -1
Sentinel == [kind |-> "inprogress", id |-> 0]
Item(kind, id) == [kind |-> kind, id |-> id]
On(e, id) == [e |-> e, id |-> id]

\* n is an index into timers.
Job(op, e, n, arg) == [op |-> op, e |-> e, n |-> n, arg |-> arg]
Doing(op) == work # <<>> /\ Head(work).op = op
Goes(jobs) == work' = jobs \o Tail(work)
FxUser == work = <<>> \/ Doing("complete")

Dequeue(e) == Job("dequeue", e, 0, FALSE)
\* opt.complete, which every animation is given: the callback, and then the queue moves on.
Completion(e) == <<Job("complete", e, 0, FALSE), Dequeue(e)>>
RunningOn(e) == {t \in ToSet(timers) : t.e = e /\ t.id \notin ended} \cup {d \in delays : d.e = e}

-----------------------------------------------------------------------------
(* Queues. *)

\* jQuery.dequeue: past the sentinel the next item begins; with none, the empty callbacks are called,
\* which remove the queue and its hooks and resolve the promises.
RunDequeue ==
    LET e == Head(work).e
        rest == IF queues[e] # <<>> /\ Head(queues[e]) = Sentinel THEN Tail(queues[e]) ELSE queues[e]
    IN  /\ Doing("dequeue")
        /\ IF rest = <<>>
           THEN /\ queues' = [queues EXCEPT ![e] = <<>>] /\ hooks' = [hooks EXCEPT ![e] = Absent]
                /\ promised' = promised \ {e} /\ Goes(<<>>)
           ELSE /\ queues' = [queues EXCEPT ![e] = <<Sentinel>> \o Tail(rest)]
                /\ hooks' = [hooks EXCEPT ![e] = 0]
                /\ Goes(<<Job("begin", e, 0, Head(rest))>>) /\ UNCHANGED promised
        /\ UNCHANGED <<timers, drives, counts, histories>>

\* The function of the delay that is in the queue: a timeout, and a hook to end it.
BeginDelay ==
    LET t == On(Head(work).e, Head(work).arg.id)
    IN  /\ Doing("begin") /\ Head(work).arg.kind = "delay"
        /\ delays' = delays \cup {t} /\ hooks' = [hooks EXCEPT ![t.e] = t.id] /\ Goes(<<>>)
        /\ UNCHANGED <<queues, promised, timers, ended, interval, finishing, counts, histories>>

\* doAnimation: a timer.  The animation of an element with the mark finish ends at once, in its timer.
BeginAnimation ==
    LET t == On(Head(work).e, Head(work).arg.id)
    IN  /\ Doing("begin") /\ Head(work).arg.kind = "animation"
        /\ timers' = Append(timers, t) /\ interval' = TRUE
        /\ IF t.e \in finishing THEN ended' = ended \cup {t.id} /\ Goes(Completion(t.e))
                                ELSE Goes(<<>>) /\ UNCHANGED ended
        /\ UNCHANGED <<queues, hooks, promised, delays, finishing, counts, histories>>

\* animate and delay
Queue(e, kind) ==
    /\ FxUser /\ nItems[e] < MaxItems[e] /\ nItems' = [nItems EXCEPT ![e] = @ + 1]
    /\ queues' = [queues EXCEPT ![e] = Append(@, Item(kind, 1 + MapThenSumSet(LAMBDA f : nItems[f], Elements)))]
    /\ hooks' = IF hooks[e] = Absent THEN [hooks EXCEPT ![e] = 0] ELSE hooks
    /\ work' = (IF Head(queues'[e]) = Sentinel THEN <<>> ELSE <<Dequeue(e)>>) \o work
    /\ UNCHANGED <<promised, timers, drives, nFxCalls, histories>>

-----------------------------------------------------------------------------
(* stop, finish, clearQueue and promise *)

\* What was running on the element is no more what its sentinel stands for: the sentinel has been thrown
\* away with the queue, or a complete callback, after which the queue moves on, makes it move on itself.
Loosened(e, clears) ==
    loose' = IF (clears /\ RunningOn(e) # {}) \/ work # <<>> THEN loose \cup {e} ELSE loose

FxCall(jobs) ==
    /\ FxUser /\ nFxCalls < MaxFxCalls /\ nFxCalls' = nFxCalls + 1
    /\ work' = jobs \o work
    /\ UNCHANGED <<timers, delays, ended, interval, nItems>>

\* The promise resolves at once if there are no hooks.
Promised(e) ==
    /\ FxCall(<<>>) /\ promised' = IF hooks[e] = Absent THEN promised ELSE promised \cup {e}
    /\ UNCHANGED <<queues, hooks, finishing, histories>>

ClearQueue(e) ==
    /\ FxCall(<<Dequeue(e)>>) /\ Loosened(e, TRUE)
    /\ queues' = [queues EXCEPT ![e] = <<>>]
    /\ hooks' = IF hooks[e] = Absent THEN [hooks EXCEPT ![e] = 0] ELSE hooks
    /\ UNCHANGED <<promised, finishing, halted>>

\* The indices of the timers in a stop or finish that is under way are no more right once a callback has
\* stopped others: an animation that goes on loses its timer, or the loop throws.
InStop == \E i \in DOMAIN work : work[i].op = "stopTimers"
CutShort == IF InStop THEN Elements ELSE {}

Stop(e, clear, gotoEnd) ==
    /\ FxCall((IF clear THEN <<Dequeue(e)>> ELSE <<>>) \o <<Job("stop", e, 0, gotoEnd)>>)
    /\ Loosened(e, clear) /\ halted' = halted \cup CutShort
    /\ queues' = [queues EXCEPT ![e] = IF clear THEN <<>> ELSE @]
    /\ hooks' = IF clear /\ hooks[e] = Absent THEN [hooks EXCEPT ![e] = 0] ELSE hooks
    /\ UNCHANGED <<promised, finishing>>

\* From the last timer to the first, and then what the element's stop still has to do.
Loop(e, gotoEnd) == Job("stopTimers", e, Len(timers), [gotoEnd |-> gotoEnd, found |-> FALSE])

\* A delay is ended by its hook, if that is there.
RunStop ==
    LET e == Head(work).e
    IN  /\ Doing("stop")
        /\ delays' = delays \ {On(e, hooks[e])}
        /\ hooks' = IF hooks[e] = Absent THEN hooks ELSE [hooks EXCEPT ![e] = 0]
        /\ Goes(<<Loop(e, Head(work).arg)>>)
        /\ UNCHANGED <<queues, promised, timers, ended, interval, finishing, counts, histories>>

\* Ends a delay with no animation behind it: nobody dequeues, the empty callbacks are not called.
EndsDelayOnly(e) == On(e, hooks[e]) \in delays /\ \A i \in DOMAIN queues[e] : queues[e][i].kind # "animation"

\* The mark is set, the queue emptied, a delay ended.
Finish(e) ==
    /\ FxUser /\ nFxCalls < MaxFxCalls /\ nFxCalls' = nFxCalls + 1
    /\ Loosened(e, TRUE) /\ halted' = halted \cup CutShort \cup (IF EndsDelayOnly(e) THEN {e} ELSE {})
    /\ finishing' = finishing \cup {e}
    /\ queues' = [queues EXCEPT ![e] = <<>>]
    /\ delays' = delays \ {On(e, hooks[e])}
    /\ work' = <<Loop(e, TRUE), Job("finishOld", e, 0, queues[e])>> \o work
    /\ UNCHANGED <<hooks, promised, timers, ended, interval, nItems>>

\* Mutated: stop never dequeues when it goes to the end, though it ended no animation.
StopForgetsDelay ==
    LET j == Head(work)
        finish == Len(work) > 1 /\ work[2].op = "finishOld"
    IN  /\ Doing("stopTimers") /\ j.n = 0
        /\ Goes(IF finish \/ j.arg.gotoEnd THEN <<>> ELSE <<Dequeue(j.e)>>)
        /\ UNCHANGED <<queues, hooks, promised, timers, drives, counts, histories>>

\* The loop is at its end: stop makes the queue move on, unless complete callbacks have.
StopEnds ==
    LET j == Head(work)
        finish == Len(work) > 1 /\ work[2].op = "finishOld"
    IN  /\ Doing("stopTimers") /\ j.n = 0
        /\ Goes(IF finish \/ (j.arg.found /\ j.arg.gotoEnd) THEN <<>> ELSE <<Dequeue(j.e)>>)
        /\ UNCHANGED <<queues, hooks, promised, timers, drives, counts, histories>>

\* anim.stop of an animation of the element, to its end or not, and then the splice.
StopTimer ==
    LET j == Head(work)
        t == timers[j.n]
        mine == t.e = j.e /\ t.id \notin ended
    IN  /\ Doing("stopTimers") /\ j.n \in 1..Len(timers)
        /\ ended' = IF mine THEN ended \cup {t.id} ELSE ended
        /\ Goes(IF ~mine THEN <<[j EXCEPT !.n = @ - 1]>>
                ELSE (IF j.arg.gotoEnd THEN Completion(j.e) ELSE <<>>)
                        \o <<Job("splice", j.e, j.n, FALSE), [j EXCEPT !.n = @ - 1, !.arg.found = TRUE]>>)
        /\ UNCHANGED <<queues, hooks, promised, timers, delays, interval, finishing, counts, histories>>

RunSplice ==
    LET n == Head(work).n
    IN  /\ Doing("splice") /\ Goes(<<>>)
        /\ timers' = IF n =< Len(timers) THEN RemoveAt(timers, n) ELSE timers
        /\ UNCHANGED <<queues, hooks, promised, drives, counts, histories>>

\* finish: what was in the queue, one animation after the other; delays are left out.  Then the mark goes.
FinishOld ==
    LET j == Head(work)
    IN  /\ Doing("finishOld")
        /\ IF j.arg = <<>>
           THEN finishing' = finishing \ {j.e} /\ Goes(<<>>)
           ELSE /\ Goes((IF Head(j.arg).kind = "animation" THEN <<Job("begin", j.e, 0, Head(j.arg))>> ELSE <<>>)
                            \o <<[j EXCEPT !.arg = Tail(@)]>>)
                /\ UNCHANGED finishing
        /\ UNCHANGED <<queues, hooks, promised, timers, delays, ended, interval, counts, histories>>

FxReturn ==
    /\ Doing("complete") /\ Goes(<<>>)
    /\ UNCHANGED <<queues, hooks, promised, timers, drives, counts, histories>>

\* A complete callback throws, or a loop beyond the end of timers does.
FxThrow ==
    /\ Doing("complete") \/ (Doing("stopTimers") /\ Head(work).n > Len(timers))
    /\ work' = <<>> /\ halted' = halted \cup {work[i].e : i \in {k \in DOMAIN work : work[k].op # "tick"}}
    /\ UNCHANGED <<queues, hooks, promised, timers, drives, counts, loose>>

-----------------------------------------------------------------------------
(* The browser's timers. *)

Tick ==
    /\ work = <<>> /\ interval /\ work' = <<Job("tick", 0, 1, FALSE)>>
    /\ UNCHANGED <<queues, hooks, promised, timers, drives, counts, histories>>

\* The next timer: it goes on, it comes to its end, or it has ended and is removed.
TickGoesOn ==
    /\ Doing("tick") /\ Head(work).n =< Len(timers) /\ timers[Head(work).n].id \notin ended
    /\ Goes(<<[Head(work) EXCEPT !.n = @ + 1]>>)
    /\ UNCHANGED <<queues, hooks, promised, timers, drives, counts, histories>>

TickCompletes ==
    LET t == timers[Head(work).n]
    IN  /\ Doing("tick") /\ Head(work).n =< Len(timers) /\ t.id \notin ended
        /\ ended' = ended \cup {t.id}
        /\ Goes(Completion(t.e) \o <<Job("after", t.e, t.id, FALSE), Head(work)>>)
        /\ UNCHANGED <<queues, hooks, promised, timers, delays, interval, finishing, counts, histories>>

TickRemoves ==
    LET n == Head(work).n
    IN  /\ Doing("tick") /\ n =< Len(timers) /\ timers[n].id \in ended
        /\ timers' = RemoveAt(timers, n) /\ UNCHANGED work
        /\ UNCHANGED <<queues, hooks, promised, drives, counts, histories>>

\* Only if the callbacks have left the timer in its place is it removed.
TickAfter ==
    LET tick == work[2]
        still == tick.n =< Len(timers) /\ timers[tick.n].id = Head(work).n
    IN  /\ Doing("after")
        /\ timers' = IF still THEN RemoveAt(timers, tick.n) ELSE timers
        /\ work' = IF still THEN Tail(work) ELSE <<[tick EXCEPT !.n = @ + 1]>> \o Tail(Tail(work))
        /\ UNCHANGED <<queues, hooks, promised, drives, counts, histories>>

TickEnds ==
    /\ Doing("tick") /\ Head(work).n > Len(timers) /\ Goes(<<>>)
    /\ interval' = (timers # <<>>)
    /\ UNCHANGED <<queues, hooks, promised, timers, delays, ended, finishing, counts, histories>>

\* The timeout of a delay, whatever the queue has become since.
DelayEnds(d) ==
    /\ work = <<>> /\ delays' = delays \ {d} /\ work' = <<Dequeue(d.e)>>
    /\ UNCHANGED <<queues, hooks, promised, timers, ended, interval, finishing, counts, histories>>

-----------------------------------------------------------------------------

FxInit ==
    /\ queues = [e \in Elements |-> <<>>] /\ hooks = [e \in Elements |-> Absent] /\ promised = {}
    /\ timers = <<>> /\ delays = {} /\ ended = {} /\ interval = FALSE /\ finishing = {} /\ work = <<>>
    /\ nItems = [e \in Elements |-> 0] /\ nFxCalls = 0 /\ loose = {} /\ halted = {}

FxNext ==
    \/ \E e \in Elements :
        \/ \E kind \in {"animation", "delay"} : Queue(e, kind)
        \/ \E clear, gotoEnd \in BOOLEAN : Stop(e, clear, gotoEnd)
        \/ ClearQueue(e) \/ Finish(e) \/ Promised(e)
    \/ RunDequeue \/ BeginDelay \/ BeginAnimation \/ RunStop \/ StopEnds \/ StopTimer \/ RunSplice \/ FinishOld
    \/ FxReturn \/ FxThrow
    \/ Tick \/ TickGoesOn \/ TickCompletes \/ TickRemoves \/ TickAfter \/ TickEnds
    \/ \E d \in delays : DelayEnds(d)

-----------------------------------------------------------------------------
(* Properties. *)

\* When nothing is under way: whatever waits in a queue, or for its end, has something running before
\* it, and one thing at a time, with a timer that drives it.  Only elements whose queue was cut short by
\* a callback that threw, by stops within stops or by finish in a delay may wait for ever; more than one thing runs only
\* where the sentinel of something running was thrown away or a complete callback called stop.
QueueMovesOn ==
    work = <<>> =>
        /\ timers # <<>> => interval
        /\ \A e \in Elements \ halted :
            /\ queues[e] # <<>> => Head(queues[e]) = Sentinel /\ RunningOn(e) # {}
            /\ e \in promised => RunningOn(e) # {}
            /\ e \notin loose => Cardinality(RunningOn(e)) = (IF queues[e] = <<>> THEN 0 ELSE 1)
=============================================================================
