----------------------------- MODULE WebRequests -----------------------------
(***************************************************************************)
(* What the pages of the web front end have in common: the calls of $.ajax *)
(* under way, each made by one of the functions of script.js.              *)
(*                                                                         *)
(* JavaScript runs one handler at a time: a click or a callback is one     *)
(* step, with everything it calls.  Between the steps the servlet answers  *)
(* the calls, in any order, out of the rows it holds at that moment, and   *)
(* the browser hands the answers over, in any order.  A page that goes     *)
(* elsewhere (window.location) ends here; its successor starts afresh.     *)
(***************************************************************************)
EXTENDS Integers, Sequences, FiniteSets, SequencesExt

CONSTANTS
    Pages,          \* the parts of the pages a user may work on, one of them in a behaviour
    MaxClicks,      \* clicks of the user on each page
    MaxCalls,       \* calls under way after a click on each page
    MaxFailures,    \* calls that fail on each page
    None,           \* no answer yet, nothing selected
    Null,           \* the answer that is null
    Failed,         \* an answer with a status other than those below, or none at all
    Denied          \* a status of 401 or 500

ASSUME AnswersAssumption ==
    None \notin {Null, Failed, Denied} /\ Null \notin {Failed, Denied} /\ Failed # Denied

VARIABLES
    page,           \* what the user works on; "left" when the page has gone elsewhere
    calls,          \* the calls under way, in the order they were made
    clicks,         \* clicks so far
    failures,       \* calls that have failed so far
    overtaken,      \* history: functions with a call answered, or heard, after a later call
    hasty           \* history: functions with a call under way when the user ended an edit

web == <<page, calls, clicks, failures, overtaken, hasty>>

Call(fn, key, data) == [fn |-> fn, key |-> key, data |-> data, answer |-> None]

\* The functions whose call has no table of status codes.
WithoutTable == {"login", "getUserOfLogin", "updateConfig", "createSensor", "updateSensor",
                 "createLearnSensor", "getMeasureTypes", "getMeasureLearnSensor", "searchSensor",
                 "searchGroups", "searchSensorSelection", "getSensors", "getDatas"}

FunctionsOf(cs) == {cs[i].fn : i \in DOMAIN cs}
Calling(fns) == FunctionsOf(calls) \cap fns # {}

-----------------------------------------------------------------------------
(* The user. *)

\* A click sends the calls in this order.
Clicked(p, new) ==
    /\ page = p /\ clicks < MaxClicks[p] /\ clicks' = clicks + 1
    /\ Len(calls) + Len(new) =< MaxCalls[p] /\ calls' = calls \o new
    /\ UNCHANGED <<page, failures, overtaken>>

Click(p, new) == Clicked(p, new) /\ UNCHANGED hasty

\* A click that ends an edit, for good (Save) or not (Cancel, another form).
EndEdit(p, new) == Clicked(p, new) /\ hasty' = hasty \cup FunctionsOf(calls)

-----------------------------------------------------------------------------
(* The servlet. *)

\* The i-th call is answered.
Answer(i, answer) ==
    /\ calls[i].answer = None
    /\ calls' = [calls EXCEPT ![i].answer = answer]
    /\ overtaken' = overtaken \cup {calls[j].fn : j \in {k \in 1..(i - 1) : calls[k].answer = None}}
    /\ UNCHANGED <<page, clicks, hasty>>

AnswerBadly(i) ==
    /\ failures < MaxFailures[page] /\ failures' = failures + 1
    /\ \E bad \in {Failed, Denied} : Answer(i, bad)

Reply(i, answer) == Answer(i, answer) /\ UNCHANGED failures

\* RestInterface changes its rows before it checks the token, and the answer may get lost.
Executed(i, answer) == Reply(i, answer) \/ AnswerBadly(i)

\* A new row comes with a key of its own; where the model has none left the call fails.
TableFull(i, free) == free = {} /\ Reply(i, Denied)

-----------------------------------------------------------------------------
(* The browser. *)

\* The i-th call is over; the callback makes new ones.
Hear(i, new) ==
    /\ page # "left"
    /\ calls' = RemoveAt(calls, i) \o new
    /\ overtaken' = overtaken \cup {calls[j].fn : j \in 1..(i - 1)}
    /\ UNCHANGED <<page, clicks, failures, hasty>>

\* The callback for success; those for error that only show an alert.
Heard(i, new) == calls[i].answer \notin {None, Failed, Denied} /\ Hear(i, new)

\* Where what the servlet reads does not change, as the EEP file, it makes no difference when it does.
Listed(i, new) == calls[i].answer = None /\ Hear(i, new)

Refused(i) ==
    /\ calls[i].answer = Failed \/ (calls[i].answer = Denied /\ calls[i].fn \in WithoutTable)
    /\ Hear(i, <<>>)

\* The table of status codes of most calls: 401 and 500 lead to index.html.
Redirected(i) ==
    /\ page # "left" /\ calls[i].answer = Denied /\ calls[i].fn \notin WithoutTable
    /\ page' = "left" /\ calls' = <<>>
    /\ UNCHANGED <<clicks, failures, overtaken, hasty>>
=============================================================================
