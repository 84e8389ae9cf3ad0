----------------------------- MODULE JQueryAjax -----------------------------
(***************************************************************************)
(* jQuery.ajax over XMLHttpRequest.  An answer, a timeout and an abort     *)
(* race for the end of a request; the function done runs for the first of  *)
(* them and calls the callbacks, which may abort, send, or throw.  pending *)
(* is the stack of what JavaScript has begun, as todo in JQueryDeferred.   *)
(***************************************************************************)
EXTENDS Integers, Sequences, FiniteSets, SequencesExt

CONSTANTS
    Requests,       \* the requests, each sent once
    NotSent         \* the state of a request before

ASSUME NotSentAssumption == NotSent \notin 0..2

VARIABLES
    requests,       \* for each: its state (0, 1, 2), how it was sent, transport, timer, callbacks
    active,         \* jQuery.active
    busy,           \* between the events ajaxStart and ajaxStop
    pending,
    heard,          \* history: the callbacks called for each request
    spoiled         \* history: the requests that a callback which threw kept from their end

ajaxVars == <<requests, active, busy, pending, heard, spoiled>>

\* What done is called with: an answer, or the reason why there is none.
Data == [status |-> 200, type |-> "json", wellFormed |-> TRUE]
Answers ==
    {Data, [Data EXCEPT !.wellFormed = FALSE], [Data EXCEPT !.type = "html", !.wellFormed = FALSE],
     [Data EXCEPT !.status = 204], [Data EXCEPT !.status = 401], [Data EXCEPT !.status = 404]}
Without(reason) == [status |-> 0, type |-> reason, wellFormed |-> FALSE]

\* The type that the answer is taken for: the one asked for, or if that is "*" the one it says it has.
ResponseType(wanted, answer) == IF wanted = "*" THEN answer.type ELSE wanted

\* Text is parsed as JSON or XML, and anything is HTML or text.
Converts(wanted, answer) == ResponseType(wanted, answer) \in {"json", "xml"} => answer.wellFormed

Succeeds(wanted, answer) ==
    \/ answer.status \in 200..299 /\ (answer.status = 204 \/ Converts(wanted, answer))
    \/ answer.status = 304

\* The status codes with a callback of their own.
StatusTable == {401, 500}

Fresh == [state |-> NotSent, async |-> TRUE, wanted |-> "*", transport |-> "none", timer |-> FALSE,
          installed |-> FALSE, answer |-> Without("none")]

Entry(op, r, arg) == [op |-> op, r |-> r, arg |-> arg]
Top(op) == pending # <<>> /\ Head(pending).op = op
UserRuns == pending = <<>> \/ Top("before") \/ Top("callback")

-----------------------------------------------------------------------------
(* The user: callbacks of earlier requests, or any other handler. *)

\* $.ajax up to beforeSend
Ajax(r, async, wanted) ==
    /\ UserRuns /\ requests[r].state = NotSent
    /\ requests' = [requests EXCEPT ![r] = [Fresh EXCEPT !.state = 0, !.async = async, !.wanted = wanted]]
    /\ active' = active + 1 /\ busy' = (busy \/ active = 0)
    /\ pending' = <<Entry("before", r, Fresh.answer)>> \o pending
    /\ UNCHANGED <<heard, spoiled>>

\* beforeSend returns false.
Cancel ==
    /\ Top("before")
    /\ pending' = <<Entry("done", Head(pending).r, Without("canceled"))>> \o Tail(pending)
    /\ UNCHANGED <<requests, active, busy, heard, spoiled>>

\* The rest of $.ajax.  No transport takes the request, or the transport throws, or it sends it; where
\* it need not wait it has the answer.
SendNothing(reason) ==
    LET r == Head(pending).r
    IN  /\ Top("before") /\ requests[r].state = 0
        /\ requests' = [requests EXCEPT ![r].installed = TRUE]
        /\ pending' = <<Entry("done", r, Without(reason))>> \o Tail(pending)
        /\ UNCHANGED <<active, busy, heard, spoiled>>

\* The event ajaxSend, triggered before the state is set, is left out: no page binds it.  (An abort by a handler
\* of it would be forgotten when the state is set.)
Send(timeout) ==
    LET r == Head(pending).r
    IN  /\ Top("before") /\ requests[r].state = 0 /\ requests[r].async
        /\ requests' = [requests EXCEPT ![r].installed = TRUE, ![r].state = 1,
                                        ![r].transport = "open", ![r].timer = timeout]
        /\ pending' = Tail(pending)
        /\ UNCHANGED <<active, busy, heard, spoiled>>

SendAndWait(answer) ==
    LET r == Head(pending).r
    IN  /\ Top("before") /\ requests[r].state = 0 /\ ~requests[r].async
        /\ requests' = [requests EXCEPT ![r].installed = TRUE, ![r].state = 1]
        /\ pending' = <<Entry("done", r, answer)>> \o Tail(pending)
        /\ UNCHANGED <<active, busy, heard, spoiled>>

\* beforeSend has aborted the request.
SendAborted ==
    /\ Top("before") /\ requests[Head(pending).r].state = 2
    /\ pending' = Tail(pending)
    /\ UNCHANGED <<requests, active, busy, heard, spoiled>>

\* abort of a jqXHR: that of the transport, which calls nobody, and done.
Aborted(r, reason) ==
    /\ requests' = [requests EXCEPT ![r].transport = "none", ![r].timer = @ /\ reason # "timeout"]
    /\ pending' = <<Entry("done", r, Without(reason))>> \o pending
    /\ UNCHANGED <<active, busy, heard, spoiled>>

Abort(r) == UserRuns /\ requests[r].state # NotSent /\ Aborted(r, "abort")

AjaxReturn ==
    /\ Top("callback") /\ pending' = Tail(pending)
    /\ UNCHANGED <<requests, active, busy, heard, spoiled>>

\* Nothing catches what beforeSend or a callback throws; done, which called it, is over.
AjaxThrow ==
    /\ Top("before") \/ Top("callback")
    /\ pending' = <<>>
    /\ spoiled' = spoiled \cup {pending[i].r : i \in {k \in DOMAIN pending : pending[k].op = "end"}}
    /\ UNCHANGED <<requests, active, busy, heard>>

-----------------------------------------------------------------------------
(* The browser. *)

\* The callback of the transport, once the XMLHttpRequest has its answer.
AnswerComes(r, answer) ==
    /\ pending = <<>> /\ requests[r].transport = "open"
    /\ requests' = [requests EXCEPT ![r].transport = "none"]
    /\ pending' = <<Entry("done", r, answer)>>
    /\ UNCHANGED <<active, busy, heard, spoiled>>

TimesOut(r) == pending = <<>> /\ requests[r].timer /\ Aborted(r, "timeout")

-----------------------------------------------------------------------------
(* done *)

\* The callbacks that done calls, in their order; none was installed if beforeSend ended the request.
CallbacksOf(r, answer) ==
    IF ~requests[r].installed THEN <<>>
    ELSE <<IF Succeeds(requests[r].wanted, answer) THEN "success" ELSE "error">>
            \o (IF answer.status \in StatusTable THEN <<"statusCode">> ELSE <<>>) \o <<"complete">>

Entries(r, names) == [i \in DOMAIN names |-> Entry("call", r, names[i])]

\* Mutated: without the guard that lets done run once.
DoneAgain ==
    LET t == Head(pending)
    IN  /\ Top("done")
        /\ requests' = [requests EXCEPT ![t.r].state = 2, ![t.r].timer = FALSE,
                                        ![t.r].transport = "none", ![t.r].answer = t.arg]
        /\ pending' = Entries(t.r, CallbacksOf(t.r, t.arg)) \o <<Entry("end", t.r, t.arg)>> \o Tail(pending)
        /\ UNCHANGED <<active, busy, heard, spoiled>>

Done ==
    LET t == Head(pending)
    IN  /\ Top("done")
        /\ IF requests[t.r].state = 2
           THEN pending' = Tail(pending) /\ UNCHANGED requests
           ELSE /\ requests' = [requests EXCEPT ![t.r].state = 2, ![t.r].timer = FALSE,
                                                ![t.r].transport = "none", ![t.r].answer = t.arg]
                /\ pending' = Entries(t.r, CallbacksOf(t.r, t.arg)) \o <<Entry("end", t.r, t.arg)>> \o Tail(pending)
        /\ UNCHANGED <<active, busy, heard, spoiled>>

DoneCalls ==
    LET t == Head(pending)
    IN  /\ Top("call")
        /\ heard' = [heard EXCEPT ![t.r] = Append(@, t.arg)]
        /\ pending' = <<Entry("callback", t.r, t.arg)>> \o Tail(pending)
        /\ UNCHANGED <<requests, active, busy, spoiled>>

DoneEnds ==
    /\ Top("end") /\ pending' = Tail(pending)
    /\ active' = active - 1 /\ busy' = (busy /\ active # 1)
    /\ UNCHANGED <<requests, heard, spoiled>>

-----------------------------------------------------------------------------

AjaxInit ==
    /\ requests = [r \in Requests |-> Fresh] /\ active = 0 /\ busy = FALSE /\ pending = <<>>
    /\ heard = [r \in Requests |-> <<>>] /\ spoiled = {}

AjaxNext ==
    \/ \E r \in Requests, async \in BOOLEAN, wanted \in {"*", "json"} : Ajax(r, async, wanted)
    \/ Cancel \/ SendAborted
    \/ \E reason \in {"noTransport", "exception"} : SendNothing(reason)
    \/ \E timeout \in BOOLEAN : Send(timeout)
    \/ \E answer \in Answers : SendAndWait(answer) \/ \E r \in Requests : AnswerComes(r, answer)
    \/ \E r \in Requests : Abort(r) \/ TimesOut(r)
    \/ AjaxReturn \/ AjaxThrow \/ Done \/ DoneCalls \/ DoneEnds

-----------------------------------------------------------------------------
(* Properties. *)

\* Answer, timeout and abort may come in any order and from within callbacks: a request has one outcome,
\* success or error, then its complete, and its callbacks are called once.  jQuery.active counts the
\* requests under way, and ajaxStop has come when there are none, but for those whose callback threw.
RequestsEndOnce ==
    /\ \A r \in Requests :
        /\ IsPrefix(heard[r], CallbacksOf(r, requests[r].answer))
        /\ pending = <<>> /\ requests[r].state = 2 /\ r \notin spoiled =>
                heard[r] = CallbacksOf(r, requests[r].answer)
        /\ requests[r].state # 2 => heard[r] = <<>>
    /\ pending = <<>> =>
        /\ active = Cardinality({r \in Requests : requests[r].state \in 0..1} \cup spoiled)
        /\ busy = (active > 0)
=============================================================================
