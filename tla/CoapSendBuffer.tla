--------------------------- MODULE CoapSendBuffer ---------------------------
(***************************************************************************)
(* BasicCoapSocketHandler (ws4d-jcoap): how outgoing messages get from the *)
(* threads that call sendMessage to the one worker thread that owns the    *)
(* UDP socket.                                                             *)
(*                                                                         *)
(* A caller appends to sendBuffer (a ConcurrentLinkedQueue) and then calls *)
(* selector.wakeup(), in a synchronized method.  The worker polls the      *)
(* buffer until it is empty, serves one datagram and the timeouts, and     *)
(* sleeps in selector.select(waitFor) holding no lock.  wakeup() is        *)
(* sticky: called while nobody selects, it makes the next select return at *)
(* once.  close() may run in any thread at any moment; it closes the       *)
(* socket, sets dgramChannel to null, and does not wake the worker.        *)
(*                                                                         *)
(* What a step does with the datagram or with an expired timeout is left   *)
(* to CoapReceive and CoapRetransmission.                                  *)
(***************************************************************************)
EXTENDS Naturals, Sequences

CONSTANTS Threads,    \* threads that call sendMessage: handlers and the application
          Messages,   \* the messages they send, each one once
          NoThread    \* "no thread owns the monitor"

ASSUME NoThreadAssumption == NoThread \notin Threads

VARIABLES
    unsent,      \* messages no thread has sent yet
    sendBuffer,  \* WorkerThread.sendBuffer
    owner,       \* owner of the WorkerThread monitor (addMessageToSendBuffer is synchronized)
    wakeup,      \* a selector.wakeup() no select has consumed yet
    readable,    \* a datagram waits in the socket
    dgramChannel, \* "open", "closed" (still referenced), "null"
    workerAt,    \* where the worker is in WorkerThread.run
    hand,        \* the message polled from sendBuffer and not yet sent: <<>> or <<m>>
    added, sent  \* history: messages in the order they were buffered, and put on the wire

sendVars == <<unsent, sendBuffer, owner, wakeup, readable, dgramChannel, workerAt, hand, added, sent>>

SendInit ==
    /\ unsent = Messages
    /\ sendBuffer = <<>>
    /\ owner = NoThread
    /\ wakeup = FALSE
    /\ readable = FALSE
    /\ dgramChannel = "open"
    /\ workerAt = "loop"
    /\ hand = <<>>
    /\ added = <<>>
    /\ sent = <<>>

-----------------------------------------------------------------------------
(* The threads that send.                                                  *)

\* sendMessage, then addMessageToSendBuffer up to the add: the monitor is taken
\* and kept until the method returns.
AddMessage(t, m) ==
    /\ m \in unsent
    /\ owner = NoThread
    /\ owner' = t
    /\ unsent' = unsent \ {m}
    /\ sendBuffer' = Append(sendBuffer, m)
    /\ added' = Append(added, m)
    /\ UNCHANGED <<wakeup, readable, dgramChannel, workerAt, hand, sent>>

\* Mutated form: the caller only adds, and never wakes the selector.
WakeupForgotten(t) ==
    /\ owner = t
    /\ owner' = NoThread
    /\ UNCHANGED <<wakeup, unsent, sendBuffer, readable, dgramChannel, workerAt, hand, added, sent>>

\* The rest of addMessageToSendBuffer: selector.wakeup(), and the monitor is released.
WakeupSelector(t) ==
    /\ owner = t
    /\ owner' = NoThread
    /\ wakeup' = TRUE
    /\ UNCHANGED <<unsent, sendBuffer, readable, dgramChannel, workerAt, hand, added, sent>>

\* WorkerThread.close: the socket is closed first; the field is set to null later.
CloseSocket ==
    /\ dgramChannel = "open"
    /\ dgramChannel' = "closed"
    /\ UNCHANGED <<unsent, sendBuffer, owner, wakeup, readable, workerAt, hand, added, sent>>

ForgetChannel ==
    /\ dgramChannel = "closed"
    /\ dgramChannel' = "null"
    /\ UNCHANGED <<unsent, sendBuffer, owner, wakeup, readable, workerAt, hand, added, sent>>

\* A peer's datagram reaches the open socket.
DatagramArrives ==
    /\ dgramChannel = "open"
    /\ ~readable
    /\ readable' = TRUE
    /\ UNCHANGED <<unsent, sendBuffer, owner, wakeup, dgramChannel, workerAt, hand, added, sent>>

-----------------------------------------------------------------------------
(* The worker thread, WorkerThread.run.                                    *)

\* while (dgramChannel != null): on exit the selector is closed.
LoopHead ==
    /\ workerAt = "loop"
    /\ workerAt' = IF dgramChannel = "null" THEN "exited" ELSE "drain"
    /\ UNCHANGED <<unsent, sendBuffer, owner, wakeup, readable, dgramChannel, hand, added, sent>>

\* Mutated form: one message is polled and the worker goes on without sending it.
PollAndForget ==
    /\ workerAt = "drain"
    /\ hand = <<>>
    /\ IF sendBuffer = <<>>
       THEN UNCHANGED <<sendBuffer, hand>>
       ELSE hand' = <<Head(sendBuffer)>> /\ sendBuffer' = Tail(sendBuffer)
    /\ workerAt' = "receive"
    /\ UNCHANGED <<unsent, owner, wakeup, readable, dgramChannel, added, sent>>

\* Mutated form: the oldest message stays behind, the newest one goes first.
PollNewest ==
    /\ workerAt = "drain"
    /\ hand = <<>>
    /\ IF sendBuffer = <<>>
       THEN workerAt' = "receive" /\ UNCHANGED <<sendBuffer, hand>>
       ELSE /\ hand' = <<sendBuffer[Len(sendBuffer)]>>
            /\ sendBuffer' = SubSeq(sendBuffer, 1, Len(sendBuffer) - 1)
            /\ UNCHANGED workerAt
    /\ UNCHANGED <<unsent, owner, wakeup, readable, dgramChannel, added, sent>>

\* sendBufferedMessages: sendBuffer.poll() until it returns null.
Poll ==
    /\ workerAt = "drain"
    /\ hand = <<>>
    /\ IF sendBuffer = <<>>
       THEN workerAt' = "receive" /\ UNCHANGED <<sendBuffer, hand>>
       ELSE /\ hand' = <<Head(sendBuffer)>>
            /\ sendBuffer' = Tail(sendBuffer)
            /\ UNCHANGED workerAt
    /\ UNCHANGED <<unsent, owner, wakeup, readable, dgramChannel, added, sent>>

\* sendUdpMsg: on a closed channel send throws an IOException, which is logged and
\* the message is gone; on a null channel the NullPointerException ends the thread.
Send ==
    /\ workerAt = "drain"
    /\ hand # <<>>
    /\ sent' = IF dgramChannel = "open" THEN sent \o hand ELSE sent
    /\ hand' = <<>>
    /\ workerAt' = IF dgramChannel = "null" THEN "died" ELSE workerAt
    /\ UNCHANGED <<unsent, sendBuffer, owner, wakeup, readable, dgramChannel, added>>

\* dgramChannel.receive does not block; one datagram per turn.  A closed channel
\* throws an IOException that is caught, a null one ends the thread.
Receive ==
    /\ workerAt = "receive"
    /\ readable' = FALSE
    /\ workerAt' = IF dgramChannel = "null" THEN "died" ELSE "timeouts"
    /\ UNCHANGED <<unsent, sendBuffer, owner, wakeup, dgramChannel, hand, added, sent>>

\* handleTimeouts and the four update() calls, then into selector.select(waitFor).
\* A retransmission on a null channel ends the thread like any other send.
HandleTimeouts ==
    /\ workerAt = "timeouts"
    /\ \/ workerAt' = "select"
       \/ dgramChannel = "null" /\ workerAt' = "died"
    /\ UNCHANGED <<unsent, sendBuffer, owner, wakeup, readable, dgramChannel, hand, added, sent>>

\* selector.select returns because of a wakeup, which it consumes, or of a datagram.
SelectReturns ==
    /\ workerAt = "select"
    /\ wakeup \/ readable
    /\ wakeup' = FALSE
    /\ workerAt' = "loop"
    /\ UNCHANGED <<unsent, sendBuffer, owner, readable, dgramChannel, hand, added, sent>>

\* Mutated form: select() without a timeout.
SelectForever ==
    /\ workerAt = "select"
    /\ wakeup /\ readable /\ dgramChannel = "open"
    /\ workerAt' = "loop"
    /\ UNCHANGED <<unsent, sendBuffer, owner, wakeup, readable, dgramChannel, hand, added, sent>>

\* selector.select returns because waitFor milliseconds have passed.
SelectTimesOut ==
    /\ workerAt = "select"
    /\ ~wakeup
    /\ workerAt' = "loop"
    /\ UNCHANGED <<unsent, sendBuffer, owner, wakeup, readable, dgramChannel, hand, added, sent>>

Worker == LoopHead \/ Poll \/ Send \/ Receive \/ HandleTimeouts \/ SelectReturns

SendNext ==
    \/ \E t \in Threads, m \in Messages : AddMessage(t, m)
    \/ \E t \in Threads : WakeupSelector(t)
    \/ CloseSocket \/ ForgetChannel
    \/ DatagramArrives
    \/ Worker
    \/ SelectTimesOut

\* The worker and a caller inside addMessageToSendBuffer keep running.  The timeout of
\* select is left out on purpose: no message may depend on it to get out.
SendSpec ==
    /\ SendInit
    /\ [][SendNext]_sendVars
    /\ WF_sendVars(Worker)
    /\ \A t \in Threads : WF_sendVars(WakeupSelector(t))

-----------------------------------------------------------------------------
\* Every variable holds a value of its type, and the worker holds a message only inside
\* sendBufferedMessages.
SendTypeOK ==
    /\ unsent \subseteq Messages
    /\ sendBuffer \in Seq(Messages)
    /\ owner \in Threads \cup {NoThread}
    /\ wakeup \in BOOLEAN
    /\ readable \in BOOLEAN
    /\ dgramChannel \in {"open", "closed", "null"}
    /\ workerAt \in {"loop", "drain", "receive", "timeouts", "select", "exited", "died"}
    /\ hand \in Seq(Messages) /\ Len(hand) <= 1
    /\ hand # <<>> => workerAt = "drain"
    /\ added \in Seq(Messages)
    /\ sent \in Seq(Messages)

\* The worker has seen an empty buffer and is on its way to sleep, or sleeps.
GoingToSleep == workerAt \in {"receive", "timeouts", "select"}

\* A worker that has looked at sendBuffer and found it empty never goes to sleep on a
\* message: if the buffer is not empty again, a wakeup is pending or the thread that
\* added the message is still to call it (run, lines 177-230; addMessageToSendBuffer).
\* This is the delay the FIXME before selector.select is about, and it cannot happen.
NoStrandedMessage ==
    GoingToSleep /\ sendBuffer # <<>> => wakeup \/ owner # NoThread

\* While the channel is open nothing is lost, repeated or overtaken between
\* addMessageToSendBuffer and dgramChannel.send.
NothingLostWhileOpen ==
    dgramChannel = "open" => added = sent \o hand \o sendBuffer

\* Seen from the outside the handler is a first-in first-out outbox, close included.
Box == INSTANCE Outbox WITH accepted <- added, transmitted <- sent
ImplementsOutbox == Box!OutboxSpec

\* A buffered message is put on the wire, or the channel is closed, without the help
\* of a select timeout and without any further datagram.
PromptlySent ==
    \A m \in Messages :
        (\E i \in DOMAIN sendBuffer : sendBuffer[i] = m)
            ~> (dgramChannel # "open" \/ \E i \in DOMAIN sent : sent[i] = m)

\* close() leaves waking the worker as a TODO; the thread ends nevertheless, provided that
\* the timeout of select, which the operating system delivers, takes effect.
WorkerEndsAfterClose ==
    WF_sendVars(SelectTimesOut) => ((dgramChannel = "null") ~> (workerAt \in {"exited", "died"}))
=============================================================================
