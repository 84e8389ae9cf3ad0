------------------------- MODULE CoapRetransmission -------------------------
(***************************************************************************)
(* BasicCoapSocketHandler (ws4d-jcoap): reliable transmission of CON       *)
(* messages.  The worker thread sends a CON message, keeps it in           *)
(* timeoutConMsgMap and queues a TimeoutObject; when the timeout expires   *)
(* it looks the message up again and either sends it once more, with twice *)
(* the timeout, or gives the connection up.  Every answer is handled by a  *)
(* thread of its own (HandleIncommingMessageThread), which confirms the    *)
(* message by removing it from the map.                                    *)
(*                                                                         *)
(* Time is discrete.  A TimeoutObject holds the time left until it         *)
(* expires, instead of the absolute time, so no clock grows without bound. *)
(* How messages get into sendBuffer and wake the worker is the subject of  *)
(* CoapSendBuffer; here sendMessage is one step.                           *)
(***************************************************************************)
EXTENDS Integers, Sequences, FiniteSets

CONSTANTS
    Con, Non,            \* the messages to send; a message stands for its message ID
    CollidingIds,        \* IDs in Con that remotes also use for NON responses of their own
    None,                \* no message
    MAX_RETRANSMIT,      \* transmissions of a CON message before the connection is lost
    ResponseTimeouts,    \* the random initial timeouts, from RESPONSE_TIMEOUT_MS up
    POLLING_INTERVALL,   \* the longest select
    ACK_RST_RETRANS_TIMEOUT, \* lifetime of an entry of timeoutConMsgMap
    MaxDelay             \* how late the worker may serve a timeout

Messages == Con \cup Non

ASSUME MessagesAssumption ==
    /\ Con \cap Non = {}
    /\ CollidingIds \subseteq Con
    /\ None \notin Con \cup Non

ASSUME TimingAssumption ==
    /\ MAX_RETRANSMIT \in Nat \ {0}
    /\ ResponseTimeouts \subseteq Nat \ {0} /\ ResponseTimeouts # {}
    /\ POLLING_INTERVALL \in Nat \ {0}
    /\ MaxDelay \in Nat

\* The longest wait for an answer is shorter than the life of a map entry, which put()
\* renews at every transmission: timeoutConMsgMap.get never meets an expired entry.
ASSUME LifetimeAssumption ==
    \A r \in ResponseTimeouts :
        r * 2^(MAX_RETRANSMIT - 1) + MaxDelay < ACK_RST_RETRANS_TIMEOUT

VARIABLES
    unsent,               \* messages the application has not sent yet
    sendBuffer,           \* WorkerThread.sendBuffer
    wakeup,               \* a selector.wakeup() no select has consumed yet
    retransmissionCounter, timeout,  \* fields of each CON message
    timeoutConMsgMap,     \* the keys of the map: CON messages waiting for an answer
    timeoutQueue,         \* the TimeoutObjects: [id, left]
    pc,                   \* the worker: "drain", "timeouts", "retransmit", "select"
    inHand,               \* the message the worker took from the map, or None
    waitFor,              \* time left of the running select
    reached,              \* messages a copy of which reached the remote
    confirmed,            \* messages a handler thread has confirmed
    lost                  \* messages lostConnection was called for

conVars == <<retransmissionCounter, timeout, timeoutConMsgMap, timeoutQueue, reached>>
vars == <<unsent, sendBuffer, wakeup, retransmissionCounter, timeout, timeoutConMsgMap,
          timeoutQueue, pc, inHand, waitFor, reached, confirmed, lost>>

Init ==
    /\ unsent = Messages
    /\ sendBuffer = <<>>
    /\ wakeup = FALSE
    /\ retransmissionCounter = [m \in Con |-> 0]
    /\ timeout = [m \in Con |-> 0]
    /\ timeoutConMsgMap = {}
    /\ timeoutQueue = {}
    /\ pc = "drain"
    /\ inHand = None
    /\ waitFor = POLLING_INTERVALL
    /\ reached = {}
    /\ confirmed = {}
    /\ lost = {}

-----------------------------------------------------------------------------
(* Sending one message, WorkerThread.sendUdpMsg.                           *)

\* Mutated form: one transmission too many.
MaxRetransExceeded(m) == retransmissionCounter[m] > MAX_RETRANSMIT

MaxRetransReached(m) == retransmissionCounter[m] >= MAX_RETRANSMIT

\* Doubled at every transmission; the first one has 0 doubled and draws at random.
NextTimeouts(m) == IF timeout[m] = 0 THEN ResponseTimeouts ELSE {2 * timeout[m]}

\* The datagram may get lost; an IOException of send is logged and has the same effect.
DatagramSent(m) == reached' \in {reached, reached \cup {m}}

\* Mutated form: the timeout is queued, but the message is not put into the map.
TransmitUnmapped(m) ==
    /\ m \in Con /\ ~MaxRetransReached(m)
    /\ retransmissionCounter' = [retransmissionCounter EXCEPT ![m] = @ + 1]
    /\ \E r \in NextTimeouts(m) :
        /\ timeout' = [timeout EXCEPT ![m] = r]
        /\ timeoutQueue' = timeoutQueue \cup {[id |-> m, left |-> r]}
    /\ DatagramSent(m)
    /\ UNCHANGED <<timeoutConMsgMap, lost>>

\* A CON message that has not used up its transmissions.
TransmitCon(m) ==
    /\ m \in Con /\ ~MaxRetransReached(m)
    /\ retransmissionCounter' = [retransmissionCounter EXCEPT ![m] = @ + 1]
    /\ timeoutConMsgMap' = timeoutConMsgMap \cup {m}
    /\ \E r \in NextTimeouts(m) :
        /\ timeout' = [timeout EXCEPT ![m] = r]
        /\ timeoutQueue' = timeoutQueue \cup {[id |-> m, left |-> r]}
    /\ DatagramSent(m)
    /\ UNCHANGED lost

\* Mutated form: the message given up stays in the map.
GiveUpKeepsEntry(m) ==
    /\ m \in Con /\ MaxRetransReached(m)
    /\ lost' = lost \cup {m}
    /\ UNCHANGED <<retransmissionCounter, timeout, timeoutConMsgMap, timeoutQueue, reached>>

\* A CON message whose last timeout has expired: the connection is broken.
GiveUp(m) ==
    /\ m \in Con /\ MaxRetransReached(m)
    /\ timeoutConMsgMap' = timeoutConMsgMap \ {m}
    /\ lost' = lost \cup {m}
    /\ UNCHANGED <<retransmissionCounter, timeout, timeoutQueue, reached>>

TransmitNon(m) ==
    /\ m \in Non
    /\ DatagramSent(m)
    /\ UNCHANGED <<retransmissionCounter, timeout, timeoutConMsgMap, timeoutQueue, lost>>

SendUdpMsg(m) == TransmitCon(m) \/ GiveUp(m) \/ TransmitNon(m)

-----------------------------------------------------------------------------
(* The worker thread.                                                      *)

\* sendBufferedMessages: one turn of its loop.
Drain ==
    /\ pc = "drain" /\ sendBuffer # <<>>
    /\ sendBuffer' = Tail(sendBuffer)
    /\ SendUdpMsg(Head(sendBuffer))
    /\ UNCHANGED <<unsent, wakeup, pc, inHand, waitFor, confirmed>>

\* The buffer is empty; receiving a datagram only starts a handler thread.
Drained ==
    /\ pc = "drain" /\ sendBuffer = <<>>
    /\ pc' = "timeouts"
    /\ UNCHANGED <<unsent, sendBuffer, wakeup, inHand, waitFor, confirmed, lost, conVars>>

Expired(t) == t.left <= 0
IsHead(t) == t \in timeoutQueue /\ \A u \in timeoutQueue : t.left <= u.left

\* Mutated form: the expired head is only peeked at.
PeekTimeout ==
    /\ pc = "timeouts"
    /\ \E t \in timeoutQueue :
        /\ IsHead(t) /\ Expired(t)
        /\ t.id \in timeoutConMsgMap
        /\ inHand' = t.id /\ pc' = "retransmit"
    /\ UNCHANGED <<unsent, sendBuffer, wakeup, waitFor, confirmed, lost, conVars>>

\* Mutated form: the message is taken from the timeout object, not from the map.
PollWithoutLookup ==
    /\ pc = "timeouts"
    /\ \E t \in timeoutQueue :
        /\ IsHead(t) /\ Expired(t)
        /\ timeoutQueue' = timeoutQueue \ {t}
        /\ inHand' = t.id /\ pc' = "retransmit"
    /\ UNCHANGED <<unsent, sendBuffer, wakeup, retransmissionCounter, timeout,
                   timeoutConMsgMap, waitFor, reached, confirmed, lost>>

\* handleTimeouts: the head of the queue has expired; poll it and get its message.
\* If it has been confirmed, get returns null and sendUdpMsg(null) does nothing.
PollTimeout ==
    /\ pc = "timeouts"
    /\ \E t \in timeoutQueue :
        /\ IsHead(t) /\ Expired(t)
        /\ timeoutQueue' = timeoutQueue \ {t}
        /\ IF t.id \in timeoutConMsgMap
           THEN inHand' = t.id /\ pc' = "retransmit"
           ELSE UNCHANGED <<inHand, pc>>
    /\ UNCHANGED <<unsent, sendBuffer, wakeup, retransmissionCounter, timeout,
                   timeoutConMsgMap, waitFor, reached, confirmed, lost>>

\* handleTimeouts: sendUdpMsg of the message found.  A handler thread may have confirmed
\* it since the get.
Retransmit ==
    /\ pc = "retransmit"
    /\ SendUdpMsg(inHand)
    /\ inHand' = None
    /\ pc' = "timeouts"
    /\ UNCHANGED <<unsent, sendBuffer, wakeup, waitFor, confirmed>>

\* Mutated form: always the longest sleep.
SleepLongest ==
    /\ pc = "timeouts"
    /\ \A t \in timeoutQueue : ~Expired(t)
    /\ pc' = "select"
    /\ waitFor' = POLLING_INTERVALL
    /\ UNCHANGED <<unsent, sendBuffer, wakeup, inHand, confirmed, lost, conVars>>

\* handleTimeouts returns how long to sleep: until the head of the queue expires.
EnterSelect ==
    /\ pc = "timeouts"
    /\ \A t \in timeoutQueue : ~Expired(t)
    /\ pc' = "select"
    /\ IF timeoutQueue = {}
       THEN waitFor' = POLLING_INTERVALL
       ELSE \E t \in timeoutQueue : IsHead(t) /\ waitFor' = t.left
    /\ UNCHANGED <<unsent, sendBuffer, wakeup, inHand, confirmed, lost, conVars>>

\* Mutated form: select() without a timeout.
SelectForever ==
    /\ pc = "select"
    /\ wakeup
    /\ wakeup' = FALSE
    /\ pc' = "drain"
    /\ UNCHANGED <<unsent, sendBuffer, inHand, waitFor, confirmed, lost, conVars>>

\* selector.select(waitFor) returns: woken up, or the time is over.
SelectReturns ==
    /\ pc = "select"
    /\ wakeup \/ waitFor <= 0
    /\ wakeup' = FALSE
    /\ pc' = "drain"
    /\ UNCHANGED <<unsent, sendBuffer, inHand, waitFor, confirmed, lost, conVars>>

Worker ==
    Drain \/ Drained \/ PollTimeout \/ Retransmit \/ EnterSelect \/ SelectReturns

-----------------------------------------------------------------------------
(* Everybody else.                                                         *)

\* sendMessage, called by an application or handler thread.
SendMessage(m) ==
    /\ m \in unsent
    /\ unsent' = unsent \ {m}
    /\ sendBuffer' = Append(sendBuffer, m)
    /\ wakeup' = TRUE
    /\ UNCHANGED <<pc, inHand, waitFor, confirmed, lost, conVars>>

\* A handler thread confirms m: an ACK, a RST or a response with its ID came back, for
\* the first time or once more.
Confirm(m) ==
    /\ m \in Con \cap reached
    /\ timeoutConMsgMap' = timeoutConMsgMap \ {m}
    /\ confirmed' = confirmed \cup {m}
    /\ UNCHANGED <<unsent, sendBuffer, wakeup, retransmissionCounter, timeout,
                   timeoutQueue, pc, inHand, waitFor, reached, lost>>

\* A handler thread takes a NON response whose ID its remote chose for the answer to the
\* host's message with the same ID: NON responses are removed from the map like ACKs.
ConfirmByCollision(m) ==
    /\ m \in CollidingIds
    /\ timeoutConMsgMap' = timeoutConMsgMap \ {m}
    /\ UNCHANGED <<unsent, sendBuffer, wakeup, retransmissionCounter, timeout,
                   timeoutQueue, pc, inHand, waitFor, reached, confirmed, lost>>

\* A datagram makes select return early.
DatagramArrives ==
    /\ pc = "select"
    /\ pc' = "drain"
    /\ UNCHANGED <<unsent, sendBuffer, wakeup, inHand, waitFor, confirmed, lost, conVars>>

\* Time passes; the worker is at most MaxDelay late.
Tick ==
    /\ \A t \in timeoutQueue : t.left > -MaxDelay
    /\ pc = "select" => waitFor > -MaxDelay
    /\ timeoutQueue' = {[t EXCEPT !.left = @ - 1] : t \in timeoutQueue}
    /\ waitFor' = IF pc = "select" THEN waitFor - 1 ELSE waitFor
    /\ UNCHANGED <<unsent, sendBuffer, wakeup, retransmissionCounter, timeout,
                   timeoutConMsgMap, pc, inHand, reached, confirmed, lost>>

Next ==
    \/ Worker
    \/ \E m \in Messages : SendMessage(m)
    \/ \E m \in Con : Confirm(m) \/ ConfirmByCollision(m)
    \/ DatagramArrives
    \/ Tick

\* The worker thread runs, and time passes.  Applications, remotes and the network owe
\* nothing.
Spec == Init /\ [][Next]_vars /\ WF_vars(Worker) /\ WF_vars(Tick)

-----------------------------------------------------------------------------
\* Every variable holds a value of its type, and the worker has a message in hand exactly
\* while it is about to retransmit it.
TypeOK ==
    /\ unsent \subseteq Messages
    /\ sendBuffer \in Seq(Messages)
    /\ wakeup \in BOOLEAN
    /\ retransmissionCounter \in [Con -> 0..MAX_RETRANSMIT]
    /\ timeout \in [Con -> Nat]
    /\ timeoutConMsgMap \subseteq Con
    /\ timeoutQueue \subseteq [id : Con, left : Int]
    /\ pc \in {"drain", "timeouts", "retransmit", "select"}
    /\ inHand \in Con \cup {None}
    /\ (pc = "retransmit") <=> (inHand # None)
    /\ waitFor \in Int
    /\ reached \subseteq Messages
    /\ confirmed \subseteq Con
    /\ lost \subseteq Con

\* A CON message that waits for an answer is scheduled: a timeout object will bring it
\* back to the worker, or the worker has it in hand.  Otherwise neither a retransmission
\* nor lostConnection would ever happen.
Scheduled ==
    \A m \in timeoutConMsgMap : inHand = m \/ \E t \in timeoutQueue : t.id = m

\* At most one timer runs for a message, and none while the worker holds it: two timers
\* would double the traffic and halve the time until the connection is given up.
OneTimer ==
    /\ \A t, u \in timeoutQueue : t.id = u.id => t = u
    /\ \A t \in timeoutQueue : t.id # inHand

\* lostConnection is reported only after all transmissions, and then it is final: no
\* timer runs, the message is out of the map and out of the worker's hand.
LostIsFinal ==
    \A m \in lost :
        /\ MaxRetransReached(m)
        /\ m \notin timeoutConMsgMap
        /\ inHand # m
        /\ \A t \in timeoutQueue : t.id # m

\* The comment above timeoutConMsgMap: it contains all messages that are not confirmed
\* yet.  Every CON message sent is there or in the worker's hand until an answer or
\* lostConnection, unless a remote used its ID for a NON message.
UnconfirmedKept ==
    \A m \in Con \ CollidingIds :
        retransmissionCounter[m] > 0 => m \in timeoutConMsgMap \cup {inHand} \cup confirmed \cup lost

\* The worker never sleeps past a timeout: whatever select it is in ends no later than
\* the first timeout object expires.
NoOversleep == pc = "select" => \A t \in timeoutQueue : waitFor <= t.left

\* Once an answer has taken a message out of the map, and the worker was not holding it,
\* the message stays out and away from the worker, although its timer still runs: it is
\* neither sent again nor reported lost.
ConfirmedStaysQuiet ==
    [][\A m \in confirmed :
        m \notin timeoutConMsgMap /\ inHand # m =>
            /\ m \notin timeoutConMsgMap' /\ inHand' # m
            /\ retransmissionCounter'[m] = retransmissionCounter[m]
            /\ m \in lost' => m \in lost]_vars

-----------------------------------------------------------------------------
(* What makes the safety properties inductive.                             *)

Buffered(m) == \E i \in 1..Len(sendBuffer) : sendBuffer[i] = m

\* A CON message the worker has not met yet has left no trace in the worker's data.
NotYetMet(m) ==
    /\ retransmissionCounter[m] = 0
    /\ m \notin timeoutConMsgMap
    /\ inHand # m
    /\ \A t \in timeoutQueue : t.id # m

\* sendMessage is called once per message, and the worker has met none of the messages
\* that are unsent or buffered.
Fresh ==
    /\ \A i, j \in 1..Len(sendBuffer) : sendBuffer[i] = sendBuffer[j] => i = j
    /\ \A m \in unsent : ~Buffered(m)
    /\ \A m \in Con : m \in unsent \/ Buffered(m) => NotYetMet(m)

\* Only what was sent can be answered.
AnsweredWasSent ==
    /\ confirmed \subseteq reached
    /\ \A m \in Con \cap reached : retransmissionCounter[m] > 0

IInv == TypeOK /\ Scheduled /\ OneTimer /\ LostIsFinal /\ Fresh /\ AnsweredWasSent

-----------------------------------------------------------------------------
\* Every CON message handed to sendMessage, unless a remote uses its ID for a NON message, is
\* confirmed by its remote or reported lost.
EveryConResolved ==
    \A m \in Con \ CollidingIds : m \notin unsent ~> m \in confirmed \cup lost
=============================================================================
