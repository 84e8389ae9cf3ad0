---------------------- MODULE CoapRetransmissionProofs ----------------------
(***************************************************************************)
(* Proofs about CoapRetransmission, for any set of messages, any timeouts  *)
(* and any number of retransmissions.  IInv is the inductive invariant;    *)
(* each of its parts is preserved by every step of Next.                   *)
(***************************************************************************)
EXTENDS CoapRetransmission, SequenceTheorems, TLAPS

\* Sending a message keeps the types of the data it works on.
LEMMA SendTypes ==
  ASSUME TypeOK, NEW m \in Messages, SendUdpMsg(m)
  PROVE  /\ retransmissionCounter' \in [Con -> 0..MAX_RETRANSMIT]
         /\ timeout' \in [Con -> Nat]
         /\ timeoutConMsgMap' \subseteq Con
         /\ timeoutQueue' \subseteq [id : Con, left : Int]
         /\ reached' \subseteq Messages
         /\ lost' \subseteq Con
<1> USE DEF Messages
<1>0. /\ retransmissionCounter \in [Con -> 0..MAX_RETRANSMIT]
      /\ timeout \in [Con -> Nat]
      /\ timeoutConMsgMap \subseteq Con
      /\ timeoutQueue \subseteq [id : Con, left : Int]
      /\ reached \subseteq Messages
      /\ lost \subseteq Con
  BY DEF TypeOK
<1>1. CASE TransmitCon(m)
  <2>1. m \in Con /\ retransmissionCounter[m] + 1 \in 0..MAX_RETRANSMIT
    BY <1>0, <1>1, TimingAssumption DEF TransmitCon, MaxRetransReached
  <2>2. PICK r \in NextTimeouts(m) :
          /\ timeout' = [timeout EXCEPT ![m] = r]
          /\ timeoutQueue' = timeoutQueue \cup {[id |-> m, left |-> r]}
    BY <1>1 DEF TransmitCon
  <2>3. r \in Nat
    BY <1>0, <2>1, TimingAssumption DEF NextTimeouts
  <2>4. timeoutQueue' \subseteq [id : Con, left : Int] /\ timeout' \in [Con -> Nat]
    BY <1>0, <2>1, <2>2, <2>3
  <2>5. retransmissionCounter' \in [Con -> 0..MAX_RETRANSMIT]
    BY <1>0, <1>1, <2>1 DEF TransmitCon
  <2> QED
    BY <1>0, <1>1, <2>1, <2>4, <2>5 DEF TransmitCon, DatagramSent
<1>2. CASE GiveUp(m)
  BY <1>0, <1>2 DEF GiveUp
<1>3. CASE TransmitNon(m)
  BY <1>0, <1>3 DEF TransmitNon, DatagramSent
<1> QED
  BY <1>1, <1>2, <1>3 DEF SendUdpMsg

LEMMA TypeStep == TypeOK /\ [Next]_vars => TypeOK'
<1> SUFFICES ASSUME TypeOK, [Next]_vars PROVE TypeOK'
  OBVIOUS
<1>1. CASE Drain
  <2>1. Head(sendBuffer) \in Messages /\ Tail(sendBuffer) \in Seq(Messages)
    BY <1>1, HeadTailProperties DEF Drain, TypeOK
  <2>2. SendUdpMsg(Head(sendBuffer))
    BY <1>1 DEF Drain
  <2> QED
    BY <1>1, <2>1, <2>2, SendTypes DEF Drain, TypeOK
<1>2. CASE Drained \/ SelectReturns \/ DatagramArrives
  BY <1>2 DEF Drained, SelectReturns, DatagramArrives, TypeOK, conVars
<1>3. CASE PollTimeout
  BY <1>3, MessagesAssumption DEF PollTimeout, TypeOK
<1>4. CASE Retransmit
  <2>1. inHand \in Con /\ inHand \in Messages
    BY <1>4 DEF Retransmit, TypeOK, Messages
  <2>2. SendUdpMsg(inHand)
    BY <1>4 DEF Retransmit
  <2> QED
    BY <1>4, <2>1, <2>2, SendTypes DEF Retransmit, TypeOK
<1>5. CASE EnterSelect
  BY <1>5, TimingAssumption DEF EnterSelect, TypeOK, conVars, IsHead
<1>6. ASSUME NEW m \in Messages, SendMessage(m) PROVE TypeOK'
  BY <1>6 DEF SendMessage, TypeOK, conVars
<1>7. ASSUME NEW m \in Con, Confirm(m) \/ ConfirmByCollision(m) PROVE TypeOK'
  BY <1>7 DEF Confirm, ConfirmByCollision, TypeOK
<1>8. CASE Tick
  <2>1. timeoutQueue' \subseteq [id : Con, left : Int]
    <3> SUFFICES ASSUME NEW t \in timeoutQueue
                 PROVE  [t EXCEPT !.left = @ - 1] \in [id : Con, left : Int]
      BY <1>8 DEF Tick
    <3>1. t \in [id : Con, left : Int]
      BY DEF TypeOK
    <3> QED
      BY <3>1
  <2>2. waitFor' \in Int
    BY <1>8 DEF Tick, TypeOK
  <2> QED
    BY <1>8, <2>1, <2>2 DEF Tick, TypeOK
<1>9. CASE UNCHANGED vars
  BY <1>9 DEF vars, TypeOK
<1> QED
  BY <1>1, <1>2, <1>3, <1>4, <1>5, <1>6, <1>7, <1>8, <1>9 DEF Next, Worker

\* Every variable of the retransmission keeps its type, and the worker holds a message
\* exactly while it is about to retransmit it.
THEOREM TypeCorrect == Spec => []TypeOK
<1>1. Init => TypeOK
  <2>1. Init => sendBuffer \in Seq(Messages)
    BY EmptySeq DEF Init
  <2>2. Init => wakeup \in BOOLEAN
    BY DEF Init
  <2>3. Init => /\ retransmissionCounter \in [Con -> 0..MAX_RETRANSMIT]
                /\ timeout \in [Con -> Nat]
                /\ waitFor \in Int
    BY TimingAssumption DEF Init
  <2>4. Init => /\ unsent \subseteq Messages
                /\ timeoutConMsgMap \subseteq Con
                /\ timeoutQueue \subseteq [id : Con, left : Int]
                /\ pc \in {"drain", "timeouts", "retransmit", "select"}
                /\ inHand \in Con \cup {None}
                /\ (pc = "retransmit") <=> (inHand # None)
                /\ reached \subseteq Messages
                /\ confirmed \subseteq Con
                /\ lost \subseteq Con
    BY DEF Init
  <2> QED
    BY <2>1, <2>2, <2>3, <2>4 DEF TypeOK
<1> QED
  BY <1>1, TypeStep, PTL DEF Spec

-----------------------------------------------------------------------------
\* What the steps of Next do to the messages that wait in sendBuffer.
LEMMA BufferSteps ==
  ASSUME TypeOK, Fresh
  PROVE  /\ Drain => /\ Head(sendBuffer) \in Messages
                     /\ Buffered(Head(sendBuffer))
                     /\ \A i, j \in 1..Len(sendBuffer)' :
                           sendBuffer'[i] = sendBuffer'[j] => i = j
                     /\ \A m : Buffered(m)' => Buffered(m) /\ m # Head(sendBuffer)
         /\ \A m \in Messages :
              SendMessage(m) => /\ \A i, j \in 1..Len(sendBuffer)' :
                                     sendBuffer'[i] = sendBuffer'[j] => i = j
                                /\ \A k : Buffered(k)' => Buffered(k) \/ k = m
<1>0. sendBuffer \in Seq(Messages) /\ Len(sendBuffer) \in Nat
  BY DEF TypeOK
<1>1. ASSUME Drain
      PROVE  /\ Head(sendBuffer) \in Messages
             /\ Buffered(Head(sendBuffer))
             /\ \A i, j \in 1..Len(sendBuffer)' : sendBuffer'[i] = sendBuffer'[j] => i = j
             /\ \A m : Buffered(m)' => Buffered(m) /\ m # Head(sendBuffer)
  <2>1. /\ sendBuffer # <<>> /\ sendBuffer' = Tail(sendBuffer)
        /\ Len(sendBuffer) >= 1 /\ Head(sendBuffer) = sendBuffer[1]
    BY <1>0, <1>1, EmptySeq DEF Drain
  <2>2. /\ Head(sendBuffer) \in Messages
        /\ Len(sendBuffer)' = Len(sendBuffer) - 1
        /\ \A i \in 1..Len(sendBuffer)' : sendBuffer'[i] = sendBuffer[i + 1]
    BY <1>0, <2>1, HeadTailProperties
  <2>3. \A i \in 1..Len(sendBuffer)' : i + 1 \in 1..Len(sendBuffer) /\ i + 1 # 1
    BY <1>0, <2>2
  <2>4. \A i, j \in 1..Len(sendBuffer) : sendBuffer[i] = sendBuffer[j] => i = j
    BY DEF Fresh
  <2> QED
    BY <1>0, <2>1, <2>2, <2>3, <2>4 DEF Buffered
<1>2. ASSUME NEW m \in Messages, SendMessage(m)
      PROVE  /\ \A i, j \in 1..Len(sendBuffer)' : sendBuffer'[i] = sendBuffer'[j] => i = j
             /\ \A k : Buffered(k)' => Buffered(k) \/ k = m
  <2>1. /\ Len(sendBuffer)' = Len(sendBuffer) + 1
        /\ \A i \in 1..Len(sendBuffer) : sendBuffer'[i] = sendBuffer[i]
        /\ sendBuffer'[Len(sendBuffer) + 1] = m
    BY <1>0, <1>2, AppendProperties DEF SendMessage
  <2>2. \A i \in 1..Len(sendBuffer) : sendBuffer[i] # m
    BY <1>2 DEF SendMessage, Fresh, Buffered
  <2>3. \A i, j \in 1..Len(sendBuffer) : sendBuffer[i] = sendBuffer[j] => i = j
    BY DEF Fresh
  <2> QED
    BY <1>0, <2>1, <2>2, <2>3 DEF Buffered
<1> QED
  BY <1>1, <1>2

\* Sending message m leaves the worker's data about every other message alone, and the
\* worker's hand is not looked at.
LEMMA SendTouchesOne ==
  ASSUME TypeOK, NEW m \in Messages, SendUdpMsg(m), NEW k \in Con, k # m
  PROVE  /\ retransmissionCounter'[k] = retransmissionCounter[k]
         /\ k \in timeoutConMsgMap' <=> k \in timeoutConMsgMap
         /\ \A t : t.id = k => (t \in timeoutQueue' <=> t \in timeoutQueue)
         /\ k \in lost' <=> k \in lost
         /\ k \in reached' <=> k \in reached
<1>1. CASE TransmitCon(m)
  BY <1>1 DEF TransmitCon, DatagramSent, TypeOK
<1>2. CASE GiveUp(m) \/ TransmitNon(m)
  BY <1>2 DEF GiveUp, TransmitNon, DatagramSent
<1> QED
  BY <1>1, <1>2 DEF SendUdpMsg

-----------------------------------------------------------------------------
\* A message that is unsent or buffered has left no trace: only Drain makes the worker
\* meet a new message, and it takes it out of the buffer.
LEMMA FreshStep == TypeOK /\ Fresh /\ [Next]_vars => Fresh'
<1> SUFFICES ASSUME TypeOK, Fresh, [Next]_vars PROVE Fresh'
  OBVIOUS
<1>1. CASE Drain
  <2> DEFINE h == Head(sendBuffer)
  <2>1. /\ h \in Messages /\ SendUdpMsg(h) /\ unsent' = unsent /\ inHand' = inHand
        /\ \A i, j \in 1..Len(sendBuffer)' : sendBuffer'[i] = sendBuffer'[j] => i = j
        /\ \A m : Buffered(m)' => Buffered(m) /\ m # h
        /\ Buffered(h)
    BY <1>1, BufferSteps DEF Drain
  <2>2. \A m \in unsent : m # h
    BY <2>1 DEF Fresh
  <2>3. ASSUME NEW m \in Con, m \in unsent' \/ Buffered(m)' PROVE NotYetMet(m)'
    <3>1. m # h /\ NotYetMet(m)
      BY <2>1, <2>2, <2>3 DEF Fresh
    <3> QED
      BY <2>1, <3>1, SendTouchesOne DEF NotYetMet
  <2> QED
    BY <2>1, <2>3 DEF Fresh
<1>2. CASE PollTimeout
  \* The polled timer belongs to a message already met, and so does the hand.
  <2>1. ASSUME NEW m \in Con, NotYetMet(m) PROVE NotYetMet(m)'
    BY <1>2, <2>1 DEF PollTimeout, NotYetMet
  <2> QED
    BY <1>2, <2>1 DEF PollTimeout, Fresh, Buffered
<1>3. CASE Retransmit
  <2>1. inHand \in Con /\ inHand \in Messages /\ SendUdpMsg(inHand)
    BY <1>3 DEF Retransmit, TypeOK, Messages
  <2>2. ASSUME NEW m \in Con, NotYetMet(m) PROVE NotYetMet(m)'
    <3>1. m # inHand /\ inHand' = None /\ m # None
      BY <1>3, <2>2, MessagesAssumption DEF NotYetMet, Retransmit
    <3> QED
      BY <2>1, <2>2, <3>1, SendTouchesOne DEF NotYetMet
  <2> QED
    BY <1>3, <2>2 DEF Retransmit, Fresh, Buffered
<1>4. ASSUME NEW m \in Messages, SendMessage(m) PROVE Fresh'
  <2>1. /\ m \in unsent /\ unsent' = unsent \ {m}
        /\ \A i, j \in 1..Len(sendBuffer)' : sendBuffer'[i] = sendBuffer'[j] => i = j
        /\ \A k : Buffered(k)' => Buffered(k) \/ k = m
    BY <1>4, BufferSteps DEF SendMessage
  <2>2. \A k \in Con : NotYetMet(k) => NotYetMet(k)'
    BY <1>4 DEF SendMessage, NotYetMet, conVars
  <2> QED
    BY <2>1, <2>2 DEF Fresh
<1>5. ASSUME NEW m \in Con, Confirm(m) \/ ConfirmByCollision(m) PROVE Fresh'
  <2>1. \A k \in Con : NotYetMet(k) => NotYetMet(k)'
    BY <1>5 DEF Confirm, ConfirmByCollision, NotYetMet
  <2> QED
    BY <1>5, <2>1 DEF Confirm, ConfirmByCollision, Fresh, Buffered
<1>6. CASE Tick
  <2>1. \A k \in Con : NotYetMet(k) => NotYetMet(k)'
    <3>1. \A t \in timeoutQueue : [t EXCEPT !.left = @ - 1].id = t.id
      BY DEF TypeOK
    <3> QED
      BY <1>6, <3>1 DEF Tick, NotYetMet
  <2> QED
    BY <1>6, <2>1 DEF Tick, Fresh, Buffered
<1>7. CASE Drained \/ EnterSelect \/ SelectReturns \/ DatagramArrives \/ UNCHANGED vars
  BY <1>7 DEF Drained, EnterSelect, SelectReturns, DatagramArrives, vars, conVars, Fresh,
              Buffered, NotYetMet
<1> QED
  BY <1>1, <1>2, <1>3, <1>4, <1>5, <1>6, <1>7 DEF Next, Worker

\* Nothing reaches a remote before its first transmission is counted.
LEMMA AnsweredStep == TypeOK /\ AnsweredWasSent /\ [Next]_vars => AnsweredWasSent'
<1> SUFFICES ASSUME TypeOK, AnsweredWasSent, [Next]_vars PROVE AnsweredWasSent'
  OBVIOUS
<1>1. ASSUME NEW m \in Messages, SendUdpMsg(m), UNCHANGED confirmed PROVE AnsweredWasSent'
  <2>1. confirmed' \subseteq reached'
    BY <1>1 DEF SendUdpMsg, TransmitCon, GiveUp, TransmitNon, DatagramSent, AnsweredWasSent
  <2>2. ASSUME NEW k \in Con \cap reached' PROVE retransmissionCounter'[k] > 0
    <3>1. CASE k # m
      BY <1>1, <2>2, <3>1, SendTouchesOne DEF AnsweredWasSent
    <3>2. CASE k = m
      <4>1. retransmissionCounter[k] \in Nat /\ retransmissionCounter \in [Con -> 0..MAX_RETRANSMIT]
        BY TimingAssumption DEF TypeOK
      <4>2. CASE TransmitCon(m)
        BY <2>2, <3>2, <4>1, <4>2 DEF TransmitCon
      <4>3. CASE GiveUp(m)
        BY <2>2, <3>2, <4>3 DEF GiveUp, AnsweredWasSent
      <4>4. CASE TransmitNon(m)
        BY <2>2, <3>2, <4>4, MessagesAssumption DEF TransmitNon
      <4> QED
        BY <1>1, <4>2, <4>3, <4>4 DEF SendUdpMsg
    <3> QED
      BY <3>1, <3>2
  <2> QED
    BY <2>1, <2>2 DEF AnsweredWasSent
<1>2. CASE Drain
  BY <1>1, <1>2, HeadTailProperties DEF Drain, TypeOK
<1>3. CASE Retransmit
  BY <1>1, <1>3 DEF Retransmit, TypeOK, Messages
<1>4. ASSUME NEW m \in Con, Confirm(m) PROVE AnsweredWasSent'
  BY <1>4 DEF Confirm, AnsweredWasSent
<1>5. CASE UNCHANGED <<retransmissionCounter, reached, confirmed>>
  BY <1>5 DEF AnsweredWasSent
<1> QED
  BY <1>2, <1>3, <1>4, <1>5
  DEF Next, Worker, vars, conVars, Drained, PollTimeout, EnterSelect, SelectReturns,
      SendMessage, ConfirmByCollision, DatagramArrives, Tick

-----------------------------------------------------------------------------
\* A message enters the map only together with a timer, and a polled timer leaves its
\* message in the worker's hand.
LEMMA ScheduledStep == TypeOK /\ Scheduled /\ [Next]_vars => Scheduled'
<1> SUFFICES ASSUME TypeOK, Scheduled, [Next]_vars, NEW m \in timeoutConMsgMap'
             PROVE  inHand' = m \/ \E t \in timeoutQueue' : t.id = m
  BY DEF Scheduled
<1>0. m \in Con
  BY TypeStep DEF TypeOK
<1>1. ASSUME NEW k \in Messages, SendUdpMsg(k), inHand \in {k, None}
      PROVE  \E t \in timeoutQueue' : t.id = m
  <2>1. CASE k = m
    <3>1. TransmitCon(k)
      BY <1>0, <1>1, <2>1, MessagesAssumption DEF SendUdpMsg, GiveUp, TransmitNon
    <3>2. PICK r \in NextTimeouts(k) : [id |-> k, left |-> r] \in timeoutQueue'
      BY <3>1 DEF TransmitCon
    <3> QED
      BY <2>1, <3>2
  <2>2. CASE k # m
    <3>1. m \in timeoutConMsgMap /\ inHand # m
      BY <1>0, <1>1, <2>2, SendTouchesOne, MessagesAssumption
    <3>2. PICK t \in timeoutQueue : t.id = m
      BY <3>1 DEF Scheduled
    <3>3. t \in timeoutQueue'
      BY <1>0, <1>1, <2>2, <3>2, SendTouchesOne
    <3> QED
      BY <3>2, <3>3
  <2> QED
    BY <2>1, <2>2
<1>2. CASE Drain
  <2>1. Head(sendBuffer) \in Messages /\ inHand = None
    BY <1>2, HeadTailProperties DEF Drain, TypeOK
  <2> QED
    BY <1>1, <1>2, <2>1 DEF Drain
<1>3. CASE Retransmit
  <2>1. inHand \in Messages
    BY <1>3 DEF Retransmit, TypeOK, Messages
  <2> QED
    BY <1>1, <1>3, <2>1 DEF Retransmit
<1>4. CASE PollTimeout
  <2>1. PICK t \in timeoutQueue :
          /\ timeoutQueue' = timeoutQueue \ {t}
          /\ IF t.id \in timeoutConMsgMap
             THEN inHand' = t.id /\ pc' = "retransmit"
             ELSE UNCHANGED <<inHand, pc>>
    BY <1>4 DEF PollTimeout
  <2>2. m \in timeoutConMsgMap /\ inHand = None
    BY <1>4 DEF PollTimeout, TypeOK
  <2>3. PICK u \in timeoutQueue : u.id = m
    BY <1>0, <2>2, MessagesAssumption DEF Scheduled
  <2> QED
    BY <2>1, <2>2, <2>3
<1>5. CASE Tick
  <2>1. \A t \in timeoutQueue : [t EXCEPT !.left = @ - 1].id = t.id
    BY DEF TypeOK
  <2> QED
    BY <1>5, <2>1 DEF Tick, Scheduled
<1>6. ASSUME timeoutConMsgMap' \subseteq timeoutConMsgMap, UNCHANGED <<inHand, timeoutQueue>>
      PROVE  inHand' = m \/ \E t \in timeoutQueue' : t.id = m
  BY <1>6 DEF Scheduled
<1> QED
  BY <1>2, <1>3, <1>4, <1>5, <1>6
  DEF Next, Worker, vars, conVars, Drained, EnterSelect, SelectReturns, SendMessage,
      Confirm, ConfirmByCollision, DatagramArrives

\* A timer is queued only for a message without one: a fresh message, or the one in the
\* worker's hand, whose timer was polled.
LEMMA OneTimerStep == TypeOK /\ Fresh /\ OneTimer /\ [Next]_vars => OneTimer'
<1> SUFFICES ASSUME TypeOK, Fresh, OneTimer, [Next]_vars PROVE OneTimer'
  OBVIOUS
<1>1. ASSUME NEW k \in Messages, SendUdpMsg(k), inHand' = None,
             \A t \in timeoutQueue : t.id # k
      PROVE  OneTimer'
  <2>1. CASE TransmitCon(k)
    <3>1. PICK r \in NextTimeouts(k) :
            timeoutQueue' = timeoutQueue \cup {[id |-> k, left |-> r]}
      BY <2>1 DEF TransmitCon
    <3>2. k # None /\ \A t \in timeoutQueue : t.id # None
      BY MessagesAssumption DEF Messages, TypeOK
    <3> QED
      BY <1>1, <3>1, <3>2 DEF OneTimer
  <2>2. CASE GiveUp(k) \/ TransmitNon(k)
    <3>1. timeoutQueue' = timeoutQueue /\ \A t \in timeoutQueue : t.id # None
      BY <2>2, MessagesAssumption DEF GiveUp, TransmitNon, TypeOK
    <3> QED
      BY <1>1, <3>1 DEF OneTimer
  <2> QED
    BY <1>1, <2>1, <2>2 DEF SendUdpMsg
<1>2. CASE Drain
  <2> DEFINE h == Head(sendBuffer)
  <2>1. h \in Messages /\ Buffered(h) /\ SendUdpMsg(h) /\ inHand' = None
    BY <1>2, BufferSteps DEF Drain, TypeOK
  <2>2. \A t \in timeoutQueue : t.id # h
    BY <2>1 DEF Fresh, NotYetMet, TypeOK
  <2> QED
    BY <1>1, <2>1, <2>2
<1>3. CASE Retransmit
  <2>1. inHand \in Messages /\ SendUdpMsg(inHand) /\ inHand' = None
    BY <1>3 DEF Retransmit, TypeOK, Messages
  <2> QED
    BY <1>1, <2>1 DEF OneTimer
<1>4. CASE PollTimeout
  BY <1>4 DEF PollTimeout, OneTimer
<1>5. CASE Tick
  <2>1. \A t \in timeoutQueue : [t EXCEPT !.left = @ - 1].id = t.id
    BY DEF TypeOK
  <2> QED
    <3>1. inHand' = inHand /\ \A t \in timeoutQueue' :
             \E u \in timeoutQueue : t = [u EXCEPT !.left = @ - 1] /\ t.id = u.id
      BY <1>5, <2>1 DEF Tick
    <3>2. ASSUME NEW t \in timeoutQueue', NEW u \in timeoutQueue', t.id = u.id PROVE t = u
      <4>1. PICK t0 \in timeoutQueue : t = [t0 EXCEPT !.left = @ - 1] /\ t.id = t0.id
        BY <3>1
      <4>2. PICK u0 \in timeoutQueue : u = [u0 EXCEPT !.left = @ - 1] /\ u.id = u0.id
        BY <3>1
      <4>3. t0 = u0
        BY <3>2, <4>1, <4>2 DEF OneTimer
      <4> QED
        BY <4>1, <4>2, <4>3
    <3> QED
      BY <3>1, <3>2 DEF OneTimer
<1>6. CASE UNCHANGED <<inHand, timeoutQueue>>
  BY <1>6 DEF OneTimer
<1> QED
  BY <1>2, <1>3, <1>4, <1>5, <1>6
  DEF Next, Worker, vars, conVars, Drained, EnterSelect, SelectReturns, SendMessage,
      Confirm, ConfirmByCollision, DatagramArrives

\* The message given up is the one in the worker's hand, which has no timer; and a lost
\* message has no transmission left, so no later step can queue or map it again.
LEMMA LostStep == TypeOK /\ Fresh /\ OneTimer /\ LostIsFinal /\ [Next]_vars => LostIsFinal'
<1> SUFFICES ASSUME TypeOK, Fresh, OneTimer, LostIsFinal, [Next]_vars, NEW m \in lost'
             PROVE  /\ MaxRetransReached(m)'
                    /\ m \notin timeoutConMsgMap'
                    /\ inHand' # m
                    /\ \A t \in timeoutQueue' : t.id # m
  BY DEF LostIsFinal
<1> DEFINE Done == /\ MaxRetransReached(m)
                   /\ m \notin timeoutConMsgMap
                   /\ inHand # m
                   /\ \A t \in timeoutQueue : t.id # m
<1>0. m \in Con /\ m # None
  BY TypeStep, MessagesAssumption DEF TypeOK
<1>1. m \in lost => Done
  BY DEF LostIsFinal
<1>2. ASSUME NEW k \in Messages, SendUdpMsg(k), inHand' = None,
             \A t \in timeoutQueue : t.id # k
      PROVE  Done'
  <2>1. CASE k # m
    BY <1>0, <1>1, <1>2, <2>1, SendTouchesOne DEF MaxRetransReached
  <2>2. CASE k = m
    <3>1. GiveUp(k)
      BY <1>0, <1>1, <1>2, <2>2, MessagesAssumption
      DEF SendUdpMsg, TransmitCon, TransmitNon
    <3> QED
      BY <1>0, <1>2, <2>2, <3>1 DEF GiveUp, MaxRetransReached
  <2> QED
    BY <2>1, <2>2
<1>3. CASE Drain
  <2> DEFINE h == Head(sendBuffer)
  <2>1. h \in Messages /\ Buffered(h) /\ SendUdpMsg(h) /\ inHand' = None
    BY <1>3, BufferSteps DEF Drain, TypeOK
  <2>2. \A t \in timeoutQueue : t.id # h
    BY <2>1 DEF Fresh, NotYetMet, TypeOK
  <2> QED
    BY <1>2, <2>1, <2>2
<1>4. CASE Retransmit
  <2>1. inHand \in Messages /\ SendUdpMsg(inHand) /\ inHand' = None
    BY <1>4 DEF Retransmit, TypeOK, Messages
  <2> QED
    BY <1>2, <2>1 DEF OneTimer
<1>5. CASE PollTimeout
  BY <1>1, <1>5 DEF PollTimeout, MaxRetransReached
<1>6. CASE Tick
  <2>1. \A t \in timeoutQueue : [t EXCEPT !.left = @ - 1].id = t.id
    BY DEF TypeOK
  <2> QED
    BY <1>1, <1>6, <2>1 DEF Tick, MaxRetransReached
<1>7. ASSUME timeoutConMsgMap' \subseteq timeoutConMsgMap,
             UNCHANGED <<retransmissionCounter, inHand, timeoutQueue, lost>>
      PROVE  Done'
  BY <1>1, <1>7 DEF MaxRetransReached
<1> QED
  BY <1>3, <1>4, <1>5, <1>6, <1>7
  DEF Next, Worker, vars, conVars, Drained, EnterSelect, SelectReturns, SendMessage,
      Confirm, ConfirmByCollision, DatagramArrives

\* IInv holds of every behaviour.
THEOREM Invariance == Spec => []IInv
<1>1. Init => Scheduled /\ OneTimer /\ LostIsFinal /\ Fresh /\ AnsweredWasSent
  <2>1. Init => Len(sendBuffer) = 0
    BY EmptySeq DEF Init
  <2>2. Init => \A m : ~Buffered(m)
    BY <2>1 DEF Buffered
  <2>3. Init => Fresh
    BY <2>1, <2>2, MessagesAssumption DEF Init, Fresh, NotYetMet
  <2> QED
    BY <2>3 DEF Init, Scheduled, OneTimer, LostIsFinal, AnsweredWasSent
<1>2. TypeOK /\ IInv /\ [Next]_vars => IInv'
  BY TypeStep, ScheduledStep, OneTimerStep, LostStep, FreshStep, AnsweredStep DEF IInv
<1>3. TypeOK /\ Init => IInv
  BY <1>1 DEF IInv
<1> QED
  BY <1>2, <1>3, TypeCorrect, PTL DEF Spec

\* A CON message that waits for an answer is never forgotten: a timer runs for it or the
\* worker is about to send it.
THEOREM AlwaysScheduled == Spec => []Scheduled
BY Invariance, PTL DEF IInv

\* No message ever has two timers, whatever handler threads confirm in the meantime.
THEOREM NeverTwoTimers == Spec => []OneTimer
BY Invariance, PTL DEF IInv

\* lostConnection comes after the last transmission and ends the life of the message.
THEOREM LossIsFinal == Spec => []LostIsFinal
BY Invariance, PTL DEF IInv

\* For an ID that is unique across host and remotes, as the comment on timeoutConMsgMap
\* assumes of all, the map and the worker's hand hold the CON message while it is open.
THEOREM NoneForgotten == Spec => []UnconfirmedKept
<1>1. Init => UnconfirmedKept
  BY DEF Init, UnconfirmedKept
<1>2. TypeOK /\ UnconfirmedKept /\ [Next]_vars => UnconfirmedKept'
  <2> SUFFICES ASSUME TypeOK, UnconfirmedKept, [Next]_vars,
                      NEW m \in Con \ CollidingIds, retransmissionCounter'[m] > 0
               PROVE  m \in (timeoutConMsgMap \cup {inHand} \cup confirmed \cup lost)'
    BY DEF UnconfirmedKept
  <2>0. m # None
    BY MessagesAssumption
  <2>1. ASSUME NEW k \in Messages, SendUdpMsg(k), inHand \in {k, None}, UNCHANGED confirmed
        PROVE  m \in (timeoutConMsgMap \cup confirmed \cup lost)'
    <3>1. CASE k # m
      BY <2>0, <2>1, <3>1, SendTouchesOne DEF UnconfirmedKept
    <3>2. CASE k = m
      BY <2>1, <3>2, MessagesAssumption DEF SendUdpMsg, TransmitCon, GiveUp, TransmitNon
    <3> QED
      BY <3>1, <3>2
  <2>2. CASE Drain
    BY <2>1, <2>2, HeadTailProperties DEF Drain, TypeOK
  <2>3. CASE Retransmit
    BY <2>1, <2>3 DEF Retransmit, TypeOK, Messages
  <2>4. CASE PollTimeout
    BY <2>0, <2>4 DEF PollTimeout, UnconfirmedKept, TypeOK
  <2>5. ASSUME NEW k \in Con, Confirm(k)
        PROVE  m \in (timeoutConMsgMap \cup {inHand} \cup confirmed \cup lost)'
    BY <2>5 DEF Confirm, UnconfirmedKept
  <2>6. ASSUME NEW k \in Con, ConfirmByCollision(k)
        PROVE  m \in (timeoutConMsgMap \cup {inHand} \cup confirmed \cup lost)'
    BY <2>6 DEF ConfirmByCollision, UnconfirmedKept
  <2>7. CASE UNCHANGED <<retransmissionCounter, timeoutConMsgMap, inHand, confirmed, lost>>
    BY <2>7 DEF UnconfirmedKept
  <2> QED
    BY <2>2, <2>3, <2>4, <2>5, <2>6, <2>7
    DEF Next, Worker, vars, conVars, Drained, EnterSelect, SelectReturns, SendMessage,
        DatagramArrives, Tick
<1> QED
  BY <1>1, <1>2, TypeCorrect, PTL DEF Spec

\* Once an answer has taken a message out of the map while the worker was not holding it,
\* the worker never sends it again and never reports it lost.
THEOREM ConfirmationIsQuiet == Spec => ConfirmedStaysQuiet
<1> DEFINE Quiet(m) ==
      m \notin timeoutConMsgMap /\ inHand # m =>
          /\ m \notin timeoutConMsgMap' /\ inHand' # m
          /\ retransmissionCounter'[m] = retransmissionCounter[m]
          /\ m \in lost' => m \in lost
<1>1. ASSUME IInv, Next, NEW m \in confirmed, m \notin timeoutConMsgMap, inHand # m
      PROVE  /\ m \notin timeoutConMsgMap' /\ inHand' # m
             /\ retransmissionCounter'[m] = retransmissionCounter[m]
             /\ m \in lost' => m \in lost
  <2>0. TypeOK /\ m \in Con /\ m # None
    BY <1>1, MessagesAssumption DEF IInv, TypeOK
  <2>1. CASE Drain
    \* What leaves the buffer has never been sent, so it cannot have been answered.
    <3>1. retransmissionCounter[m] > 0
      BY <1>1, <2>0 DEF IInv, AnsweredWasSent
    <3>2. /\ Head(sendBuffer) \in Messages /\ SendUdpMsg(Head(sendBuffer))
          /\ Buffered(Head(sendBuffer))
      BY <1>1, <2>1, BufferSteps DEF Drain, IInv
    <3>3. m # Head(sendBuffer)
      BY <1>1, <2>0, <3>1, <3>2 DEF IInv, Fresh, NotYetMet
    <3>4. inHand' = inHand
      BY <2>1 DEF Drain
    <3> QED
      BY <1>1, <2>0, <3>2, <3>3, <3>4, SendTouchesOne
  <2>2. CASE Retransmit
    <3>1. inHand \in Messages /\ SendUdpMsg(inHand) /\ inHand' = None
      BY <2>0, <2>2 DEF Retransmit, TypeOK, Messages
    <3> QED
      BY <1>1, <2>0, <3>1, SendTouchesOne
  <2>3. CASE PollTimeout
    \* What the worker takes in hand it has just found in the map.
    BY <1>1, <2>3 DEF PollTimeout
  <2>4. CASE /\ UNCHANGED <<retransmissionCounter, lost, inHand>>
             /\ timeoutConMsgMap' \subseteq timeoutConMsgMap
    BY <1>1, <2>4
  <2> QED
    BY <1>1, <2>1, <2>2, <2>3, <2>4
    DEF Next, Worker, conVars, Drained, EnterSelect, SelectReturns,
        SendMessage, Confirm, ConfirmByCollision, DatagramArrives, Tick
<1>2. IInv /\ [Next]_vars => [\A m \in confirmed : Quiet(m)]_vars
  BY <1>1
<1>3. Spec => [][\A m \in confirmed : Quiet(m)]_vars
  BY <1>2, Invariance, PTL DEF Spec
<1> QED
  BY <1>3 DEF ConfirmedStaysQuiet

\* Whatever select the worker sleeps in ends no later than the first timeout.
THEOREM NeverOversleeps == Spec => []NoOversleep
<1>1. Init => NoOversleep
  BY DEF Init, NoOversleep
<1>2. TypeOK /\ NoOversleep /\ [Next]_vars => NoOversleep'
  <2> SUFFICES ASSUME TypeOK, NoOversleep, [Next]_vars, pc' = "select",
                      NEW t \in timeoutQueue'
               PROVE  waitFor' <= t.left
    BY DEF NoOversleep
  <2>1. CASE EnterSelect
    <3>1. t \in timeoutQueue
      BY <2>1 DEF EnterSelect, conVars
    <3>2. PICK u \in timeoutQueue : IsHead(u) /\ waitFor' = u.left
      BY <2>1, <3>1 DEF EnterSelect
    <3> QED
      BY <3>1, <3>2 DEF IsHead
  <2>2. CASE Tick
    <3>1. pc = "select" /\ waitFor' = waitFor - 1
      BY <2>2 DEF Tick
    <3>2. PICK u \in timeoutQueue : t = [u EXCEPT !.left = @ - 1]
      BY <2>2 DEF Tick
    <3>3. waitFor <= u.left /\ u \in [id : Con, left : Int] /\ waitFor \in Int
      BY <3>1 DEF NoOversleep, TypeOK
    <3>4. t.left = u.left - 1
      BY <3>2, <3>3
    <3> QED
      BY <3>1, <3>3, <3>4
  <2>3. CASE UNCHANGED <<pc, waitFor, timeoutQueue>>
    BY <2>3 DEF NoOversleep
  <2> QED
    BY <2>1, <2>2, <2>3
    DEF Next, Worker, vars, conVars, Drain, Drained, PollTimeout, Retransmit, SelectReturns,
        SendMessage, Confirm, ConfirmByCollision, DatagramArrives
<1> QED
  BY <1>1, <1>2, TypeCorrect, PTL DEF Spec
=============================================================================
