----------------------- MODULE CoapSocketHandlerProofs -----------------------
(***************************************************************************)
(* Proofs about the two halves of the socket handler, for any number of    *)
(* threads, messages, datagrams, peers and handlers.  CoapSendBuffer: no   *)
(* worker sleeps on a buffered message, nothing is lost or overtaken while *)
(* the channel is open, and the handler implements Outbox.  CoapReceive: a *)
(* request runs on a channel of its peer, a handler parses its own         *)
(* datagram unless the next one overtakes it, only answers confirm.        *)
(***************************************************************************)
EXTENDS CoapSendBuffer, CoapReceive, FiniteSetTheorems, SequenceTheorems, TLAPS

-----------------------------------------------------------------------------
(* CoapSendBuffer. *)

\* SendTypeOK holds of every behaviour: the worker never carries a polled message out of
\* sendBufferedMessages.
THEOREM SendTypeCorrect == SendSpec => []SendTypeOK
<1>1. SendInit => SendTypeOK
  <2>1. <<>> \in Seq(Messages) /\ Len(<<>>) = 0
    BY EmptySeq
  <2>2. SendInit => wakeup \in BOOLEAN /\ readable \in BOOLEAN
    BY DEF SendInit
  <2>3. SendInit => /\ unsent \subseteq Messages
                    /\ sendBuffer \in Seq(Messages)
                    /\ owner \in Threads \cup {NoThread}
                    /\ dgramChannel \in {"open", "closed", "null"}
                    /\ workerAt \in {"loop", "drain", "receive", "timeouts", "select", "exited", "died"}
                    /\ hand \in Seq(Messages) /\ Len(hand) <= 1
                    /\ hand # <<>> => workerAt = "drain"
                    /\ added \in Seq(Messages)
                    /\ sent \in Seq(Messages)
    BY <2>1 DEF SendInit
  <2> QED
    BY <2>2, <2>3 DEF SendTypeOK
<1>2. SendTypeOK /\ [SendNext]_sendVars => SendTypeOK'
  <2> SUFFICES ASSUME SendTypeOK, [SendNext]_sendVars PROVE SendTypeOK'
    OBVIOUS
  <2> USE DEF SendTypeOK
  <2>1. ASSUME NEW t \in Threads, NEW m \in Messages, AddMessage(t, m) PROVE SendTypeOK'
    BY <2>1 DEF AddMessage
  <2>2. ASSUME NEW t \in Threads, WakeupSelector(t) PROVE SendTypeOK'
    BY <2>2 DEF WakeupSelector
  <2>3. CASE CloseSocket \/ ForgetChannel
    BY <2>3 DEF CloseSocket, ForgetChannel
  <2>4. CASE DatagramArrives
    BY <2>4 DEF DatagramArrives
  <2>5. CASE LoopHead
    BY <2>5 DEF LoopHead
  <2>6. CASE Poll
    <3>1. CASE sendBuffer = <<>>
      BY <2>6, <3>1 DEF Poll
    <3>2. CASE sendBuffer # <<>>
      <4>1. Head(sendBuffer) \in Messages /\ Tail(sendBuffer) \in Seq(Messages)
        BY <3>2
      <4>2. hand' = <<Head(sendBuffer)>> /\ sendBuffer' = Tail(sendBuffer) /\ workerAt = "drain"
        BY <2>6, <3>2 DEF Poll
      <4> QED
        BY <2>6, <4>1, <4>2 DEF Poll
    <3> QED
      BY <3>1, <3>2
  <2>7. CASE Send
    BY <2>7 DEF Send
  <2>8. CASE Receive \/ HandleTimeouts
    BY <2>8 DEF Receive, HandleTimeouts
  <2>9. CASE SelectReturns \/ SelectTimesOut
    BY <2>9 DEF SelectReturns, SelectTimesOut
  <2>10. CASE UNCHANGED sendVars
    BY <2>10 DEF sendVars
  <2> QED
    BY <2>1, <2>2, <2>3, <2>4, <2>5, <2>6, <2>7, <2>8, <2>9, <2>10 DEF SendNext, Worker
<1> QED
  BY <1>1, <1>2, PTL DEF SendSpec

\* The hand-over between addMessageToSendBuffer and selector.select has no lost wakeup,
\* whatever the interleaving: the delay the FIXME in run() fears cannot happen.
THEOREM NoLostWakeup == SendSpec => []NoStrandedMessage
<1>1. SendInit => NoStrandedMessage
  BY DEF SendInit, NoStrandedMessage, GoingToSleep
<1>2. SendTypeOK /\ NoStrandedMessage /\ [SendNext]_sendVars => NoStrandedMessage'
  <2> SUFFICES ASSUME SendTypeOK, NoStrandedMessage, [SendNext]_sendVars PROVE NoStrandedMessage'
    OBVIOUS
  <2> USE DEF NoStrandedMessage, GoingToSleep
  <2>1. ASSUME NEW t \in Threads, NEW m \in Messages, AddMessage(t, m)
        PROVE NoStrandedMessage'
    \* The caller owns the monitor until it has woken the selector.
    BY <2>1, NoThreadAssumption DEF AddMessage
  <2>2. ASSUME NEW t \in Threads, WakeupSelector(t) PROVE NoStrandedMessage'
    BY <2>2 DEF WakeupSelector
  <2>3. CASE CloseSocket \/ ForgetChannel \/ DatagramArrives
    BY <2>3 DEF CloseSocket, ForgetChannel, DatagramArrives
  <2>4. CASE LoopHead
    BY <2>4 DEF LoopHead
  <2>5. CASE Poll
    \* The worker leaves sendBufferedMessages only when the buffer is empty.
    BY <2>5 DEF Poll, SendTypeOK
  <2>6. CASE Send
    BY <2>6 DEF Send
  <2>7. CASE Receive \/ HandleTimeouts
    BY <2>7 DEF Receive, HandleTimeouts
  <2>8. CASE SelectReturns \/ SelectTimesOut
    \* The wakeup is consumed by a worker that goes back to the buffer.
    BY <2>8 DEF SelectReturns, SelectTimesOut
  <2>9. CASE UNCHANGED sendVars
    BY <2>9 DEF sendVars
  <2> QED
    BY <2>1, <2>2, <2>3, <2>4, <2>5, <2>6, <2>7, <2>8, <2>9 DEF SendNext, Worker
<1> QED
  BY <1>1, <1>2, SendTypeCorrect, PTL DEF SendSpec

\* A message appended to the buffer is the last one of buffer, hand and wire together.
LEMMA AppendAssociates ==
  \A s, h, b \in Seq(Messages), m \in Messages :
      Append(s \o h \o b, m) = s \o h \o Append(b, m)
<1> SUFFICES ASSUME NEW s \in Seq(Messages), NEW h \in Seq(Messages),
                    NEW b \in Seq(Messages), NEW m \in Messages
             PROVE  Append(s \o h \o b, m) = s \o h \o Append(b, m)
  OBVIOUS
<1>1. Append(s \o h \o b, m) = (s \o h \o b) \o <<m>>
  BY AppendIsConcat, ConcatProperties
<1>2. Append(b, m) = b \o <<m>> /\ <<m>> \in Seq(Messages)
  BY AppendIsConcat
<1> QED
  BY <1>1, <1>2, ConcatAssociative, ConcatProperties

\* Taking the head of the buffer into an empty hand moves no message past another.
LEMMA HeadIntoHand ==
  ASSUME NEW S, NEW s \in Seq(S), NEW b \in Seq(S), b # <<>>
  PROVE  s \o <<>> \o b = s \o <<Head(b)>> \o Tail(b)
OBVIOUS

\* Nothing is lost, repeated or reordered between sendMessage and the socket while the
\* channel is open.
THEOREM NothingLost == SendSpec => []NothingLostWhileOpen
<1>1. SendInit => NothingLostWhileOpen
  BY DEF SendInit, NothingLostWhileOpen
<1>2. SendTypeOK /\ NothingLostWhileOpen /\ [SendNext]_sendVars => NothingLostWhileOpen'
  <2> SUFFICES ASSUME SendTypeOK, NothingLostWhileOpen, [SendNext]_sendVars, dgramChannel' = "open"
               PROVE  added' = sent' \o hand' \o sendBuffer'
    BY DEF NothingLostWhileOpen
  <2>0. dgramChannel = "open" /\ added = sent \o hand \o sendBuffer
    <3>1. dgramChannel = "open"
      BY DEF SendNext, Worker, sendVars, AddMessage, WakeupSelector, CloseSocket, ForgetChannel,
             DatagramArrives, LoopHead, Poll, Send, Receive, HandleTimeouts,
             SelectReturns, SelectTimesOut
    <3> QED
      BY <3>1 DEF NothingLostWhileOpen
  <2>h. hand \in Seq(Messages)
    BY DEF SendTypeOK
  <2>1. ASSUME NEW t \in Threads, NEW m \in Messages, AddMessage(t, m)
        PROVE  added' = sent' \o hand' \o sendBuffer'
    <3>1. Append(sent \o hand \o sendBuffer, m) = sent \o hand \o Append(sendBuffer, m)
      <4>1. sent \in Seq(Messages) /\ sendBuffer \in Seq(Messages)
        BY DEF SendTypeOK
      <4> QED
        BY <2>h, <4>1, AppendAssociates
    <3> QED
      BY <2>1, <2>0, <3>1 DEF AddMessage
  <2>2. CASE Poll
    BY <2>2, <2>0, HeadIntoHand DEF Poll, SendTypeOK
  <2>3. CASE Send
    BY <2>3, <2>0, <2>h DEF Send, SendTypeOK
  <2>4. CASE UNCHANGED <<added, sent, hand, sendBuffer>>
    BY <2>4, <2>0
  <2> QED
    BY <2>1, <2>2, <2>3, <2>4
    DEF SendNext, Worker, sendVars, WakeupSelector, CloseSocket, ForgetChannel, DatagramArrives,
        LoopHead, Receive, HandleTimeouts, SelectReturns, SelectTimesOut
<1> QED
  BY <1>1, <1>2, SendTypeCorrect, PTL DEF SendSpec

\* The worker's hand, when it is not empty, holds one message.
LEMMA HandHoldsOne ==
  ASSUME NEW S, NEW h \in Seq(S), h # <<>>, Len(h) <= 1
  PROVE  \E m \in S : h = <<m>>
<1>1. Len(h) = 1
  <2>1. Len(h) # 0
    BY EmptySeq
  <2>2. Len(h) \in Nat
    BY LenProperties
  <2> QED
    BY <2>1, <2>2
<1>2. h[1] \in S /\ <<h[1]>> \in Seq(S) /\ Len(<<h[1]>>) = 1
  BY <1>1, ElementOfSeq
<1>3. h = <<h[1]>>
  BY <1>1, <1>2, SeqEqual
<1> QED
  BY <1>2, <1>3

\* The socket handler implements the first-in first-out outbox its callers rely on, also
\* when it is closed in the middle of a transfer.
THEOREM OutboxImplemented == SendSpec => ImplementsOutbox
<1> USE DEF Box!OutboxInit, Box!OutboxNext, Box!Accept, Box!Transmit, Box!outboxVars
<1>1. SendInit => Box!OutboxInit
  BY DEF SendInit
<1>2. SendTypeOK /\ NothingLostWhileOpen /\ [SendNext]_sendVars => [Box!OutboxNext]_(Box!outboxVars)
  <2> SUFFICES ASSUME SendTypeOK, NothingLostWhileOpen, [SendNext]_sendVars
               PROVE  [Box!OutboxNext]_(Box!outboxVars)
    OBVIOUS
  <2>1. ASSUME NEW t \in Threads, NEW m \in Messages, AddMessage(t, m)
        PROVE  Box!Accept(m)
    BY <2>1 DEF AddMessage
  <2>2. ASSUME Send, dgramChannel = "open" PROVE Box!Transmit
    \* What the hand holds is the first accepted message not yet transmitted.
    <3>1. PICK m \in Messages : hand = <<m>>
      BY <2>2, HandHoldsOne DEF Send, SendTypeOK
    <3>2. added = (sent \o <<m>>) \o sendBuffer
      BY <2>2, <3>1 DEF NothingLostWhileOpen
    <3>3. Len(sent) < Len(added) /\ added[Len(sent) + 1] = m
      BY <3>2 DEF SendTypeOK
    <3>4. sent' = Append(sent, m) /\ UNCHANGED added
      BY <2>2, <3>1 DEF Send, SendTypeOK
    <3> QED
      BY <3>3, <3>4
  <2>3. CASE UNCHANGED <<added, sent>>
    BY <2>3
  <2> QED
    BY <2>1, <2>2, <2>3
    DEF SendNext, Worker, sendVars, WakeupSelector, CloseSocket, ForgetChannel, DatagramArrives,
        LoopHead, Poll, Send, Receive, HandleTimeouts, SelectReturns, SelectTimesOut
<1> QED
  BY <1>1, <1>2, SendTypeCorrect, NothingLost, PTL
  DEF SendSpec, ImplementsOutbox, Box!OutboxSpec

-----------------------------------------------------------------------------
(* The inductive invariant. *)

\* The buffer has been written when a handler runs, and its address is that of its datagram.
Arrived ==
    \A h \in Handlers : pc[h] # "unborn" =>
        dgramBuffer \in Datagrams /\ got[h] \in Datagrams /\ addr[h] = got[h].src

\* A handler whose parse no later datagram has overtaken still finds its own in the buffer.
Untouched ==
    \A h \in Handlers \ overtaken : pc[h] = "parse" => incoming = NoDatagram /\ dgramBuffer = got[h]

\* What such a handler has parsed is what it was started for.
ParsedOwn ==
    \A h \in Handlers \ overtaken : pc[h] \notin {"unborn", "parse"} => msg[h] = got[h]

\* The map leads a peer to a channel that was created for it.
ChannelsOfPeers ==
    \A p \in Peers : serverChannels[p] # 0 => created[serverChannels[p]] = p

\* Threads are started in the order of their numbers, and have read nothing before they parse.
InOrder ==
    \A h \in Handlers :
        /\ pc[h] # "unborn" => \A k \in 1..h : pc[k] # "unborn"
        /\ pc[h] \in {"unborn", "parse"} => msg[h] = NoDatagram

IInv ==
    /\ TypeOK
    /\ Arrived /\ Untouched /\ ParsedOwn
    /\ ChannelsOfPeers /\ OnOwnChannel
    /\ InOrder /\ ConfirmedByAnswer

-----------------------------------------------------------------------------
(* The next handler is one that has not been started, and all before it have. *)

LEMMA NextIsUnborn ==
    ASSUME InOrder, NEW h \in Handlers, h = NextHandler
    PROVE  pc[h] = "unborn" /\ \A k \in 1..h : k # h => pc[k] # "unborn"
<1> DEFINE born == {k \in Handlers : pc[k] # "unborn"}
<1>1. Handlers \subseteq Nat /\ \A k \in Handlers : 1..k \subseteq Handlers
  BY ReceiveAssumption DEF Handlers
<1>2. IsFiniteSet(Handlers)
  BY FS_Interval, ReceiveAssumption DEF Handlers
<1>3. IsFiniteSet(born) /\ Cardinality(born) \in Nat
  BY <1>2, FS_Subset, FS_CardinalityType
<1>4. h = Cardinality(born) + 1
  BY DEF NextHandler
<1>5. pc[h] = "unborn"
  <2> SUFFICES ASSUME pc[h] # "unborn" PROVE FALSE
    OBVIOUS
  <2>1. 1..h \subseteq born
    BY <1>1 DEF InOrder
  <2>2. Cardinality(1..h) = h
    BY <1>1, FS_Interval
  <2>3. h =< Cardinality(born)
    BY <2>1, <2>2, <1>3, FS_Subset
  <2> QED
    BY <2>3, <1>3, <1>4
<1>6. ASSUME NEW k \in 1..h, k # h PROVE pc[k] # "unborn"
  <2> SUFFICES ASSUME pc[k] = "unborn" PROVE FALSE
    OBVIOUS
  <2>1. k \in Handlers /\ k \in Nat /\ k >= 1 /\ k < h /\ h \in Nat
    BY <1>1, <1>6
  <2>2. born \subseteq 1..(k - 1)
    <3> SUFFICES ASSUME NEW j \in born PROVE j \in 1..(k - 1)
      OBVIOUS
    <3>1. j \in Nat /\ j >= 1 /\ ~(k \in 1..j)
      BY DEF InOrder, Handlers
    <3> QED
      BY <3>1, <2>1
  <2>3. IsFiniteSet(1..(k - 1)) /\ Cardinality(1..(k - 1)) = k - 1
    <3>1. k - 1 \in Nat
      BY <2>1
    <3>2. IsFiniteSet(1..(k - 1)) /\ Cardinality(1..(k - 1)) = IF 1 > k - 1 THEN 0 ELSE (k - 1) - 1 + 1
      BY <3>1, FS_Interval
    <3> QED
      BY <3>2, <2>1
  <2>4. Cardinality(born) =< k - 1
    BY <2>2, <2>3, FS_Subset
  <2> QED
    BY <2>4, <2>1, <1>3, <1>4
<1> QED
  BY <1>5, <1>6
-----------------------------------------------------------------------------
(* Every action keeps each part of the invariant. *)

\* A parse reads a datagram or a mixture, and leads on by its kind.
LEMMA WhatIsRead ==
    ASSUME TypeOK, Arrived, NEW h \in Handlers, Parse(h)
    PROVE  \E m \in Datagrams \cup {Garbled}, p \in {"request", "response", "empty", "dropped"} :
               /\ m \in Readable /\ (p # "dropped" => m \in Datagrams /\ m.kind = p)
               /\ pc' = [pc EXCEPT ![h] = p] /\ msg' = [msg EXCEPT ![h] = m]
<1>1. PICK m \in Readable : \E p \in Outcomes(m, got[h]) :
            pc' = [pc EXCEPT ![h] = p] /\ msg' = [msg EXCEPT ![h] = m]
  BY DEF Parse, Goto
<1>2. PICK p \in Outcomes(m, got[h]) :
            pc' = [pc EXCEPT ![h] = p] /\ msg' = [msg EXCEPT ![h] = m]
  BY <1>1
<1>3. m \in Datagrams \cup {Garbled}
  BY DEF Readable, Arrived, TypeOK, Parse
<1>4. m \in Datagrams => m.kind \in {"request", "response", "empty", "invalid"}
  BY ReceiveAssumption DEF Datagram
<1>5. p \in {"request", "response", "empty", "dropped"} /\ (p # "dropped" => m \in Datagrams /\ m.kind = p)
  BY <1>3, <1>4 DEF Outcomes
<1> QED
  BY <1>2, <1>3, <1>5

\* A handler that is done leaves everything else as it is, but for messages it confirms.
LEMMA DoneKeepsTypes ==
    ASSUME TypeOK, NEW h \in Handlers, pc[h] # "unborn",
           NEW p \in {"delivered", "dropped"}, pc' = [pc EXCEPT ![h] = p],
           UNCHANGED <<incoming, dgramBuffer, coapSocketMap, addr, msg, channel, got, created,
                       serverChannels, reset>>,
           timeoutConMsgMap' \subseteq timeoutConMsgMap
    PROVE  TypeOK'
BY DEF TypeOK, Steps

LEMMA TypesKept == TypeOK /\ Arrived /\ [Next]_vars => TypeOK'
<1> SUFFICES ASSUME TypeOK, Arrived, [Next]_vars PROVE TypeOK'
  OBVIOUS
<1> USE ReceiveAssumption DEF TypeOK, Steps, Goto
<1>1. ASSUME NEW d \in Datagrams, BeginReceive(d) PROVE TypeOK'
  BY <1>1 DEF BeginReceive, handlerVars
<1>2. CASE RegisterListener
  BY <1>2 DEF RegisterListener, handlerVars
<1>3. ASSUME NEW h \in Handlers, StartHandler(h) PROVE TypeOK'
  BY <1>3 DEF StartHandler, Datagram
<1>4. ASSUME NEW h \in Handlers, Parse(h) PROVE TypeOK'
  <2>1. PICK m \in Datagrams \cup {Garbled}, p \in {"request", "response", "empty", "dropped"} :
            /\ (p # "dropped" => m \in Datagrams /\ m.kind = p)
            /\ pc' = [pc EXCEPT ![h] = p] /\ msg' = [msg EXCEPT ![h] = m]
    BY <1>4, WhatIsRead
  <2> QED
    BY <1>4, <2>1 DEF Parse
<1>5. ASSUME NEW h \in Handlers, DropIllegalType(h) PROVE TypeOK'
  <2>1. \E p \in {"delivered", "dropped"} : pc' = [pc EXCEPT ![h] = p]
    BY <1>5 DEF DropIllegalType
  <2>2. pc[h] # "unborn" /\ timeoutConMsgMap' \subseteq timeoutConMsgMap
    BY <1>5 DEF DropIllegalType, LegalTypes
  <2> HIDE DEF TypeOK
  <2> QED
    BY <1>5, <2>1, <2>2, DoneKeepsTypes DEF DropIllegalType
<1>6. ASSUME NEW h \in Handlers, FindServerChannel(h) PROVE TypeOK'
  BY <1>6 DEF FindServerChannel, At
<1>7. ASSUME NEW h \in Handlers, FailToCreate(h) PROVE TypeOK'
  BY <1>7 DEF FailToCreate
<1>8. ASSUME NEW h \in Handlers, CreateServerChannel(h) PROVE TypeOK'
  <2>1. created' \in Seq(Peers) /\ Len(created') = Len(created) + 1 /\ Len(created) \in Nat
    BY <1>8 DEF CreateServerChannel
  <2>2. channel' \in [Handlers -> 0..Len(created')] /\ serverChannels' \in [Peers -> 0..Len(created')]
    BY <1>8, <2>1 DEF CreateServerChannel
  <2>3. coapSocketMap' \in BOOLEAN
    BY <1>8 DEF CreateServerChannel
  <2> HIDE DEF TypeOK
  <2>4. /\ incoming' = incoming /\ dgramBuffer' = dgramBuffer /\ addr' = addr /\ msg' = msg /\ got' = got
        /\ timeoutConMsgMap' = timeoutConMsgMap /\ reset' = reset
        /\ pc[h] = "create" /\ pc' = [pc EXCEPT ![h] = "add"]
    BY <1>8 DEF CreateServerChannel
  <2> USE DEF TypeOK
  <2> QED
    BY <2>1, <2>2, <2>3, <2>4
<1>9. ASSUME NEW h \in Handlers, RefuseConnection(h) PROVE TypeOK'
  BY <1>9 DEF RefuseConnection, Datagram
<1>10. ASSUME NEW h \in Handlers, AddServerChannel(h) PROVE TypeOK'
  BY <1>10 DEF AddServerChannel
<1>11. ASSUME NEW h \in Handlers, HandleRequest(h) PROVE TypeOK'
  BY <1>11 DEF HandleRequest
<1>12. ASSUME NEW h \in Handlers, HandleSeparateResponse(h) PROVE TypeOK'
  <2>1. \E p \in {"delivered", "dropped"} : pc' = [pc EXCEPT ![h] = p]
    BY <1>12 DEF HandleSeparateResponse
  <2>2. pc[h] # "unborn" /\ timeoutConMsgMap' \subseteq timeoutConMsgMap
    BY <1>12 DEF HandleSeparateResponse, At
  <2> HIDE DEF TypeOK
  <2> QED
    BY <1>12, <2>1, <2>2, DoneKeepsTypes DEF HandleSeparateResponse
<1>13. ASSUME NEW h \in Handlers, HandleResponse(h) PROVE TypeOK'
  <2>1. \E p \in {"delivered", "dropped"} : pc' = [pc EXCEPT ![h] = p]
    BY <1>13 DEF HandleResponse
  <2>2. pc[h] # "unborn" /\ timeoutConMsgMap' \subseteq timeoutConMsgMap
    BY <1>13 DEF HandleResponse, At
  <2> HIDE DEF TypeOK
  <2> QED
    BY <1>13, <2>1, <2>2, DoneKeepsTypes DEF HandleResponse
<1>14. ASSUME NEW h \in Handlers, HandleEmpty(h) PROVE TypeOK'
  <2>1. \E p \in {"delivered", "dropped"} : pc' = [pc EXCEPT ![h] = p]
    BY <1>14 DEF HandleEmpty
  <2>2. pc[h] # "unborn" /\ timeoutConMsgMap' \subseteq timeoutConMsgMap
    BY <1>14 DEF HandleEmpty, At
  <2> HIDE DEF TypeOK
  <2> QED
    BY <1>14, <2>1, <2>2, DoneKeepsTypes DEF HandleEmpty
<1>15. CASE UNCHANGED vars
  BY <1>15 DEF vars, handlerVars
<1> QED
  BY <1>1, <1>2, <1>3, <1>4, <1>5, <1>6, <1>7, <1>8, <1>9, <1>10, <1>11, <1>12, <1>13, <1>14, <1>15
     DEF Next, Handler
\* After the parse a handler keeps the message and the address it has, and nobody else's changes.
LEMMA LaterSteps ==
    ASSUME TypeOK, NEW h \in Handlers, Handler(h), ~Parse(h)
    PROVE  /\ UNCHANGED <<incoming, dgramBuffer, overtaken, addr, msg, got>>
           /\ pc[h] \notin {"unborn", "parse"}
           /\ \E p \in Steps \ {"unborn", "parse"} : pc' = [pc EXCEPT ![h] = p]
<1>1. CASE DropIllegalType(h)
  <2>1. UNCHANGED <<incoming, dgramBuffer, overtaken, addr, msg, got>>
    BY <1>1 DEF DropIllegalType
  <2>2. pc[h] \notin {"unborn", "parse"}
    BY <1>1 DEF DropIllegalType, At, LegalTypes
  <2>3. \E p \in {"dropped"} : pc' = [pc EXCEPT ![h] = p]
    BY <1>1 DEF DropIllegalType, Goto
  <2> QED
    BY <2>1, <2>2, <2>3 DEF Steps
<1>2. CASE FindServerChannel(h)
  <2>1. UNCHANGED <<incoming, dgramBuffer, overtaken, addr, msg, got>>
    BY <1>2 DEF FindServerChannel
  <2>2. pc[h] \notin {"unborn", "parse"}
    BY <1>2 DEF FindServerChannel, At, LegalTypes
  <2>3. \E p \in {"create", "handle"} : pc' = [pc EXCEPT ![h] = p]
    BY <1>2 DEF FindServerChannel, Goto
  <2> QED
    BY <2>1, <2>2, <2>3 DEF Steps
<1>3. CASE FailToCreate(h)
  <2>1. UNCHANGED <<incoming, dgramBuffer, overtaken, addr, msg, got>>
    BY <1>3 DEF FailToCreate
  <2>2. pc[h] \notin {"unborn", "parse"}
    BY <1>3 DEF FailToCreate, At, LegalTypes
  <2>3. \E p \in {"crashed"} : pc' = [pc EXCEPT ![h] = p]
    BY <1>3 DEF FailToCreate, Goto
  <2> QED
    BY <2>1, <2>2, <2>3 DEF Steps
<1>4. CASE CreateServerChannel(h)
  <2>1. UNCHANGED <<incoming, dgramBuffer, overtaken, addr, msg, got>>
    BY <1>4 DEF CreateServerChannel
  <2>2. pc[h] \notin {"unborn", "parse"}
    BY <1>4 DEF CreateServerChannel, At, LegalTypes
  <2>3. \E p \in {"add"} : pc' = [pc EXCEPT ![h] = p]
    BY <1>4 DEF CreateServerChannel, Goto
  <2> QED
    BY <2>1, <2>2, <2>3 DEF Steps
<1>5. CASE RefuseConnection(h)
  <2>1. UNCHANGED <<incoming, dgramBuffer, overtaken, addr, msg, got>>
    BY <1>5 DEF RefuseConnection
  <2>2. pc[h] \notin {"unborn", "parse"}
    BY <1>5 DEF RefuseConnection, At, LegalTypes
  <2>3. \E p \in {"refused"} : pc' = [pc EXCEPT ![h] = p]
    BY <1>5 DEF RefuseConnection, Goto
  <2> QED
    BY <2>1, <2>2, <2>3 DEF Steps
<1>6. CASE AddServerChannel(h)
  <2>1. UNCHANGED <<incoming, dgramBuffer, overtaken, addr, msg, got>>
    BY <1>6 DEF AddServerChannel
  <2>2. pc[h] \notin {"unborn", "parse"}
    BY <1>6 DEF AddServerChannel, At, LegalTypes
  <2>3. \E p \in {"handle"} : pc' = [pc EXCEPT ![h] = p]
    BY <1>6 DEF AddServerChannel, Goto
  <2> QED
    BY <2>1, <2>2, <2>3 DEF Steps
<1>7. CASE HandleRequest(h)
  <2>1. UNCHANGED <<incoming, dgramBuffer, overtaken, addr, msg, got>>
    BY <1>7 DEF HandleRequest
  <2>2. pc[h] \notin {"unborn", "parse"}
    BY <1>7 DEF HandleRequest, At, LegalTypes
  <2>3. \E p \in {"executed"} : pc' = [pc EXCEPT ![h] = p]
    BY <1>7 DEF HandleRequest, Goto
  <2> QED
    BY <2>1, <2>2, <2>3 DEF Steps
<1>8. CASE HandleSeparateResponse(h)
  <2>1. UNCHANGED <<incoming, dgramBuffer, overtaken, addr, msg, got>>
    BY <1>8 DEF HandleSeparateResponse
  <2>2. pc[h] \notin {"unborn", "parse"}
    BY <1>8 DEF HandleSeparateResponse, At, LegalTypes
  <2>3. \E p \in {"delivered", "dropped"} : pc' = [pc EXCEPT ![h] = p]
    BY <1>8 DEF HandleSeparateResponse, Goto
  <2> QED
    BY <2>1, <2>2, <2>3 DEF Steps
<1>9. CASE HandleResponse(h)
  <2>1. UNCHANGED <<incoming, dgramBuffer, overtaken, addr, msg, got>>
    BY <1>9 DEF HandleResponse
  <2>2. pc[h] \notin {"unborn", "parse"}
    BY <1>9 DEF HandleResponse, At, LegalTypes
  <2>3. \E p \in {"delivered", "dropped"} : pc' = [pc EXCEPT ![h] = p]
    BY <1>9 DEF HandleResponse, Goto
  <2> QED
    BY <2>1, <2>2, <2>3 DEF Steps
<1>10. CASE HandleEmpty(h)
  <2>1. UNCHANGED <<incoming, dgramBuffer, overtaken, addr, msg, got>>
    BY <1>10 DEF HandleEmpty
  <2>2. pc[h] \notin {"unborn", "parse"}
    BY <1>10 DEF HandleEmpty, At, LegalTypes
  <2>3. \E p \in {"delivered", "dropped"} : pc' = [pc EXCEPT ![h] = p]
    BY <1>10 DEF HandleEmpty, Goto
  <2> QED
    BY <2>1, <2>2, <2>3 DEF Steps
<1> QED
  BY <1>1, <1>2, <1>3, <1>4, <1>5, <1>6, <1>7, <1>8, <1>9, <1>10 DEF Handler

LEMMA ArrivedKept == TypeOK /\ Arrived /\ [Next]_vars => Arrived'
<1> SUFFICES ASSUME TypeOK, Arrived, [Next]_vars PROVE Arrived'
  OBVIOUS
<1> USE DEF TypeOK, Arrived
<1>1. ASSUME NEW d \in Datagrams, BeginReceive(d) PROVE Arrived'
  BY <1>1 DEF BeginReceive, handlerVars
<1>2. CASE RegisterListener
  BY <1>2 DEF RegisterListener, handlerVars
<1>3. ASSUME NEW h \in Handlers, StartHandler(h) PROVE Arrived'
  BY <1>3, ReceiveAssumption DEF StartHandler, Goto
<1>4. ASSUME NEW h \in Handlers, Parse(h) PROVE Arrived'
  <2> HIDE DEF TypeOK, Arrived
  <2>1. PICK m \in Datagrams \cup {Garbled}, p \in {"request", "response", "empty", "dropped"} :
            m \in Readable /\ pc' = [pc EXCEPT ![h] = p] /\ msg' = [msg EXCEPT ![h] = m]
    BY <1>4, WhatIsRead
  <2> QED
    BY <1>4, <2>1 DEF Parse, Readable, TypeOK, Arrived
<1>5. ASSUME NEW h \in Handlers, Handler(h), ~Parse(h) PROVE Arrived'
  <2> HIDE DEF TypeOK, Arrived
  <2>1. PICK p \in Steps \ {"unborn", "parse"} : pc' = [pc EXCEPT ![h] = p]
    BY <1>5, LaterSteps
  <2>2. pc[h] \notin {"unborn", "parse"} /\ UNCHANGED <<incoming, dgramBuffer, overtaken, addr, msg, got>>
    BY <1>5, LaterSteps
  <2>3. pc \in [Handlers -> Steps]
    BY DEF TypeOK
  <2> QED
    BY <2>1, <2>2, <2>3 DEF Arrived
<1>6. CASE UNCHANGED vars
  BY <1>6 DEF vars, handlerVars
<1> QED
  BY <1>1, <1>2, <1>3, <1>4, <1>5, <1>6 DEF Next

LEMMA OwnKept == TypeOK /\ Arrived /\ Untouched /\ ParsedOwn /\ [Next]_vars => (Untouched /\ ParsedOwn)'
<1> SUFFICES ASSUME TypeOK, Arrived, Untouched, ParsedOwn, [Next]_vars PROVE (Untouched /\ ParsedOwn)'
  OBVIOUS
<1> USE DEF TypeOK, Untouched, ParsedOwn
<1>1. ASSUME NEW d \in Datagrams, BeginReceive(d) PROVE (Untouched /\ ParsedOwn)'
  BY <1>1 DEF BeginReceive, handlerVars
<1>2. CASE RegisterListener
  BY <1>2 DEF RegisterListener, handlerVars
<1>3. ASSUME NEW h \in Handlers, StartHandler(h) PROVE (Untouched /\ ParsedOwn)'
  BY <1>3, ReceiveAssumption DEF StartHandler, Goto
<1>4. ASSUME NEW h \in Handlers, Parse(h) PROVE (Untouched /\ ParsedOwn)'
  <2> HIDE DEF TypeOK, Untouched, ParsedOwn
  <2>1. PICK m \in Datagrams \cup {Garbled}, p \in {"request", "response", "empty", "dropped"} :
            m \in Readable /\ pc' = [pc EXCEPT ![h] = p] /\ msg' = [msg EXCEPT ![h] = m]
    BY <1>4, WhatIsRead
  <2> QED
    BY <1>4, <2>1 DEF Parse, Readable, TypeOK, Untouched, ParsedOwn
<1>5. ASSUME NEW h \in Handlers, Handler(h), ~Parse(h) PROVE (Untouched /\ ParsedOwn)'
  <2> HIDE DEF TypeOK, Untouched, ParsedOwn
  <2>1. PICK p \in Steps \ {"unborn", "parse"} : pc' = [pc EXCEPT ![h] = p]
    BY <1>5, LaterSteps
  <2>2. pc[h] \notin {"unborn", "parse"} /\ UNCHANGED <<incoming, dgramBuffer, overtaken, addr, msg, got>>
    BY <1>5, LaterSteps
  <2>3. pc \in [Handlers -> Steps]
    BY DEF TypeOK
  <2> QED
    BY <2>1, <2>2, <2>3 DEF Untouched, ParsedOwn
<1>6. CASE UNCHANGED vars
  BY <1>6 DEF vars, handlerVars
<1> QED
  BY <1>1, <1>2, <1>3, <1>4, <1>5, <1>6 DEF Next
\* Channels are created and entered into the map for the peer of the handler that does it.
LEMMA ChannelsKept ==
    TypeOK /\ Arrived /\ ChannelsOfPeers /\ OnOwnChannel /\ [Next]_vars => (ChannelsOfPeers /\ OnOwnChannel)'
<1> SUFFICES ASSUME TypeOK, Arrived, ChannelsOfPeers, OnOwnChannel, [Next]_vars
             PROVE  (ChannelsOfPeers /\ OnOwnChannel)'
  OBVIOUS
<1>0. /\ pc \in [Handlers -> Steps] /\ channel \in [Handlers -> 0..Len(created)] /\ created \in Seq(Peers)
      /\ serverChannels \in [Peers -> 0..Len(created)]
      /\ \A h \in Handlers : pc[h] # "unborn" => addr[h] \in Peers
  BY DEF TypeOK
<1>a. ASSUME NEW h \in Handlers, NEW p, pc' = [pc EXCEPT ![h] = p], p \notin {"add", "handle", "executed"},
             \A k \in Handlers : k # h => addr'[k] = addr[k],
             UNCHANGED <<channel, created, serverChannels>>
      PROVE  (ChannelsOfPeers /\ OnOwnChannel)'
  BY <1>a, <1>0 DEF ChannelsOfPeers, OnOwnChannel
<1>1. CASE \/ \E d \in Datagrams : BeginReceive(d)
           \/ RegisterListener \/ UNCHANGED vars
  <2>1. UNCHANGED <<pc, addr, channel, created, serverChannels>>
    BY <1>1 DEF BeginReceive, RegisterListener, vars, handlerVars
  <2> QED
    BY <2>1 DEF ChannelsOfPeers, OnOwnChannel
<1>2. ASSUME NEW h \in Handlers, StartHandler(h) PROVE (ChannelsOfPeers /\ OnOwnChannel)'
  <2>1. \A k \in Handlers : k # h => addr'[k] = addr[k]
    BY <1>2 DEF StartHandler, TypeOK
  <2> QED
    BY <1>2, <2>1, <1>a DEF StartHandler, Goto
<1>3. ASSUME NEW h \in Handlers, Parse(h) PROVE (ChannelsOfPeers /\ OnOwnChannel)'
  <2>1. \E p \in {"request", "response", "empty", "dropped"} : pc' = [pc EXCEPT ![h] = p]
    BY <1>3, WhatIsRead
  <2> QED
    BY <1>3, <2>1, <1>a DEF Parse
<1>4. ASSUME NEW h \in Handlers, FindServerChannel(h) PROVE (ChannelsOfPeers /\ OnOwnChannel)'
  <2>1. /\ channel' = [channel EXCEPT ![h] = serverChannels[addr[h]]] /\ UNCHANGED <<addr, created, serverChannels>>
        /\ pc[h] = "request" /\ pc' = [pc EXCEPT ![h] = IF channel'[h] = 0 THEN "create" ELSE "handle"]
    BY <1>4 DEF FindServerChannel, At, Goto
  <2>2. pc'[h] \in {"create", "handle"} /\ (pc'[h] = "handle" => channel'[h] # 0)
    BY <2>1, <1>0
  <2>3. channel'[h] # 0 => created[channel'[h]] = addr[h]
    BY <2>1, <1>0 DEF ChannelsOfPeers
  <2>4. \A k \in Handlers : k # h => pc'[k] = pc[k] /\ channel'[k] = channel[k]
    BY <2>1, <1>0
  <2> QED
    BY <2>1, <2>2, <2>3, <2>4 DEF ChannelsOfPeers, OnOwnChannel
<1>5. ASSUME NEW h \in Handlers, CreateServerChannel(h) PROVE (ChannelsOfPeers /\ OnOwnChannel)'
  <2>1. /\ created' = Append(created, addr[h]) /\ channel' = [channel EXCEPT ![h] = Len(created')]
        /\ pc' = [pc EXCEPT ![h] = "add"] /\ UNCHANGED <<addr, serverChannels>> /\ addr[h] \in Peers
    BY <1>5, <1>0 DEF CreateServerChannel, Goto
  <2>2. /\ Len(created') = Len(created) + 1 /\ Len(created) \in Nat /\ created'[Len(created) + 1] = addr[h]
        /\ \A i \in 1..Len(created) : created'[i] = created[i]
    BY <2>1, <1>0
  <2>3. ChannelsOfPeers'
    <3> SUFFICES ASSUME NEW q \in Peers, serverChannels[q] # 0 PROVE created'[serverChannels[q]] = q
      BY <2>1 DEF ChannelsOfPeers
    <3>1. serverChannels[q] \in 1..Len(created)
      BY <1>0
    <3> QED
      BY <3>1, <2>2 DEF ChannelsOfPeers
  <2>4. channel'[h] # 0 /\ created'[channel'[h]] = addr[h]
    BY <2>1, <2>2, <1>0
  <2>5. ASSUME NEW k \in Handlers, k # h, pc[k] \in {"add", "handle", "executed"}
        PROVE  channel'[k] # 0 /\ created'[channel'[k]] = addr[k]
    <3>1. channel[k] \in 1..Len(created) /\ created[channel[k]] = addr[k] /\ channel'[k] = channel[k]
      BY <1>0, <2>1, <2>5 DEF OnOwnChannel
    <3> QED
      BY <3>1, <2>2
  <2> QED
    BY <2>1, <2>3, <2>4, <2>5, <1>0 DEF OnOwnChannel
<1>6. ASSUME NEW h \in Handlers, AddServerChannel(h) PROVE (ChannelsOfPeers /\ OnOwnChannel)'
  <2>1. /\ serverChannels' = [serverChannels EXCEPT ![addr[h]] = channel[h]]
        /\ pc[h] = "add" /\ pc' = [pc EXCEPT ![h] = "handle"] /\ UNCHANGED <<addr, channel, created>>
    BY <1>6 DEF AddServerChannel, Goto
  <2>2. addr[h] \in Peers /\ channel[h] # 0 /\ created[channel[h]] = addr[h]
    BY <2>1, <1>0 DEF OnOwnChannel
  <2> QED
    BY <2>1, <2>2, <1>0 DEF ChannelsOfPeers, OnOwnChannel
<1>7. ASSUME NEW h \in Handlers, HandleRequest(h) PROVE (ChannelsOfPeers /\ OnOwnChannel)'
  <2>1. /\ pc[h] = "handle" /\ pc' = [pc EXCEPT ![h] = "executed"]
        /\ UNCHANGED <<addr, channel, created, serverChannels>>
    BY <1>7 DEF HandleRequest, Goto
  <2> QED
    BY <2>1, <1>0 DEF ChannelsOfPeers, OnOwnChannel
<1>8. ASSUME NEW h \in Handlers,
             \/ DropIllegalType(h) \/ FailToCreate(h) \/ RefuseConnection(h)
             \/ HandleSeparateResponse(h) \/ HandleResponse(h) \/ HandleEmpty(h)
      PROVE  (ChannelsOfPeers /\ OnOwnChannel)'
  <2>1. UNCHANGED <<addr, channel, created, serverChannels>>
    BY <1>8 DEF DropIllegalType, FailToCreate, RefuseConnection, HandleSeparateResponse, HandleResponse,
                HandleEmpty
  <2>2. \E p \in {"dropped", "crashed", "refused", "delivered"} : pc' = [pc EXCEPT ![h] = p]
    BY <1>8 DEF DropIllegalType, FailToCreate, RefuseConnection, HandleSeparateResponse, HandleResponse,
                HandleEmpty, Goto
  <2> QED
    BY <2>1, <2>2, <1>a
<1> QED
  BY <1>1, <1>2, <1>3, <1>4, <1>5, <1>6, <1>7, <1>8 DEF Next, Handler

\* Handlers are started one after the other and parse once.
LEMMA OrderKept == TypeOK /\ Arrived /\ InOrder /\ [Next]_vars => InOrder'
<1> SUFFICES ASSUME TypeOK, Arrived, InOrder, [Next]_vars PROVE InOrder'
  OBVIOUS
<1>0. /\ pc \in [Handlers -> Steps] /\ msg \in [Handlers -> Datagrams \cup {NoDatagram, Garbled}]
      /\ \A h \in Handlers : 1..h \subseteq Handlers
  BY ReceiveAssumption DEF TypeOK, Handlers
<1>1. CASE \/ \E d \in Datagrams : BeginReceive(d)
           \/ RegisterListener \/ UNCHANGED vars
  BY <1>1 DEF BeginReceive, RegisterListener, vars, handlerVars, InOrder
<1>2. ASSUME NEW h \in Handlers, StartHandler(h) PROVE InOrder'
  <2>1. pc[h] = "unborn" /\ \A k \in 1..h : k # h => pc[k] # "unborn"
    BY <1>2, NextIsUnborn DEF StartHandler
  <2>2. pc' = [pc EXCEPT ![h] = "parse"] /\ msg' = msg
    BY <1>2 DEF StartHandler, Goto
  <2> QED
    BY <2>1, <2>2, <1>0 DEF InOrder
<1>3. ASSUME NEW h \in Handlers, Parse(h) PROVE InOrder'
  <2>1. PICK m \in Datagrams \cup {Garbled}, p \in {"request", "response", "empty", "dropped"} :
            pc' = [pc EXCEPT ![h] = p] /\ msg' = [msg EXCEPT ![h] = m]
    BY <1>3, WhatIsRead
  <2> QED
    BY <1>3, <2>1, <1>0 DEF Parse, InOrder
<1>4. ASSUME NEW h \in Handlers, Handler(h), ~Parse(h) PROVE InOrder'
  <2>1. /\ \E p \in Steps \ {"unborn", "parse"} : pc' = [pc EXCEPT ![h] = p]
        /\ pc[h] \notin {"unborn", "parse"} /\ msg' = msg
    BY <1>4, LaterSteps
  <2> QED
    BY <2>1, <1>0 DEF InOrder
<1> QED
  BY <1>1, <1>2, <1>3, <1>4 DEF Next

\* A message that stops waiting has its answer, and nobody forgets an answer.
LEMMA AnswersKept ==
    TypeOK /\ Arrived /\ InOrder /\ ConfirmedByAnswer /\ [Next]_vars => ConfirmedByAnswer'
<1> SUFFICES ASSUME TypeOK, Arrived, InOrder, ConfirmedByAnswer, [Next]_vars PROVE ConfirmedByAnswer'
  OBVIOUS
<1>0. msg \in [Handlers -> Datagrams \cup {NoDatagram, Garbled}] /\ NoDatagram \notin Datagrams
  BY ReceiveAssumption DEF TypeOK
<1>1. CASE /\ timeoutConMsgMap' = timeoutConMsgMap /\ msg' = msg
  BY <1>1 DEF ConfirmedByAnswer
<1>2. ASSUME NEW h \in Handlers, Parse(h) PROVE ConfirmedByAnswer'
  <2>1. msg[h] = NoDatagram /\ timeoutConMsgMap' = timeoutConMsgMap
    BY <1>2 DEF Parse, InOrder
  <2>2. \A k \in Handlers : msg[k] \in Datagrams => msg'[k] = msg[k]
    BY <1>2, <2>1, <1>0, WhatIsRead
  <2> QED
    BY <2>1, <2>2 DEF ConfirmedByAnswer
<1>3. ASSUME NEW h \in Handlers, HandleResponse(h) \/ HandleEmpty(h) PROVE ConfirmedByAnswer'
  <2>1. timeoutConMsgMap' = timeoutConMsgMap \ {msg[h].id} /\ msg' = msg
    BY <1>3 DEF HandleResponse, HandleEmpty
  <2>2. msg[h] \in Datagrams /\ IsAnswer(msg[h])
    <3>1. CASE HandleResponse(h)
      BY <3>1 DEF HandleResponse, At, LegalTypes, IsAnswer, TypeOK
    <3>2. CASE HandleEmpty(h)
      BY <3>2 DEF HandleEmpty, At, LegalTypes, IsAnswer, TypeOK
    <3> QED
      BY <1>3, <3>1, <3>2
  <2> QED
    BY <2>1, <2>2 DEF ConfirmedByAnswer
<1>4. \/ timeoutConMsgMap' = timeoutConMsgMap /\ msg' = msg
      \/ \E h \in Handlers : Parse(h) \/ HandleResponse(h) \/ HandleEmpty(h)
  BY DEF Next, Handler, BeginReceive, StartHandler, RegisterListener, DropIllegalType, FindServerChannel,
         FailToCreate, CreateServerChannel, RefuseConnection, AddServerChannel, HandleRequest,
         HandleSeparateResponse, vars, handlerVars
<1> QED
  BY <1>1, <1>2, <1>3, <1>4

-----------------------------------------------------------------------------
(* The theorems. *)

LEMMA Invariance == Spec => []IInv
<1>1. Init => IInv
  <2> SUFFICES ASSUME Init PROVE IInv
    OBVIOUS
  <2>1. TypeOK
    <3>1. created \in Seq(Peers) /\ Len(created) = 0
      BY DEF Init
    <3>2. coapSocketMap \in BOOLEAN
      BY DEF Init
    <3> QED
      BY <3>1, <3>2, ReceiveAssumption DEF Init, TypeOK, Steps
  <2>2. Arrived /\ Untouched /\ ParsedOwn /\ ChannelsOfPeers /\ OnOwnChannel /\ InOrder /\ ConfirmedByAnswer
    BY DEF Init, Arrived, Untouched, ParsedOwn, ChannelsOfPeers, OnOwnChannel, InOrder, ConfirmedByAnswer
  <2> QED
    BY <2>1, <2>2 DEF IInv
<1>2. IInv /\ [Next]_vars => IInv'
  BY TypesKept, ArrivedKept, OwnKept, ChannelsKept, OrderKept, AnswersKept DEF IInv
<1> QED
  BY <1>1, <1>2, PTL DEF Spec

\* Every variable keeps its type, and a handler past the parse holds a message of the kind it
\* dispatches on, whatever was in the buffer.
THEOREM TypeCorrect == Spec => []TypeOK
<1>1. IInv => TypeOK
  BY DEF IInv
<1> QED
  BY <1>1, Invariance, PTL

\* A request is executed on a channel of the peer it is attributed to, although several handlers of one
\* peer may find no channel and each create one.
THEOREM OwnChannels == Spec => []OnOwnChannel
<1>1. IInv => OnOwnChannel
  BY DEF IInv
<1> QED
  BY <1>1, Invariance, PTL

\* A handler that no later datagram overtakes handles its own datagram, under the address of its sender
\* and on a channel to it.
THEOREM OwnDatagrams == Spec => []HandlesItsOwnUnlessOvertaken
<1>1. IInv => HandlesItsOwnUnlessOvertaken
  <2> SUFFICES ASSUME IInv, NEW h \in Handlers \ overtaken
               PROVE  /\ pc[h] \notin {"unborn", "parse"} => msg[h] = got[h] /\ addr[h] = msg[h].src
                      /\ pc[h] \in {"add", "handle", "executed"} => created[channel[h]] = got[h].src
    BY DEF HandlesItsOwnUnlessOvertaken
  <2>1. pc[h] \notin {"unborn", "parse"} => msg[h] = got[h]
    BY DEF IInv, ParsedOwn
  <2>2. pc[h] # "unborn" => addr[h] = got[h].src
    BY DEF IInv, Arrived
  <2>3. pc[h] \in {"add", "handle", "executed"} => created[channel[h]] = addr[h]
    BY DEF IInv, OnOwnChannel
  <2> QED
    BY <2>1, <2>2, <2>3
<1> QED
  BY <1>1, Invariance, PTL

\* A message stops waiting for its answer only when one with its ID was received.
THEOREM OnlyAnswersConfirm == Spec => []ConfirmedByAnswer
<1>1. IInv => ConfirmedByAnswer
  BY DEF IInv
<1> QED
  BY <1>1, Invariance, PTL
=============================================================================
