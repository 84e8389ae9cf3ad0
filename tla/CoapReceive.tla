----------------------------- MODULE CoapReceive -----------------------------
(***************************************************************************)
(* BasicCoapSocketHandler (ws4d-jcoap): from a datagram to the server or   *)
(* client it is meant for.  The worker thread receives every datagram into *)
(* the same dgramBuffer and starts a handler thread for it.  The handler   *)
(* is given the sender's address and the array of that buffer, not a copy; *)
(* it parses the array when it gets to run, checks the packet type, finds  *)
(* or creates the server channel of the sender, confirms the message an    *)
(* answer belongs to, and hands the message on.  Handlers run concurrently *)
(* with each other and with the worker; they share the channel maps,       *)
(* timeoutConMsgMap and the buffer.                                        *)
(***************************************************************************)
EXTENDS Naturals, Sequences, FiniteSets

CONSTANTS
    Peers,           \* remote addresses (with port)
    Datagrams,       \* what the peers may send
    MaxHandlers,     \* bound: handler threads started, one for each datagram received
    Clients,         \* peers this host has a client channel to
    Refused,         \* peers whose connections CoapServer.onAccept refuses
    Ids,             \* message IDs
    Unconfirmed,     \* IDs of the host's CON messages that wait for an answer
    NoPeer, NoDatagram, Garbled

\* What parseMessage reads off a datagram: the code says whether it is a request, a response
\* or empty, or is unknown ("invalid").
Datagram ==
    [src : Peers, kind : {"request", "response", "empty", "invalid"},
     type : {"CON", "NON", "ACK", "RST"}, id : Ids]

Handlers == 1..MaxHandlers

ASSUME ReceiveAssumption ==
    /\ MaxHandlers \in Nat
    /\ Datagrams \subseteq Datagram
    /\ Clients \subseteq Peers /\ Refused \subseteq Peers
    /\ Unconfirmed \subseteq Ids
    /\ NoPeer \notin Peers
    /\ NoDatagram \notin Datagram /\ Garbled \notin Datagram /\ Garbled # NoDatagram

VARIABLES
    incoming,         \* the datagram receive() is writing into dgramBuffer, or NoDatagram
    dgramBuffer,      \* the last datagram written completely
    coapSocketMap,    \* has createServerListener put the socket into the map?
    pc, addr, msg, channel, \* of each handler thread: its step and local variables
    got,              \* history: the datagram each handler was started for
    overtaken,        \* history: handlers not yet done parsing when the next datagram came
    created,          \* the server channels, in the order they were created: their peers
    serverChannels,   \* Peers -> number of the server channel, 0 if there is none
    timeoutConMsgMap, \* IDs of the unconfirmed CON messages
    reset             \* RST messages given to sendMessage

handlerVars == <<pc, addr, msg, channel, got>>
vars == <<incoming, dgramBuffer, coapSocketMap, handlerVars, overtaken, created, serverChannels,
          timeoutConMsgMap, reset>>

Init ==
    /\ incoming = NoDatagram
    /\ dgramBuffer = NoDatagram
    /\ coapSocketMap = FALSE
    /\ pc = [h \in Handlers |-> "unborn"]
    /\ addr = [h \in Handlers |-> NoPeer]
    /\ msg = [h \in Handlers |-> NoDatagram]
    /\ channel = [h \in Handlers |-> 0]
    /\ got = [h \in Handlers |-> NoDatagram]
    /\ overtaken = {}
    /\ created = <<>>
    /\ serverChannels = [p \in Peers |-> 0]
    /\ timeoutConMsgMap = Unconfirmed
    /\ reset = {}

Goto(h, p) == pc' = [pc EXCEPT ![h] = p]

-----------------------------------------------------------------------------
(* The worker thread and the thread that called createServerListener.      *)

\* receive() has a datagram and starts to write it into the buffer.
BeginReceive(d) ==
    /\ incoming = NoDatagram
    /\ incoming' = d
    /\ overtaken' = overtaken \cup {h \in Handlers : pc[h] = "parse"}
    /\ UNCHANGED <<dgramBuffer, coapSocketMap, handlerVars, created, serverChannels,
                   timeoutConMsgMap, reset>>

\* Threads are numbered in the order they are started.
NextHandler == Cardinality({h \in Handlers : pc[h] # "unborn"}) + 1

\* Mutated form: the address is taken from the datagram before.
StartWithOldAddress(h) ==
    /\ incoming # NoDatagram /\ h = NextHandler
    /\ incoming' = NoDatagram
    /\ dgramBuffer' = incoming
    /\ addr' = [addr EXCEPT ![h] = IF dgramBuffer = NoDatagram THEN incoming.src
                                   ELSE dgramBuffer.src]
    /\ got' = [got EXCEPT ![h] = incoming]
    /\ Goto(h, "parse")
    /\ UNCHANGED <<overtaken, coapSocketMap, msg, channel, created, serverChannels,
                   timeoutConMsgMap, reset>>

\* The buffer is written; handleIncommingMessage starts a thread for it.
StartHandler(h) ==
    /\ incoming # NoDatagram /\ h = NextHandler
    /\ incoming' = NoDatagram
    /\ dgramBuffer' = incoming
    /\ addr' = [addr EXCEPT ![h] = incoming.src]
    /\ got' = [got EXCEPT ![h] = incoming]
    /\ Goto(h, "parse")
    /\ UNCHANGED <<overtaken, coapSocketMap, msg, channel, created, serverChannels,
                   timeoutConMsgMap, reset>>

\* createServerListener puts the socket into coapSocketMap after its worker has started.
RegisterListener ==
    /\ ~coapSocketMap
    /\ coapSocketMap' = TRUE
    /\ UNCHANGED <<overtaken, incoming, dgramBuffer, handlerVars, created, serverChannels,
                   timeoutConMsgMap, reset>>

-----------------------------------------------------------------------------
(* HandleIncommingMessageThread.run                                        *)

\* The array is shared with receive(): a parse sees what was written last, and during a
\* write the old, the new or a mixture.
Readable ==
    {dgramBuffer} \cup (IF incoming = NoDatagram THEN {} ELSE {incoming, Garbled})

\* Nothing can be made of a mixture or an unknown code; a datagram that is read with the
\* length of another may not parse either.
Outcomes(m, expected) ==
    (IF m = Garbled \/ m.kind = "invalid" THEN {"dropped"} ELSE {m.kind})
        \cup (IF m # expected THEN {"dropped"} ELSE {})

Parse(h) ==
    /\ pc[h] = "parse"
    /\ \E m \in Readable : \E p \in Outcomes(m, got[h]) :
        /\ Goto(h, p)
        /\ msg' = [msg EXCEPT ![h] = m]
    /\ UNCHANGED <<overtaken, incoming, dgramBuffer, coapSocketMap, addr, channel, got, created,
                   serverChannels, timeoutConMsgMap, reset>>

LegalTypes ==
    [request |-> {"CON", "NON"}, response |-> {"CON", "NON", "ACK"}, empty |-> {"ACK", "RST"}]

\* Is h about to dispatch a message of this kind, with a type such a message may have?
At(h, kind) == pc[h] = kind /\ msg[h].type \in LegalTypes[kind]

\* "Invalid Packet Type": the message is dropped.
DropIllegalType(h) ==
    /\ pc[h] \in DOMAIN LegalTypes /\ msg[h].type \notin LegalTypes[pc[h]]
    /\ Goto(h, "dropped")
    /\ UNCHANGED <<overtaken, incoming, dgramBuffer, coapSocketMap, addr, msg, channel, got, created,
                   serverChannels, timeoutConMsgMap, reset>>

\* A request: look for the sender's server channel.  isRemoteDuplicate comes first and never
\* says yes, because nothing is ever put into duplicateRemoteMap.
FindServerChannel(h) ==
    /\ At(h, "request")
    /\ channel' = [channel EXCEPT ![h] = serverChannels[addr[h]]]
    /\ Goto(h, IF channel'[h] = 0 THEN "create" ELSE "handle")
    /\ UNCHANGED <<overtaken, incoming, dgramBuffer, coapSocketMap, addr, msg, got, created,
                   serverChannels, timeoutConMsgMap, reset>>

\* createServerChannel without a listener in coapSocketMap: socketInfo is null, and the
\* NullPointerException ends the thread.
FailToCreate(h) ==
    /\ pc[h] = "create" /\ ~coapSocketMap
    /\ Goto(h, "crashed")
    /\ UNCHANGED <<overtaken, incoming, dgramBuffer, coapSocketMap, addr, msg, channel, got, created,
                   serverChannels, timeoutConMsgMap, reset>>

\* createServerChannel (synchronized): the server accepts the connection.
CreateServerChannel(h) ==
    /\ pc[h] = "create" /\ coapSocketMap /\ addr[h] \notin Refused
    /\ created' = Append(created, addr[h])
    /\ channel' = [channel EXCEPT ![h] = Len(created')]
    /\ Goto(h, "add")
    /\ UNCHANGED <<overtaken, incoming, dgramBuffer, coapSocketMap, addr, msg, got, serverChannels,
                   timeoutConMsgMap, reset>>

\* The server refuses it: a RST goes back, over a channel made for that.
RefuseConnection(h) ==
    /\ pc[h] = "create" /\ coapSocketMap /\ addr[h] \in Refused
    /\ reset' = reset \cup {[to |-> addr[h], id |-> msg[h].id]}
    /\ Goto(h, "refused")
    /\ UNCHANGED <<overtaken, incoming, dgramBuffer, coapSocketMap, addr, msg, channel, got, created,
                   serverChannels, timeoutConMsgMap>>

AddServerChannel(h) ==
    /\ pc[h] = "add"
    /\ serverChannels' = [serverChannels EXCEPT ![addr[h]] = channel[h]]
    /\ Goto(h, "handle")
    /\ UNCHANGED <<overtaken, incoming, dgramBuffer, coapSocketMap, addr, msg, channel, got, created,
                   timeoutConMsgMap, reset>>

\* channel.handleMessage: the server executes the request.
HandleRequest(h) ==
    /\ pc[h] = "handle"
    /\ Goto(h, "executed")
    /\ UNCHANGED <<overtaken, incoming, dgramBuffer, coapSocketMap, addr, msg, channel, got, created,
                   serverChannels, timeoutConMsgMap, reset>>

\* Mutated form: a separate response confirms too.
SeparateConfirms(h) ==
    /\ At(h, "response") /\ msg[h].type = "CON"
    /\ timeoutConMsgMap' = timeoutConMsgMap \ {msg[h].id}
    /\ Goto(h, IF addr[h] \in Clients THEN "delivered" ELSE "dropped")
    /\ UNCHANGED <<overtaken, incoming, dgramBuffer, coapSocketMap, addr, msg, channel, got, created,
                   serverChannels, reset>>

\* A separate response has an ID of its sender's: it confirms nothing.
HandleSeparateResponse(h) ==
    /\ At(h, "response") /\ msg[h].type = "CON"
    /\ Goto(h, IF addr[h] \in Clients THEN "delivered" ELSE "dropped")
    /\ UNCHANGED <<overtaken, incoming, dgramBuffer, coapSocketMap, addr, msg, channel, got, created,
                   serverChannels, timeoutConMsgMap, reset>>

\* An ACK or NON response confirms the message with its ID, then looks for its client.
HandleResponse(h) ==
    /\ At(h, "response") /\ msg[h].type # "CON"
    /\ timeoutConMsgMap' = timeoutConMsgMap \ {msg[h].id}
    /\ Goto(h, IF addr[h] \in Clients THEN "delivered" ELSE "dropped")
    /\ UNCHANGED <<overtaken, incoming, dgramBuffer, coapSocketMap, addr, msg, channel, got, created,
                   serverChannels, reset>>

\* Mutated form: confirmed only if a channel to the sender is known.
ConfirmIfKnown(h) ==
    /\ At(h, "empty")
    /\ LET known == addr[h] \in Clients \/ serverChannels[addr[h]] # 0
       IN /\ timeoutConMsgMap' = IF known THEN timeoutConMsgMap \ {msg[h].id}
                                 ELSE timeoutConMsgMap
          /\ Goto(h, IF known THEN "delivered" ELSE "dropped")
    /\ UNCHANGED <<overtaken, incoming, dgramBuffer, coapSocketMap, addr, msg, channel, got, created,
                   serverChannels, reset>>

\* An ACK or RST confirms, then goes to the client channel or else the server channel.
HandleEmpty(h) ==
    /\ At(h, "empty")
    /\ timeoutConMsgMap' = timeoutConMsgMap \ {msg[h].id}
    /\ Goto(h, IF addr[h] \in Clients \/ serverChannels[addr[h]] # 0
               THEN "delivered" ELSE "dropped")
    /\ UNCHANGED <<overtaken, incoming, dgramBuffer, coapSocketMap, addr, msg, channel, got, created,
                   serverChannels, reset>>

Handler(h) ==
    \/ Parse(h) \/ DropIllegalType(h)
    \/ FindServerChannel(h) \/ FailToCreate(h) \/ CreateServerChannel(h)
    \/ RefuseConnection(h) \/ AddServerChannel(h) \/ HandleRequest(h)
    \/ HandleSeparateResponse(h) \/ HandleResponse(h) \/ HandleEmpty(h)

Next ==
    \/ \E d \in Datagrams : BeginReceive(d)
    \/ RegisterListener
    \/ \E h \in Handlers : StartHandler(h) \/ Handler(h)

\* A thread that was started runs.  The network owes nothing.
Spec == Init /\ [][Next]_vars /\ \A h \in Handlers : WF_vars(Handler(h))

-----------------------------------------------------------------------------
Steps == {"unborn", "parse", "request", "response", "empty", "create", "add", "handle",
          "executed", "refused", "crashed", "delivered", "dropped"}

\* Every variable holds a value of its type, and a handler past the parse holds a message of
\* the kind it dispatched on.
TypeOK ==
    /\ incoming \in Datagrams \cup {NoDatagram}
    /\ dgramBuffer \in Datagrams \cup {NoDatagram}
    /\ coapSocketMap \in BOOLEAN
    /\ pc \in [Handlers -> Steps]
    /\ addr \in [Handlers -> Peers \cup {NoPeer}]
    /\ msg \in [Handlers -> Datagrams \cup {NoDatagram, Garbled}]
    /\ got \in [Handlers -> Datagrams \cup {NoDatagram}]
    /\ created \in Seq(Peers)
    /\ channel \in [Handlers -> 0..Len(created)]
    /\ serverChannels \in [Peers -> 0..Len(created)]
    /\ timeoutConMsgMap \subseteq Ids
    /\ reset \subseteq [to : Peers, id : Ids]
    /\ \A h \in Handlers :
        /\ pc[h] # "unborn" => addr[h] \in Peers
        /\ pc[h] \in {"request", "create", "add", "handle", "executed", "refused"} =>
            msg[h] \in Datagrams /\ msg[h].kind = "request"
        /\ pc[h] \in {"response", "empty"} =>
            msg[h] \in Datagrams /\ msg[h].kind = pc[h]

\* A request is executed on a channel to the peer it is attributed to, so that the response
\* goes where the request is thought to have come from.
OnOwnChannel ==
    \A h \in Handlers :
        pc[h] \in {"add", "handle", "executed"} =>
            channel[h] # 0 /\ created[channel[h]] = addr[h]

\* The comment in run(): "This is an incoming client request with a message key generated by
\* the remote client".  The key is the ID in the message and the address the worker
\* received it from; they belong together only if the handler parses its own datagram.
HandlesWhatItReceived ==
    \A h \in Handlers :
        pc[h] \notin {"unborn", "parse", "dropped"} =>
            msg[h] = got[h] /\ addr[h] = msg[h].src

\* It does, unless the next datagram came before it was done parsing; and a request is executed on
\* a channel to the peer that sent it, so that the response goes back to where it came from,
\* also when several of the peer's requests find no channel and each creates one.
HandlesItsOwnUnlessOvertaken ==
    \A h \in Handlers \ overtaken :
        /\ pc[h] \notin {"unborn", "parse"} => msg[h] = got[h] /\ addr[h] = msg[h].src
        /\ pc[h] \in {"add", "handle", "executed"} => created[channel[h]] = got[h].src

\* The comment in run(): "check for duplicates and retransmit the response if a duplication
\* is detected".  A request with one and the same message key is executed once.
ExecutedOnce ==
    \A g, h \in Handlers \ overtaken :
        /\ pc[g] = "executed" /\ pc[h] = "executed"
        /\ addr[g] = addr[h] /\ msg[g].id = msg[h].id
        => g = h

\* An answer: an ACK, a RST, or a response that is not a CON of the remote's own.
IsAnswer(d) ==
    \/ d.kind = "empty" /\ d.type \in {"ACK", "RST"}
    \/ d.kind = "response" /\ d.type \in {"ACK", "NON"}

\* A message stops waiting for its answer only when one with its ID was received, whatever
\* the handlers made of the buffer.
ConfirmedByAnswer ==
    \A id \in Unconfirmed \ timeoutConMsgMap :
        \E h \in Handlers : msg[h] \in Datagrams /\ IsAnswer(msg[h]) /\ msg[h].id = id

\* h is about to parse a legal message of this kind.
Parsing(h, kind) ==
    pc[h] = "parse" /\ got[h].kind = kind /\ got[h].type \in LegalTypes[kind]

\* Once the listener is registered, a legal request is executed or refused with a RST on its
\* first arrival, and an ACK or RST confirms its message whether or not a channel to the
\* sender is known; unless the next datagram overtakes the parser.
EachIsServed ==
    /\ \A h \in Handlers :
        Parsing(h, "request") /\ coapSocketMap ~> pc[h] \in {"executed", "refused"} \/ h \in overtaken
    /\ \A h \in Handlers :
        Parsing(h, "empty") ~>
            (got[h] # NoDatagram /\ got[h].id \notin timeoutConMsgMap) \/ h \in overtaken
=============================================================================
