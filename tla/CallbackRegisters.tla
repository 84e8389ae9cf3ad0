-------------------------- MODULE CallbackRegisters --------------------------
(***************************************************************************)
(* EnOceanRegisters, EnOceanDispatcher and EnOceanClientNotifier (ga-web): *)
(* web clients register callback URLs for a measure, and every telegram    *)
(* with a new value of the measure is posted to them.                      *)
(*                                                                         *)
(* Requests are served by the threads of the servlet container and by the  *)
(* handler threads of the CoAP server, telegrams by the one thread that    *)
(* reads the serial port.  They share three collections without a lock:    *)
(* the map registers from a measure's URL to its list of callbacks, these  *)
(* lists, and the dispatcher's map m_Listening from the URL to the measure.*)
(* The reading thread iterates over the live m_Listening and over a live   *)
(* list; the iterators of HashMap and ArrayList notice a change only when  *)
(* next() is called, and nobody catches the exception it throws then: it   *)
(* ends the reading thread.  A call of a collection is one step.           *)
(***************************************************************************)
EXTENDS Naturals, Sequences, SequencesExt

CONSTANTS
    Threads,      \* threads that serve requests
    Urls,         \* functionality.location/action of a measure
    Measures,
    MeasureOf,    \* Urls -> Measures; a sensor of two groups has two URLs for one measure
    Callbacks,    \* http URLs; openConnection of another scheme is not an HttpURLConnection
    Requests,     \* Threads -> the requests it may get to serve
    NoRequest, NoUrl, NoMeasure, NoCallback

Request == [op : {"add", "remove"}, url : Urls, callback : Callbacks]

ASSUME RegistersAssumption ==
    /\ MeasureOf \in [Urls -> Measures]
    /\ Requests \in [Threads -> SUBSET Request]
    /\ NoRequest \notin Request
    /\ NoUrl \notin Urls /\ NoMeasure \notin Measures /\ NoCallback \notin Callbacks

VARIABLES
    lists,        \* the callback lists created so far; a list is known by its number
    registers,    \* Urls -> its list, 0 if the map has none
    m_Listening,  \* the URLs that are keys of the map
    pc, request, list,  \* of each thread: its step, and the list it got from registers
    bus,          \* the reading thread: "idle", inside radioTelegram, or "dead"
    measure,      \* the measure it dispatches
    unvisited,    \* keys of m_Listening the iterator has not returned yet
    url,          \* urlMeasure
    iterated, cursor, callback,   \* the list it iterates over, how far, and callbackUrl
    tableChanged, listChanged,    \* has the modCount changed under an iterator?
    posted,       \* history: <<url, callback>> posted in this dispatch
    steady,       \* history: <<url, callback>> registered for all of this dispatch so far
    disturbed,    \* history: something was registered or unregistered during this dispatch
    overlapped    \* history: URLs two requests worked on at the same time

webVars == <<lists, registers, m_Listening, pc, request, list, overlapped>>
busVars == <<bus, measure, unvisited, url, iterated, cursor, callback, posted>>
vars == <<webVars, busVars, tableChanged, listChanged, steady, disturbed>>

Init ==
    /\ lists = <<>>
    /\ registers = [u \in Urls |-> 0]
    /\ m_Listening = {}
    /\ pc = [t \in Threads |-> "idle"]
    /\ request = [t \in Threads |-> NoRequest]
    /\ list = [t \in Threads |-> 0]
    /\ bus = "idle" /\ measure = NoMeasure /\ unvisited = {} /\ url = NoUrl
    /\ iterated = 0 /\ cursor = 0 /\ callback = NoCallback
    /\ tableChanged = FALSE /\ listChanged = FALSE
    /\ posted = {} /\ steady = {} /\ disturbed = FALSE /\ overlapped = {}

Dispatching == bus \notin {"idle", "dead"}

\* The callbacks registered for a URL.
Registered(u) == IF registers[u] = 0 THEN <<>> ELSE lists[registers[u]]

-----------------------------------------------------------------------------
(* The threads that serve requests.                                        *)

Goto(t, p) == pc' = [pc EXCEPT ![t] = p]

\* The call returns.
Return(t) ==
    /\ Goto(t, "idle")
    /\ request' = [request EXCEPT ![t] = NoRequest]
    /\ list' = [list EXCEPT ![t] = 0]

Continue(t, p) == Goto(t, p) /\ UNCHANGED <<request, list>>

\* What a change of a collection means to the reading thread.
Disturb == disturbed' = (disturbed \/ Dispatching)
NothingDisturbed == UNCHANGED <<tableChanged, listChanged, steady, disturbed>>

\* A request r that has found the list l goes on at p.
Begin(t, r, l, p) ==
    /\ Goto(t, p)
    /\ request' = [request EXCEPT ![t] = r]
    /\ list' = [list EXCEPT ![t] = l]
    /\ overlapped' = IF \E s \in Threads : pc[s] # "idle" /\ request[s].url = r.url
                     THEN overlapped \cup {r.url} ELSE overlapped
    /\ NothingDisturbed
    /\ UNCHANGED <<lists, registers, m_Listening, busVars>>

\* addRegister: does the map contain the URL, and what is its list?
FindCallbacks(t, r) ==
    /\ pc[t] = "idle" /\ r.op = "add"
    /\ Begin(t, r, registers[r.url], IF registers[r.url] = 0 THEN "create" ELSE "test")

\* A new list with the callback is put into the map; the listener comes after it.
CreateCallbacks(t) ==
    /\ pc[t] = "create"
    /\ lists' = Append(lists, <<request[t].callback>>)
    /\ registers' = [registers EXCEPT ![request[t].url] = Len(lists')]
    /\ Continue(t, "listenNew")
    /\ Disturb
    /\ UNCHANGED <<m_Listening, overlapped, busVars, tableChanged, listChanged, steady>>

\* Mutated form: a list that has become empty is not told from the others.
TestNothing(t) ==
    /\ pc[t] = "test"
    /\ Continue(t, "compare")
    /\ NothingDisturbed
    /\ UNCHANGED <<lists, registers, m_Listening, overlapped, busVars>>

\* callbacks.size() == 0: an empty list has no listener any more.
TestEmpty(t) ==
    /\ pc[t] = "test"
    /\ Continue(t, IF lists[list[t]] = <<>> THEN "listen" ELSE "compare")
    /\ NothingDisturbed
    /\ UNCHANGED <<lists, registers, m_Listening, overlapped, busVars>>

\* callbacks.contains(callbackUrl): a callback is not added twice.
CompareCallbacks(t) ==
    /\ pc[t] = "compare"
    /\ IF request[t].callback \in ToSet(lists[list[t]])
       THEN Return(t) ELSE Continue(t, "append")
    /\ NothingDisturbed
    /\ UNCHANGED <<lists, registers, m_Listening, overlapped, busVars>>

\* addEnOceanListener: m_Listening.put.  Only a new key changes the structure of the map.
AddMeasureListener(t) ==
    /\ pc[t] \in {"listen", "listenNew"}
    /\ m_Listening' = m_Listening \cup {request[t].url}
    /\ IF pc[t] = "listen" THEN Continue(t, "append") ELSE Return(t)
    /\ tableChanged' = (Dispatching /\ (tableChanged \/ request[t].url \notin m_Listening))
    /\ Disturb
    /\ UNCHANGED <<lists, registers, overlapped, busVars, listChanged, steady>>

\* callbacks.add(callbackUrl)
AddCallback(t) ==
    /\ pc[t] = "append"
    /\ lists' = [lists EXCEPT ![list[t]] = Append(@, request[t].callback)]
    /\ Return(t)
    /\ listChanged' = (listChanged \/ list[t] = iterated)
    /\ Disturb
    /\ UNCHANGED <<registers, m_Listening, overlapped, busVars, tableChanged, steady>>

\* removeRegister: the list of the URL.  If it has none, nothing happens.
FindList(t, r) ==
    /\ pc[t] = "idle" /\ r.op = "remove" /\ registers[r.url] # 0
    /\ Begin(t, r, registers[r.url], "search")

\* Is the callback in the list?
SearchCallback(t) ==
    /\ pc[t] = "search"
    /\ IF request[t].callback \in ToSet(lists[list[t]])
       THEN Continue(t, "drop") ELSE Return(t)
    /\ NothingDisturbed
    /\ UNCHANGED <<lists, registers, m_Listening, overlapped, busVars>>

\* callbacks.remove(callbackUrl), the first one of that name; a second remover finds none.
RemoveCallback(t) ==
    /\ pc[t] = "drop"
    /\ LET c == request[t].callback
           found == c \in ToSet(lists[list[t]])
       IN /\ lists' = IF found THEN [lists EXCEPT ![list[t]] = RemoveFirst(@, c)] ELSE lists
          /\ listChanged' = (listChanged \/ (found /\ list[t] = iterated))
          /\ steady' = steady \ {<<request[t].url, c>>}
    /\ Continue(t, "removed")
    /\ Disturb
    /\ UNCHANGED <<registers, m_Listening, overlapped, busVars, tableChanged>>

\* Mutated form: the listener stays when the last callback goes.
KeepListening(t) ==
    /\ pc[t] = "removed"
    /\ Return(t)
    /\ NothingDisturbed
    /\ UNCHANGED <<lists, registers, m_Listening, overlapped, busVars>>

\* callbacks.size() == 0?
CheckEmpty(t) ==
    /\ pc[t] = "removed"
    /\ IF lists[list[t]] = <<>> THEN Continue(t, "unlisten") ELSE Return(t)
    /\ NothingDisturbed
    /\ UNCHANGED <<lists, registers, m_Listening, overlapped, busVars>>

\* removeEnOceanListener: m_Listening.remove.
RemoveMeasureListener(t) ==
    /\ pc[t] = "unlisten"
    /\ m_Listening' = m_Listening \ {request[t].url}
    /\ Return(t)
    /\ tableChanged' = (Dispatching /\ (tableChanged \/ request[t].url \in m_Listening))
    /\ steady' = {p \in steady : p[1] # request[t].url}
    /\ Disturb
    /\ UNCHANGED <<lists, registers, overlapped, busVars, listChanged>>

Web(t) ==
    \/ CreateCallbacks(t) \/ TestEmpty(t) \/ CompareCallbacks(t)
    \/ AddMeasureListener(t) \/ AddCallback(t)
    \/ SearchCallback(t) \/ RemoveCallback(t) \/ CheckEmpty(t) \/ RemoveMeasureListener(t)

-----------------------------------------------------------------------------
(* The thread that reads the serial port.                                  *)

\* radioTelegram has stored a new value of m, and starts to look for listeners.
Dispatch(m) ==
    /\ bus = "idle"
    /\ bus' = "next" /\ measure' = m
    /\ unvisited' = m_Listening /\ tableChanged' = FALSE
    /\ posted' = {} /\ disturbed' = FALSE
    /\ steady' = {p \in m_Listening \X Callbacks :
                    MeasureOf[p[1]] = m /\ p[2] \in ToSet(Registered(p[1]))}
    /\ UNCHANGED <<webVars, url, iterated, cursor, callback, listChanged>>

\* The dispatch is over.
Finish ==
    /\ bus' = "idle" /\ measure' = NoMeasure /\ unvisited' = {} /\ url' = NoUrl
    /\ iterated' = 0 /\ cursor' = 0 /\ callback' = NoCallback
    /\ tableChanged' = FALSE /\ listChanged' = FALSE
    /\ posted' = {} /\ steady' = {} /\ disturbed' = FALSE

\* An exception nobody catches leaves radioTelegram and SerialComm.run.
Die ==
    /\ bus' = "dead"
    /\ measure' = NoMeasure /\ unvisited' = {} /\ url' = NoUrl
    /\ iterated' = 0 /\ cursor' = 0 /\ callback' = NoCallback
    /\ tableChanged' = FALSE /\ listChanged' = FALSE
    /\ posted' = {} /\ steady' = {} /\ UNCHANGED disturbed

\* The iterator over m_Listening.keySet().
NextUrl ==
    /\ bus = "next"
    /\ \/ unvisited = {} /\ Finish
       \/ unvisited # {} /\ tableChanged /\ Die
       \/ /\ unvisited # {} /\ ~tableChanged
          /\ \E u \in unvisited : url' = u /\ unvisited' = unvisited \ {u}
          /\ bus' = "get"
          /\ UNCHANGED <<measure, iterated, cursor, callback, posted>>
          /\ NothingDisturbed
    /\ UNCHANGED webVars

\* m_Listening.get(urlMeasure) == measureDesc.getIdMeasure(): a URL removed since then gives
\* null, which cannot be compared with an int.
GetMeasure ==
    /\ bus = "get"
    /\ \/ url \notin m_Listening /\ Die
       \/ /\ url \in m_Listening
          /\ bus' = IF MeasureOf[url] = measure THEN "list" ELSE "next"
          /\ UNCHANGED <<measure, unvisited, url, iterated, cursor, callback, posted>>
          /\ NothingDisturbed
    /\ UNCHANGED webVars

\* notifyClient starts to iterate over the list itself.
GetCallbacks ==
    /\ bus = "list"
    /\ bus' = "notify"
    /\ iterated' = registers[url] /\ cursor' = 0 /\ listChanged' = FALSE
    /\ UNCHANGED <<webVars, measure, unvisited, url, callback, posted, tableChanged, steady,
                   disturbed>>

\* The next callback of the list is taken.
TakeCallback ==
    /\ bus' = "post"
    /\ cursor' = cursor + 1 /\ callback' = lists[iterated][cursor + 1]
    /\ UNCHANGED <<measure, unvisited, url, iterated, posted>>
    /\ NothingDisturbed

\* Mutated form: the last callback is left out.
NextCallbackButLast ==
    /\ bus = "notify"
    /\ IF cursor + 1 >= Len(lists[iterated]) THEN Finish ELSE IF listChanged THEN Die ELSE TakeCallback
    /\ UNCHANGED webVars

\* Mutated form: the loop takes one callback too many.
NextCallbackPastEnd ==
    /\ bus = "notify"
    /\ IF cursor > Len(lists[iterated]) THEN Finish
       ELSE IF cursor = Len(lists[iterated]) \/ listChanged THEN Die ELSE TakeCallback
    /\ UNCHANGED webVars

\* Mutated form: a list that has changed is notified from its start again.
NextCallbackOrRestart ==
    /\ bus = "notify"
    /\ IF cursor = Len(lists[iterated]) THEN Finish
       ELSE IF ~listChanged THEN TakeCallback
       ELSE /\ cursor' = 0 /\ listChanged' = FALSE
            /\ UNCHANGED <<bus, measure, unvisited, url, iterated, callback, posted, tableChanged,
                           steady, disturbed>>
    /\ UNCHANGED webVars

\* hasNext() compares the cursor with the size of the list, next() the modCounts.  After the
\* last callback the loop over the URLs is left with a break: one URL of a measure is served.
NextCallback ==
    /\ bus = "notify"
    /\ \/ cursor = Len(lists[iterated]) /\ Finish
       \/ cursor # Len(lists[iterated]) /\ listChanged /\ Die
       \/ cursor # Len(lists[iterated]) /\ ~listChanged /\ TakeCallback
    /\ UNCHANGED webVars

\* The request to the client; its failure is logged.  It has no timeout.
Post ==
    /\ bus = "post"
    /\ bus' = "notify"
    /\ posted' = posted \cup {<<url, callback>>}
    /\ UNCHANGED <<webVars, measure, unvisited, url, iterated, cursor, callback, tableChanged,
                   listChanged, steady, disturbed>>

Bus == NextUrl \/ GetMeasure \/ GetCallbacks \/ NextCallback

Next ==
    \/ \E t \in Threads : \E r \in Requests[t] : FindCallbacks(t, r) \/ FindList(t, r)
    \/ \E t \in Threads : Web(t)
    \/ \E m \in Measures : Dispatch(m)
    \/ Bus \/ Post

\* Threads run.  Clients need not send requests, sensors no telegrams, and a client may leave
\* the request of its callback unanswered for ever.
Spec ==
    /\ Init /\ [][Next]_vars
    /\ WF_vars(Bus) /\ \A t \in Threads : WF_vars(Web(t))

-----------------------------------------------------------------------------
Steps == {"idle", "create", "listenNew", "test", "compare", "listen", "append",
          "search", "drop", "removed", "unlisten"}

\* Every variable holds a value of its type.  What is listened to has a list.
TypeOK ==
    /\ lists \in Seq(Seq(Callbacks))
    /\ registers \in [Urls -> 0..Len(lists)]
    /\ m_Listening \subseteq Urls
    /\ \A u \in m_Listening : registers[u] # 0
    /\ pc \in [Threads -> Steps]
    /\ request \in [Threads -> Request \cup {NoRequest}]
    /\ list \in [Threads -> 0..Len(lists)]
    /\ \A t \in Threads :
        /\ pc[t] = "idle" <=> request[t] = NoRequest
        /\ pc[t] \notin {"idle", "create", "listenNew"} => list[t] # 0
    /\ bus \in {"idle", "next", "get", "list", "notify", "post", "dead"}
    /\ measure \in Measures \cup {NoMeasure} /\ unvisited \subseteq Urls
    /\ url \in Urls \cup {NoUrl} /\ callback \in Callbacks \cup {NoCallback}
    /\ iterated \in 0..Len(lists) /\ cursor \in Nat
    /\ tableChanged \in BOOLEAN /\ listChanged \in BOOLEAN
    /\ posted \subseteq Urls \X Callbacks /\ steady \subseteq Urls \X Callbacks
    /\ disturbed \in BOOLEAN /\ overlapped \subseteq Urls

\* No request is at work on u, and never were two at once.
Settled(u) ==
    u \notin overlapped /\ \A t \in Threads : pc[t] # "idle" => request[t].url # u

\* addRegister and removeRegister keep two tables: a URL is listened to exactly while it has
\* callbacks, and no callback is in its list twice, so that one removeRegister takes it out;
\* unless two requests were at work on the same URL at once.
ListensWhileRegistered ==
    \A u \in Urls : Settled(u) =>
        /\ u \in m_Listening <=> Registered(u) # <<>>
        /\ IsInjective(Registered(u))

\* The reading thread never dies of the registrations, unless one fell into its dispatch.
DiesOnlyDisturbed == bus = "dead" => disturbed

\* The measure is listened to under one URL only.
OneUrl == \A u, v \in m_Listening : MeasureOf[u] = measure /\ MeasureOf[v] = measure => u = v

\* "notify clients": when the dispatch of a value is over, every callback that was registered
\* for all of it has been posted to; unless registrations changed in the meantime.
NotifiesAll ==
    [][Dispatching /\ bus' = "idle" /\ ~disturbed /\ OneUrl => steady \subseteq posted]_vars

\* The same, whoever else registers or unregisters in the meantime, one request at a time.
NotifiesClients ==
    [][Dispatching /\ bus' = "idle" /\ OneUrl /\ overlapped = {} => steady \subseteq posted]_vars

\* A dispatch comes to its end, if the callbacks' clients answer: registrations that go on
\* and on cannot keep the reading thread busy for ever.
DispatchEnds == WF_vars(Post) => (Dispatching ~> ~Dispatching)
=============================================================================
