# TLA+ models of the Web of Things gateways

This directory is a verification development of the gateways in this repository: TLA+ modules
translated from the Java source of the gateways and the JavaScript of their web pages, TLC
configurations that check them on small instances, and proofs that TLAPS checks for every
instance. `PROJECT.json` maps each definition to the lines
it stands for and lists runs, mutated forms, findings, hazards and theorems.

Read the sections "The system" and "What is modelled" first; "Runs" says what TLC shows,
"Proofs" what is proved and from what.

## The system

Two gateways, deployed as one web application (`ga-web`), make field devices available over
HTTP and CoAP. EnOcean telegrams come in through a serial port (`EOLibrary`), KNX group
telegrams through a KNXnet/IP link (`KNXLibrary`, on top of the calimero library). CoAP is
spoken by `ws4d-jcoap`. Values, sensors, groups and clients are kept in an SQL database. Both
gateways have pages for administrators and users, written in JavaScript on top of jQuery, jQuery
UI and Bootstrap; the copies of these libraries in the repository are part of what runs.

| Component | State it keeps | Operations | What is hard | What makes it correct |
|---|---|---|---|---|
| CoAP socket handler, sending (`BasicCoapSocketHandler`) | `sendBuffer`, selector, `dgramChannel` | `sendMessage`, the worker's loop, `close` | any thread sends; the worker sleeps without a lock; close at any moment | no message stranded, first in first out, nothing sent after close, the worker ends |
| CoAP socket handler, reliability | `timeoutConMsgMap`, `timeoutQueue`, counter and timeout of each CON message | send, retransmit, give up, confirm | answers are confirmed by other threads in the middle of a retransmission | one timer per message, every CON message confirmed or lost, silence after an answer |
| `TimeoutHashMap` | map and queue with expiries | `put`, `get`, `remove`, `update` | map and queue change in separate steps, two clock readings | never throws, nothing expired left, looks like an expiring map |
| CoAP socket handler, receiving | one datagram buffer, one thread per datagram, channel maps | parse, dispatch, find or create a channel, confirm | handlers race with each other, with the worker and with the start | a message is handled as what it is and from whom it came; only answers confirm |
| CoAP server channel and resources (`CoapResourceServer`, `BasicCoapResource`) | resource tree, observers, sequence numbers | GET/PUT/POST/DELETE, observe, `changed` | handlers and notifying threads share maps | each observer gets each new value, numbers do not repeat |
| CoAP client channel (`BasicCoapClientChannel`) | block context, last request | request, response, next block, separate response | lost and repeated blocks | the payload is the concatenation of the blocks |
| EnOcean serial receiver (`SerialComm`, `RawTelegram`) | state of the byte machine | `getTelegram` | checksum errors, resynchronisation, signed bytes | each intact telegram is delivered, whatever garbage came before |
| EnOcean dispatcher, registers, notifier | `m_Listening`, `registers`, lists of callbacks | `addRegister`, `removeRegister`, `radioTelegram`, `notifyClient` | three collections without a lock, iterated live by the one reading thread | a callback registered is notified; registrations do not end the reading thread |
| EnOcean storage | SQL tables | clients, data rows, last value | several statements without a transaction | what is referred to exists; a client's data is kept while it needs it |
| KNX communication and management (`KNXComm`, `KNXManagement`) | one link, listeners | open, read, write, close, `notifyListeners` | threads open and close concurrently | at most one link, each group write notified once |
| KNX storage | SQL tables | register, remove, `update` | as for EnOcean | as for EnOcean |
| EnOcean pages (`enocean/js/script.js`) | hidden inputs, panels, forms, cookies, calls under way | each click and each callback of a call | answers come in any order, into what the hidden inputs name by then | what is shown is current, what is saved goes to the row it came from |
| jQuery (`jquery-latest.js`): deferreds, `ajax`, effects, events, data | lists of handlers, requests, queues and timers, handlers and ids of elements | `then`, `when`, `abort`, `stop`, `finish`, `on`, `trigger`, `cleanData` | handlers call all of these while a loop is under way, and may throw | handlers called once and in order, calls end once, queues move on |
| Date and time picker, pop-ups, accordion | calendar, sliders and field; transitions and timeouts | open, close, pick, type; show, hide | each keeps an idea of its own; clicks in the middle of transitions | the field says what was picked; what is shown comes to rest |
| KNX configuration page (`knx/configuration.html`, `knx/js/script.js`, `AdminServlet`) | token, cookie, form | login, load, discover, edit, send | two calls fill one form in any order; logins renew the one token | the token is the valid one, the form shows the configuration |
| Servlets, DNS, discovery, EEP and ETS files | none that outlives a request, or files | parsing, XML | — | — |

How they interact:

* A servlet or a CoAP handler thread parses a request and calls storage and registers
  directly, in its own thread. The servlet container runs many of them.
* The serial thread calls `EnOceanDispatcher.radioTelegram` synchronously, which writes rows
  and posts to the callbacks, one after the other, before the next telegram is read.
* The worker thread of a CoAP socket is the only one that uses the socket. It starts one
  handler thread per datagram; handler threads share the channel maps and
  `timeoutConMsgMap` with it.
* `CoapResourceServer` sends notifications through the same `sendMessage` as responses.
* A page calls `RestInterface` (EnOcean) or `AdminServlet` (KNX) with `$.ajax`; several calls are
  under way at once, and their callbacks run one at a time, in the order of the answers.

## Plan

Modules in the order of importance; those with a result in the last column are written.

| # | Module | Subject | Status |
|---|---|---|---|
| 1 | `Outbox`, `CoapSendBuffer` | the send path and close; implements the abstract outbox | checked, proved |
| 2 | `CoapRetransmission` | reliable transmission | checked, proved |
| 3 | `ExpiringMap`, `TimeoutHashMap` | the map behind 2; implements the abstract expiring map | checked, proved |
| 4 | `CoapReceive` | from datagram to handler | checked, proved in 7 |
| 5 | `CallbackRegisters` | EnOcean registrations against dispatch | checked, proved in 7 |
| 6 | `EnOceanTables`, `MeasureStorage`, `SensorAdmin`, `LocationAdmin`, `EnOceanStorage` | the SQL tables under clients, administrators and telegrams, one statement a step | checked, proved |
| 7 | `CoapSocketHandlerProofs`, `CallbackRegistersProofs` | channels belong to their peers, only answers confirm; lists and listeners in step | proved |
| 7a | `EnOceanStorageProofs` | types and keys of the tables; values, clients and groups; paths of the locations | proved |
| 8 | `WebRequests`, `SensorPanel`, `GroupPanel`, `LocationPanel`, `UserPanel`, `LoginPage`, `ConfigPanel`, `SearchPanel`, `GraphPage`, `WebFrontEnd` | the EnOcean pages, their calls and what the servlet makes of them | checked, in part proved in 8a |
| 8a | `WebFrontEndProofs` | forms saved in the row they were filled from, cookies of one account, points at their dates | proved |
| 9 | `Promises`, `JQueryDeferred`, `JQueryAjax`, `JQueryFx`, `JQueryEvents`, `JQueryData` | the parts of jQuery that keep state; deferreds implement the abstract promises | checked, in part proved in 10a |
| 10 | `TimePicker`, `BootstrapModal`, `BootstrapCollapse`, `KnxConfigPage`, `WebLibraries` | widgets of the pages, the KNX page; composition of 9 and 10 | checked, in part proved in 10a |
| 10a | `WebLibrariesProofs`, `WidgetProofs` | data apart, requests end once, the KNX form agrees with the configuration; the refinement of `Promises`; the field says what was picked, pop-ups and accordion come to rest | proved |
| 11 | `TelegramReceiver` | the serial byte machine: checksum, resynchronisation, signed lengths. Abstract specification: the telegrams of a stream | to do |
| 12 | `ObservableResource` | observers of a resource, notifications, replacement by PUT, wrap of the sequence number | to do |
| 13 | `BlockwiseClient` | block transfers and separate responses of a client channel, over a lossy network | to do |
| 14 | `KNXConnection` | one link, opened and closed by many; listeners | to do |
| 15 | `KNXStorage` | datapoints, clients and values; as 6 | to do |

What is hard in the modules to do, for whoever writes them: `changed()` iterates over the
observers that handlers add and remove (`BasicCoapResource.java:120`), a PUT replaces the
resource and forgets its observers (`CoapResourceServer.java:236`), and `doPut` and `doPost` look a
resource up and create it in two steps (228); the block context of a client channel
(`BasicCoapClientChannel`) is replaced by a second request; the byte machine loses the telegram
that begins in a wrong checksum (`SerialComm.java:390`); two threads may open two links
(`KNXComm.java:109`). Theorems worth proving next:
`UntouchedEepKept` and `ShownIsCurrent` of the pages, for which the frame of `WebFrontEndProofs` is ready,
`EventsReachOnce` and `QueueMovesOn`.

## What is modelled

Every module is parameterised by constants with named assumptions; the configurations give them
values, with the help of an MC module where an instance needs definitions of its own. A step of a module is one access to shared state of the program; what a thread does
between two such accesses is part of the step. One call of a collection (`HashMap`,
`ArrayList`, `ConcurrentLinkedQueue`) counts as one step: its internal races are not modelled.

### Outbox and CoapSendBuffer

`CoapSendBuffer` has the threads that call `sendMessage` (`AddMessage` enters the synchronized
method and offers to the queue, `WakeupSelector` wakes and leaves it) and the worker, whose
`workerAt` follows `WorkerThread.run`: `LoopHead`, `Poll` and `Send` (`sendBufferedMessages`),
`Receive`, `HandleTimeouts`, `SelectReturns` or `SelectTimesOut`. `close()` takes two steps,
`CloseSocket` and `ForgetChannel`, because the worker may look at `dgramChannel` in between:
it then ends its loop, or dies of a ClosedChannelException or a NullPointerException. `wakeup`
is sticky, as documented for `Selector.wakeup`. `added` and `sent` are history variables.

`Outbox` is what the users of the send path may rely on: messages accepted are transmitted in
order until the box closes, and nothing after that. `CoapSendBuffer` implements it with
`accepted <- added, transmitted <- sent`.

### CoapRetransmission

The worker again, now with what `sendUdpMsg` and `handleTimeouts` do to `timeoutConMsgMap`,
`timeoutQueue` and the counters of a message, and the handler threads' confirmation. A message
that the worker took out of the map and is about to send again is `inHand`: the window in
which a confirmation finds the map entry gone or is overwritten. The network is
external: a datagram reaches the remote or not, answers come at any later time, more than once
or never (`Confirm`). `ConfirmByCollision` is a NON response of a remote that carries an ID the
worker is waiting on. Timers count down (`Tick`), so that the state stays finite; the worker
serves them up to `MaxDelay` late, and `Tick` is not enabled while that would be exceeded.
Uniqueness of message IDs is assumed: the real counter has 65536 values, an entry lives for
120 s, so it takes more than 500 messages a second to meet an old one.

### ExpiringMap and TimeoutHashMap

`put`, `remove` and `clear` are one step each; `update()` is a step per element polled from the
queue and another one for the re-put of an entry that has been renewed, since other threads
remove keys in between (`SharedKeys`) and since the code reads the clock twice. `ExpiringMap`
has no queue and no `update`: an entry is there until it is removed, overridden or expired.
`TimeoutHashMap` implements it for the keys the worker alone removes, with what `get` would
return as the refinement mapping. For a shared key it does not: `remove` between the two steps
of `update()` is lost when the entry is put back. The history variable `lastCall` makes the
abstract map say which call it answers.

### CoapReceive

`BeginReceive` and `StartHandler` split the receive of the worker at the moment the shared
`dgramBuffer` is overwritten; a handler's `Parse` may fall before or after, or meet a mixture
(`Garbled`, which parses as anything). Then one step per access to the shared maps:
`FindServerChannel`, `CreateServerChannel` (with the `onAccept` of the application, which may
refuse), `AddServerChannel`, `HandleRequest`, `HandleResponse`, `HandleSeparateResponse`,
`HandleEmpty`. `RegisterListener` is the moment `createServerListener` registers the socket,
after its worker was started. `FailToCreate` is the NullPointerException of a request before
that. `got`, `overtaken` and `created` are history variables.

What the class `BasicMulticastSocketHandler` copies from the unicast handler is not claimed.

### CallbackRegisters

The map `registers`, its list objects (`lists`, a heap, since two threads may create two lists
for one URL and one of them is lost), `m_Listening`, threads inside `addRegister` and
`removeRegister` with one step per collection call, and the reading thread inside
`radioTelegram`. Iterators are modelled as the collections implement them: a change sets
`tableChanged` or `listChanged`, and the next call of `next()` throws, while `hasNext()` of a
list compares the cursor with the current size. Nothing up to `SerialComm.run` catches the
exception, so that the thread is `dead`. The callbacks are http URLs. The decoding of a
telegram and the rows it writes are left out. `posted`, `steady`, `disturbed` and `overlapped`
are history variables.

The KNX side has the same `addRegister` and `removeRegister`; it iterates over entries, and in
a thread of the calimero library. The module is not claimed of it.

### EnOceanTables, MeasureStorage, SensorAdmin, LocationAdmin, EnOceanStorage

`EnOceanTables` holds the tables in one record `db`: groups, sensors, links, measures, clients,
values (each with `older`, the set of values stored
before it, which is what the code reads off the growing keys) and locations. `EnOceanStorage.java` opens one
connection in autocommit mode and prepares one statement after the other, so that a statement
is a step and a call is several (`pc`, `frame`). `Consistent` is what the keys of the SQL
script demand (the code calls the script's table `client` `storage_client`; they are taken for one); `Execute` refuses a statement whose result would break them, and the thread
gives up its call. Two statements are merged where the first only decides whether the second
would do nothing (the count of clients before their deletion), and look-ups of users, types and
manufacturers, which nothing here changes, are left out. `DeleteValues` takes rows out of the table
and out of `older` of those that stay. Behaviours begin with tables as the calls leave them
(`ScenariosAssumption`, `Settled`): each measure points to its newest value, one without clients has
no other, each sensor is in a group, each location but a root has the path of the tree. The thread
that reads telegrams is none of those of the administration (`ReaderAssumption`). A value carries its age in days,
which `Midnight` increases, up to one more than any client asks for.

* `MeasureStorage`: `addClient` (`FindClient`, then `UpdateClient` or `InsertClient`),
  `removeClient` (`RemoveClient`), `deleteDataMeasure` (`CheckClients`, then `DeleteData`, or
  `SelectMaxDays` and `ShrinkData`), and the dispatcher's work on a telegram: `AddStorage`,
  `SetLastMeasureData` and `deleteDataMeasure` for each measure. A client is one thread: two
  simultaneous calls with the same session are not modelled.
* `SensorAdmin`: groups and sensors. `deleteSensor`, `deleteGroup` and `updateSensor` share the
  steps that take a measure apart; `frame.op` says where they go on and what they do
  differently: `ClearLast` always throws in `deleteGroup`, `ReadLocation` has another default,
  `InsertMeasure` survives exceptions in `updateSensor` only. `updateSensor` changes location and address.
* `LocationAdmin`: the tree. `getLocationPath` reads one name a statement; the recursion of
  `updateChildsPath` is the list `frame.pending`. A new row is not its own parent: the page
  offers existing ones.
* `EnOceanStorage` lets all of these threads run against each other, and keeps the history
  variables (`overtaken`, `disturbed`, `broken`, `overlapped`) apart from the steps, in
  `Record`.

### The EnOcean pages: WebRequests and WebFrontEnd

JavaScript runs one handler at a time, so that a click, or the callback of a call, is one step
with all that it calls. `WebRequests` has the calls under way: a click or a callback makes them,
the servlet answers each at some later moment out of the rows it holds then (`Answer`), and the
browser hands an answer to its callback in any order. Calls may fail before or after the servlet
has executed them (`AnswerBadly`, `Executed`), and be refused (`Denied`). `overtaken` and
`hasty` are history: functions whose answers came out of order, or were under way when the user
ended an edit.

Each part of the pages is a module: its variables are the inputs, lists and hidden inputs that
`script.js` reads and writes, its actions the functions called by a click, what `RestInterface`
does for the call, and the callback (`...Heard`, `...Saved`).

* `SensorPanel`: a panel for each sensor and two in the pop-up. An EEP is chosen in three lists,
  each loaded for the choice in the one before; the callbacks find their panel by the hidden
  input `sensorId`. A value set to what no option has selects nothing, and a list filled anew
  selects its first option, as browsers do. A list asked for when the one before has no option with an id is
  asked for under `undefined`, which the servlet finds nothing under: it is empty.
* `GroupPanel` and `LocationPanel` extend it: the list of groups with its form, the tree of
  locations with its form. A new group takes a key that no call under way and no hidden input names:
  the column is AUTO_INCREMENT, which never gives a key again while the database runs.
* `UserPanel`, `LoginPage`, `ConfigPanel` (with the alerts and their timers), `SearchPanel`.
* `GraphPage`: `displayGraphs` is one step, since its calls are synchronous; the date of a
  measurement is put together part by part, as `setDate`, `setMonth` and `setFullYear` do.

`WebFrontEnd` composes them: a behaviour is of one part of the pages (`page`), since the parts
share only what is modelled in both (`GroupPanel` and `LocationPanel` work on `SensorPanel`).
Names, addresses, radio buttons and the text of alerts are left out.

### jQuery, the widgets and the KNX page: WebLibraries

These modules model the library code that the pages run, as far as it keeps state. Handlers that
the pages give to the libraries may do anything the interface offers, while the loop that
called them is still under way, and may throw; what JavaScript has begun is a stack
(`todo`, `pending`, `frames`, `work`), of which a step takes the top. Depth and number of calls
are bounded.

* `Promises` is what users of deferreds rely on: settled once, each handler of the outcome called
  once and in order. `JQueryDeferred` has `Callbacks` with its `firing`, index and length shared
  between calls, `Deferred`, `then` and `$.when`, and implements `Promises`.
* `JQueryAjax`: answer, timeout and abort race; `done` runs for the first. `jQuery.active` and
  `ajaxStop`. Transports by script and JSONP are left out, and the event `ajaxSend`, which no page binds.
* `JQueryFx`: queues with their sentinel, `delay`, one interval for all animations, `stop` and
  `finish`. What a tween draws is left out.
* `JQueryEvents`: handlers of a path of elements, direct, delegated and bound with `one`; `trigger`
  calls handlers and then has the browser dispatch the native event, which `triggered` keeps
  from calling them again.
* `JQueryData`: ids given to elements, returned by `cleanData` and given to others.
* `TimePicker`: calendar, sliders and text of a field in the two versions of the add-on. `picked`,
  `strayed` and `browsed` are history: the date that was picked, and what has happened to it since.
* `BootstrapModal` and `BootstrapCollapse`: transitions that end, or a timeout in their place. The
  handlers of an ended transition are called one after the other (`handling`).
* `KnxConfigPage`: login page, configuration form and what `AdminServlet` does. Another browser may log in
  or out, but is assumed to post no configuration while the form is open: the servlet would accept it, and
  the form would not show it.

They share no state, so that in `WebLibraries` a behaviour is of one of them (`part`).

## Runs

| Run | Instance | Distinct states | Properties |
|---|---|---|---|
| `send_buffer` | 2 threads, 3 messages, close at any moment | 14 818 | `SendTypeOK`, `NoStrandedMessage`, `ImplementsOutbox`, `PromptlySent`, `WorkerEndsAfterClose` |
| `retransmission` | 2 CON messages (one with a colliding ID), 1 NON, 3 transmissions | 463 417 | `OneTimer`, `UnconfirmedKept`, `NoOversleep`, `ConfirmedStaysQuiet`, `EveryConResolved` |
| `timeout_map` | 2 keys (one shared), 2 values, lifetime 2, time to 6, queue to 3 | 54 104 | `NeverThrows`, `ImplementsExpiringMap` |
| `receive` | 2 handlers, 7 datagrams of 2 peers | 85 485 | `HandlesItsOwnUnlessOvertaken`, `ConfirmedByAnswer`, `EachIsServed` |
| `callbacks` | 2 threads, 2 callbacks, 2 URLs of one measure | 420 782 | `ListensWhileRegistered`, `DiesOnlyDisturbed`, `NotifiesAll`, `DispatchEnds` |
| `enocean_storage` | 4 scenarios on one sensor with one measure, 3 values, 2 clients, 2 groups, 3 locations | 687 105 | `LastIsNewest`, `OnlyLastWithoutClients`, `LostOnlyDisturbed`, `UngroupedOnlyBroken`, `PathsCurrent`, `KeptForClients` |
| `web_front_end` | one of 9 parts of the pages, 1 to 5 clicks, 1 to 6 calls under way | 756 803 | `SavedToOwnRow`, `UntouchedEepKept`, `SessionAgrees`, `ShownIsCurrent`, `GraphsComplete`, `PlottedAtItsDate` |
| `web_libraries` | one of 9 libraries or the KNX page, 2 to 4 calls or clicks | 1 531 649 | `ImplementsPromises`, `NoneForgotten`, `RequestsEndOnce`, `QueueMovesOn`, `EventsReachOnce`, `DataKeptApart`, `FieldAsPicked`, `WidgetsSettle`, `KnxPageAgrees` |
| `shared_buffer` | 2 handlers, requests of 2 peers | violation | `HandlesWhatItReceived` |
| `duplicate_request` | the same | violation | `ExecutedOnce` |
| `skipped_callback` | as `callbacks` | violation | `NotifiesClients` |
| `delete_group` | 1 administrator | violation | `UngroupedRemoved` |

What they show beyond the sentences in `PROJECT.json`:

* `send_buffer`. The comment `FIXME` in front of `selector.select` suspects that a message
  may wait for a whole select. It cannot: the append comes before the wakeup, and the wakeup
  is sticky. `close()` leaves waking the worker as a TODO; the worker still ends, but only
  when its select times out, so that `WorkerEndsAfterClose` has the timeout as a premise.
* `retransmission`. `ConfirmedStaysQuiet` has the premise that the worker was not holding the
  message. In that window the confirmation is undone: the worker puts the message back, sends
  it again and may report it lost although it was answered. `UnconfirmedKept` and
  `EveryConResolved` exclude messages with a colliding ID for the same kind of reason.
* `receive`. The properties that hold have the premise that no later datagram overtook the
  parser; `shared_buffer` shows that the premise is needed.
* `callbacks`. One request at a time keeps lists and listeners in step; two on the same URL
  may not (`overlapped`): an addition between the test for an empty list and the removal of
  the listener is never notified. `skipped_callback` needs no such overlap.

* `enocean_storage`. Without transactions the calls still keep each other's promises in the
  main: the last value is the newest, a measure without clients keeps one value, nobody's data
  goes while the look at the clients is up to date. What does go wrong is named by the
  premises: a telegram is given up when rows are deleted under the dispatcher's hands or at
  midnight; a sensor stays without a group when a call on it fails half-way, for instance when
  a value or a client arrives while its measures are deleted; a path is stale after a
  renaming that overlaps another call. `delete_group` needs no second thread: `deleteGroup`
  sets one of two parameters and always fails for a sensor with measures, after it removed their
  clients; `OnlyLastWithoutClients` makes an exception of such sensors, whose values nothing deletes
  before the next telegram.

* `web_front_end`. With no answer overtaken and no edit ended over its own calls the pages show and
  save what they should; the premises are needed in most places, since nothing in `script.js`
  ties an answer to what it was asked for. A group's text is saved in another group's row when
  the selection changes while its call is under way; a sensor saved before its three lists are
  filled gets another EEP, and so does one whose list was loaded by a choice in another panel, or late, after
  the panels were loaded anew during an edit (`touched`); a sensor saved with another EEP goes on to show the
  old one, which the next edit saves again (`UntouchedEepKept` compares with what was shown); the cookies of two accounts mix when a name is typed anew during a
  login. `GraphsComplete` names two cases that need no timing: if the first sensor has no measure
  drawing ends with a TypeError, and of two measures of one type the last is drawn twice.
  `PlottedAtItsDate` names another: a day that the current month does not have.
* `web_libraries`. `DataKeptApart` holds without a case to except but the entry that late data
  leaves in the cache. The other properties name what breaks them: a handler that throws leaves its
  list firing for ever; `stop(true)` within a delay starts what follows beside what runs, or
  never; a handler called by `trigger` is called again after a `trigger` within it; a pop-up
  shown while it is being hidden leaves backdrops; gateways found before the configuration has come
  select the first of them. Of the date picker on the KNX page (version 1.3 of the add-on) `FieldAsPicked`
  names a defect: once a date is picked, showing another month is enough to replace it (`browsed`), the field
  then says the date that the calendar shows; in version 1.4 the date stays, but a time moved or
  limited while another month is shown is limited by that month's date (`strayed`).

Four violation runs check a sentence of a comment against the code; the findings in
`PROJECT.json` quote it. Every property of a passing run is violated by a mutated form of the
code, written in front of the definition it mutates and named in a comment there.

### Bounds

* Two actors of each kind: the races found or excluded are between a worker and one other
  thread, or between two threads on one item. Three messages allow one in the buffer, one in
  the worker's hand and one with a caller.
* `retransmission`: 3 transmissions instead of 4 leave a first, a middle and a last one.
  Timeouts of 1, 2 and 4 ticks, a polling interval of 5 and a lateness of 1 keep the relations
  of 2 s, 4 s, 8 s to 10 s. The lifetime of 120 satisfies `LifetimeAssumption`, as the real
  numbers do: 2 s * 2^3 is far from 120 s.
* `timeout_map`: a lifetime of 2 and time to 6 let an entry be renewed, expire and be put
  again; three queue elements are two of one key and one of the other. `MaxTime` and
  `MaxQueue` bound the instance in the guards of the clock and of `Put`; the proofs do not
  depend on their values.
* `receive`: `MaxHandlers` is the number of datagrams received. Races between two handlers
  need two.
* `callbacks`: calls and telegrams are not bounded. Two URLs are those of a sensor in two groups;
  a measure without URL lets a dispatch pass by both. Requests of the second URL only add, since
  lists of different URLs meet only in `m_Listening`, whose change is noticed for any key.
  `NotifiesAll` speaks of measures that are listened to under one URL (`OneUrl`): the loop of the
  dispatcher leaves after the first, even if that has no callback at the moment. Each thread has
  requests of its own so that additions, an addition and a removal, and two removals meet on one
  URL; two additions of the same callback are left out, whose only further effect is a list that
  holds it twice. `skipped_callback` has one URL.

* `enocean_storage`: the behaviours begin in one of four scenarios (`Scenarios`), which fix who
  may call what: two clients of a measure and telegrams; a client, an administrator who
  deletes the sensor, and telegrams; two administrators at one sensor; two at the locations.
  All of them at once would be a product without new races: sensors meet locations only in
  the deletion of a location, which the third and fourth scenario have, and values meet
  administrators in the second. Three values are the last one, the new one and one older; a
  day of storage and none are two kinds of clients; three locations are a root, a child and a
  grandchild. Keys are reused when no row and no thread knows them, so that calls are not
  bounded; the keys of values are symmetric (`RowKeys`), since a new value takes a key that nothing
  refers to and nothing compares keys but for equality; the dispatcher waits when all `Rows` are in use, which only the instance does.

* `web_front_end`: every page has its own bounds (`Bounds`), as many clicks and calls as make two
  calls of one kind, and one of another, be under way when the user goes on. Failures are allowed
  where they do something other than to show an alert. The rows are two that exist and one that
  does not yet; the EEPs are two functions of one rorg, three types of one function, and a code with
  a letter; that of the first sensor is neither the first function nor the first type of its lists, so that a list
  filled without selecting is noticed. On the page of sensors six calls may be under way: the lists of two edits. `MaxClicks`, `MaxCalls` and `MaxFailures` are in the guards of `WebRequests`.
* `web_libraries`: two requests, two elements (one with two items to queue, one with one), a path of
  two elements, two bindings, two pop-ups, three groups of an accordion; two deferreds and one that
  `then` or `when` derives from them; three dates with limits within and around them. `Depth` is how many
  calls deep handlers may call: two let a handler of a handler act. Five events on the picker are enough to
  open, pick, show another month, move a slider and close; the times that are typed and set are two (`Given`),
  the sliders choose any; four calls of the pop-ups to show and hide both, or one twice. The theorems cover
  any number of either.

Deadlock is checked in `retransmission`, `timeout_map`, `callbacks` and `enocean_storage`, whose systems never
stop. `send_buffer` ends after `close()`, `receive` when its handlers are done, the web runs when the
user has no click left; their configurations say `CHECK_DEADLOCK FALSE`.

### Fairness

Weak fairness of the steps of a running thread, one condition per thread: the JVM schedules
runnable threads, no step of them is disabled again and again, and monitors are held for two
statements. Not assumed: that remotes answer or that datagrams arrive, that applications send,
that clients register. `CoapRetransmission` has fairness of `Tick`: time passes. The timeout
of `select` and the answer of a callback's client are premises of the two properties that need
them (`WorkerEndsAfterClose`, `DispatchEnds`), not part of the specifications. The request to
a callback has no timeout in the code: a client that never answers keeps the reading thread,
and `DispatchEnds` says so by its premise.

The web modules assume none: users and servlets owe nothing, and their properties are about what
is there when nothing is under way.

## Proofs

`CoapSocketHandlerProofs` (about `CoapSendBuffer` and `CoapReceive`), `CoapRetransmissionProofs`,
`TimeoutHashMapProofs`, `CallbackRegistersProofs`, `EnOceanStorageProofs`, `WebFrontEndProofs`, `WebLibrariesProofs` and
`WidgetProofs`
hold theorems about the specifications for all values of the constants. They rest on the named assumptions
of the modules and on nothing else, except where stated.

* `CoapSendBuffer`. `SendTypeCorrect`. `NoLostWakeup`: `NoStrandedMessage` is inductive with
  `SendTypeOK`: only `AddMessage` fills the buffer, and the thread then owns the monitor until its
  wakeup; only a select consumes a wakeup, and it leaves the state in which the worker goes to
  sleep. `NothingLost`: while open, `added` is `sent`, then the message in hand, then the
  buffer. `OutboxImplemented`: with `NothingLost` each `Send` transmits the first accepted
  message that is not transmitted yet, and `ForgetChannel` and `CloseSocket` are the abstract
  close and a stutter.
* `CoapRetransmission`. The invariant is `IInv`: types, `Scheduled`, `OneTimer`,
  `LostIsFinal`, `Fresh` (a message unsent or buffered has left no trace with the worker, so
  that its first transmission creates its only timer) and `AnsweredWasSent`. `OneTimer`
  would not be inductive without `Fresh`, `LostIsFinal` not without `OneTimer`: a second timer
  could bring a lost message back. `UnconfirmedKept`, `NoOversleep` and the action property
  `ConfirmedStaysQuiet` follow from it.
* `TimeoutHashMap`. Under the assumption `ClockSteps \subseteq Nat`, a wall clock that is not
  set back, which the theorems state: `IInv` says that the queue covers the map, that it is in the order
  of expiry, and that the entry in the hands of `update()` has expired or is covered by
  another element. From it: `UpdateIsSafe` (never throws), `NothingExpiredLeft` and
  `MapImplemented`, the refinement of `ExpiringMap`. Without the assumption they fail: the
  clock set back between the two readings leaves an entry without an element.

* `CoapReceive`. `IInv` adds to the properties that a handler's address is that of its datagram
  (`Arrived`), that a handler not overtaken still finds its datagram in the buffer (`Untouched`:
  a receive that has begun makes every unparsed handler overtaken), and that the map leads a
  peer to a channel made for it. `ConfirmedByAnswer` needs that a message once parsed is not
  forgotten, which rests on threads starting in the order of their numbers (`InOrder`, by
  cardinality). Besides the two properties of the run: `TypeCorrect` and `OwnChannels`.
* `CallbackRegisters`. `TypeCorrect` needs that the iterators stay within their lists unless
  `listChanged`. `OnlyDisturbedDies`: while undisturbed, nothing has changed under an iterator and
  what it has yet to return is listened to (`Survives`). `ListsAndListeners`: lists of
  different URLs are apart and a request holds the list of its own (`ListsApart`), two requests on a
  URL are noticed (`OneAtATime`), and for the only request on a URL `Stage` says what holds
  at each of its steps; `RemoveFirstProperties` says what a removal leaves of a list.
  `AllNotified`: in an undisturbed dispatch, what is registered and not posted to has a URL yet to be
  visited or at hand, and then a place behind the cursor (`Notifying`).

* `EnOceanStorage`, for any tables that `ScenariosAssumption` allows and any number of clients,
  administrators and rows. `TypeCorrect` and `Integrity`: no statement breaks a foreign key or the
  unique address, whatever was read before it (`Sound`). The rest builds on `Sound`.
    * Values (`ValuesOK`): `LastNewest`, `OnlyLastKept`, `TelegramLost`, `WantedValuesKept`. That the
      last value is the newest is not inductive by itself: a purge deletes what is not the last, so
      that `StoredIsNewest` must say that a value about to become the last is newer than the others,
      `LastAmongOwn` that the last value belongs to the measure, `Ordered` that of two values one
      was stored before the other and is no younger, so that the last is not outdated before others. `Shrunk` says
      of each measure without clients that it has one value or that some thread is still due to shrink it
      (`PurgeDue`), `PurgesKnowClients` what a thread's look at the clients still tells, `TelegramSafe`
      that an undisturbed telegram finds the rows of its next statement, `AllRemoveOwn` and `Working`
      what the local variables of a call refer to. `QuietStep` deals with the steps that touch no
      value, client or measure; the others have a lemma each.
    * Groups (`Grouped`): `UngroupedFailed`. A sensor without a group is in the chain of a
      deletion (`UngroupedDue`), which ends with the sensor's row or fails.
    * Locations (`Places`): `PathsKept`. `Leads` says, of a search for a path, that whoever goes up
      from where it stands comes to the row below which it began (in terms of sets of rows closed
      upwards, as paths of any length need induction otherwise), `Walk` that the names read and those
      still to be read are the path. A renaming without overlap is at work below a set of rows that
      are right (`RenamesBelow`): every other row that is wrong is pending or is about to be listed.
      Additions may overlap each other (`Adding`): there are paths for all rows that fit the tree, and
      a row without its path is in the hands of the thread that added it.

* `WebFrontEnd`, for any rows and any numbers of clicks, calls and failures. The assumptions are about
  constants only: the answers that mean no row are no rows (`AnswersAssumption`, and with the rows of each
  panel `ZonesAssumption`, `GroupAssumption`, `PlacesAssumption`, `UserAssumption`), a row shows its own
  text at first, dates are of the calendar (`DatesAssumption`), a search finds finitely many groups
  (`SearchAssumption`). A step of one panel leaves the calls of the others as they are and in
  their order (`Only`, of which `Matching` says where each call was before the step), so that each
  invariant below needs the steps of its own panel and one lemma for all the others. `TypedAlways`
  holds the shape of calls and hidden inputs.
    * `SessionAgreesAlways`, from `SessionHeld`: unless a name was typed anew during a login, the
      answer of a call under way, the call itself and the cookies are of one account.
    * `PlottedAtItsDateAlways`, from `PointHeld`: what the parts of the date are after `setDate`,
      `setMonth` and `setFullYear`, given the lengths of months.
    * `SavedToOwnRowAlways`, from `RowsHeld`. The property speaks of the row at the moment of saving; the
      invariant must follow the text from the row into an answer, from the answer into a form, from the form
      into a call, and back. It has a part for each form, each under its premise of undisturbed answers.
      `ConfigHeld`: the zone shown was sent or typed, unless it is still to come. `PlacesHeld`: the form is
      blank or of the location its buttons name, which is the one an `editLocation` under way asks for. `UsersHeld`: each of the profile, the form of a user and the calls between
      them is of one user, and a password that was hashed again is of a user in `ShortHash`.
      `GroupsHeld` is the hard one, as the key to save under is a hidden input that the next selection
      overwrites: a `getGroup` or `deleteGroup` under way names the selected group, or a later
      `getGroup` is under way (`TurnsHeld`, `Superseded`), so that answers in turn leave
      the form with the text of the selected group (`Fits`); and no step makes a row with a key that a call
      names (`Vacant`). The attempt without `Vacant` failed for a reason: the model
      gave a key anew that a form still named.

* `WebLibraries`, for the composition, whose steps are those of one library at a time. In it the others
  are unchanged, so that each invariant needs the steps of its own module only.
    * Data (`DataInv`): `DataApart`. The ids of elements, the ids given back and the ids not yet given
      are apart (`IdsApart`), and the cache has an entry for each of the first. Every operation of
      `jQuery.data` is made of a few changes of the store, each with a lemma that it keeps `IdsApart`;
      an element that was removed has no id unless something was stored for it after that.
    * Requests (`AjaxInv`): `RequestsEnd`, from `NotSentAssumption`, which says that the state before `send`
      is none of the three of `ajax()`. The property speaks of moments at which nothing runs; what holds
      while callbacks run, and make and abort requests of their own, is a statement about the
      stack (`Stacked`): the callbacks that a request has not had yet stand one above the other, in their
      order, on top of the entry that ends it. `active` counts the requests that are not done, those
      whose end is on the stack, and those spoiled by a callback that threw (`UnderWay`).
    * The KNX page (`KnxInv`): `KnxAgrees`. At most one of the calls that go through the overlay is
      unanswered, and while the configuration is awaited the form is blank (`FormAgrees`). A POST
      whose page has been left could still change the configuration under a page
      opened later; `PostsRefused` says that the token it carries is refused for good: it is not the one
      in force, and tokens only grow (`TokensKnown`).
    * Deferreds (`DeferredInv`): `PromisesImplemented`, from `NoneAssumption`, which says that `None` is
      neither a list nor a number nor an outcome. The handlers that wait in `Promises` are those that the
      deferred's lists have yet to call (`Waiting`). The two lists of its outcomes go through
      phases (`Phase`): neither was fired; one is, and its loop is about to settle the deferred
      (`Starting`), or to disable the other list (`Settling`); or the deferred is settled, and the list of
      the other outcome is off for good (`Settled`). Between the first two calls of a loop no handler
      can run, since the loop is on top of the stack: this is where the abstract deferred settles.
      No list is in two loops at once (`LoopsApart`), which is why each handler is called once; a handler that throws
      leaves lists that fire for ever, but none that breaks a phase. Each step
      that may call, register or settle has a lemma (`AddKept`, `FireKept`, `EndKept`, `SettleKept`,
      `DisableKept`, `LockKept`, `CallsKept`).

* The widgets, in `WidgetProofs`, which is about `WebLibraries` too.
    * The time picker (`PickerInv`): `PickedIsInField`. From the moment a date is picked until something else is
      typed, `PickKept` holds: the date that the code writes (`Written`) is the one in the field and, unless version 1.3
      has shown another month, the one picked; what will be written on closing is what the sliders show
      (`AtPicked`), within the limits but where version 1.4 has strayed. That needs the sliders to be `Steady`: the code limits
      each of hour, minute and second on its own and only while the ones before it are at the limit, so that
      limiting a time that is within the limits must leave it alone, or closing would write another time than
      was shown. It does when the two limits are not in the same hour (`LimitsAssumption`; the pages set no
      limits). Without it the theorem is false, as TLC shows with limits within one hour: a slider raised to
      the first limit and then lowered to the second may be below the first again.
    * The accordion (`CollapseInv`) and the pop-ups (`ModalInv`): `WidgetsAtRest`. A group that moves is
      open if and only if it will have been opened at the end. A pop-up that was neither shown while it
      was being hidden nor hidden before it was revealed goes through stages (`Stage`): `Closed`,
      `Opening` while its backdrop fades in, `Opened`, `Closing` while either the end of its transition
      or the timeout is still to hide it (whichever comes first takes the other away: `ClosingBy`),
      and `Fading` while its backdrop fades out. Each stage says which handlers
      are registered, which are about to be called (`handling`) and which backdrops there are, and each function of
      the code has a lemma about the page that it makes. The steps for one pop-up leave the others in
      their stages (`StageKept`), but for the focus handlers, which hiding any pop-up takes from
      all of them.

Types, and what they need, are proved for the first six; the runs of five of them do not repeat them. So are
`LostIsFinal` and `UpdatePurges`, the latter as `NothingExpiredLeft`.

Only model-checked: the liveness properties (`PromptlySent`, `WorkerEndsAfterClose`,
`EveryConResolved`, `EachIsServed`, `DispatchEnds`), which are out of reach of the proof system
as it is installed; of `WebLibraries` all but the six properties above; of `WebFrontEnd` `UntouchedEepKept`,
`ShownIsCurrent` and `GraphsComplete`, which tie what several lists show to the order of the answers to
several functions; the violations.

## Not modelled

The components with status `not_modelled` in `PROJECT.json`, with the reason. In short:

* what the plan has left: serial receiver, resources, client channel, KNX link and storage;
* codecs and XML look-ups, sequential computations on bytes and text that unit tests reach;
* servlets, which parse a request and call what is modelled; what they answer to the pages is
  in the modules of the pages;
* of jQuery its selectors, traversal, CSS and DOM manipulation, JSONP and script transports; of
  jQuery UI all but the date picker as the time picker uses it; of Bootstrap what the pages use
  only for its styles; the chart libraries. They compute from their arguments, draw, or are
  minified by third parties;
* of the EnOcean pages nothing that changes state, but names, addresses, manufacturers and radio
  buttons, which are plain inputs; of the KNX pages the upload of project files, the log and the
  list of subscribers, each filled by one call.
