---------------------------- MODULE MeasureStorage ----------------------------
(***************************************************************************)
(* The values of the EnOcean measures: the calls of EnOceanStorage that    *)
(* clients make (addClient, removeClient) and those that EnOceanDispatcher *)
(* makes for each telegram the serial thread reads.                        *)
(*                                                                         *)
(* A measure points to its last value.  Older values are kept only as long *)
(* as a client asks for them.                                              *)
(***************************************************************************)
EXTENDS EnOceanTables

CONSTANTS
    ClientThreads,  \* servlet and CoAP threads; each stands for one client
    Reader          \* the serial thread

ASSUME MeasureThreads == ClientThreads \cup {Reader} \subseteq Threads /\ Reader \notin ClientThreads

-----------------------------------------------------------------------------
(* addClient *)

\* EnOceanServlet looks the measure up, addClient looks for the client's row.
FindClient(t, m, days) ==
    /\ Starts(t, ClientThreads, "addClient")
    /\ m \in DOMAIN db.measure
    /\ LET known == {c \in ClientsOf(m) : db.client[c].referer = t}
           f == [NoFrame EXCEPT !.op = "addClient", !.measure = m, !.days = days]
       IN  \/ known = {} /\ Goto(t, "insertClient", f)
           \/ \E c \in known : Goto(t, "updateClient", [f EXCEPT !.client = c])
    /\ UNCHANGED db

UpdateClient(t) ==
    /\ pc[t] = "updateClient"
    /\ db' = IF frame[t].client \in DOMAIN db.client
             THEN [db EXCEPT !.client[frame[t].client].days = frame[t].days]
             ELSE db
    /\ End(t)

InsertClient(t) ==
    /\ pc[t] = "insertClient"
    /\ LET fresh == FreshKeys(Clients, db.client, HeldKeys("client"))
           row == [measure |-> frame[t].measure, referer |-> t, days |-> frame[t].days]
       IN  /\ fresh # {}
           /\ Execute(t, [db EXCEPT !.client = Insert(@, NewKey(fresh), row)], "idle", NoFrame)

-----------------------------------------------------------------------------
(* deleteDataMeasure, called by removeClient and for each stored value *)

\* The dispatcher then notifies the clients of the value (see CallbackRegisters) and goes on with
\* its next measure; removeClient ends.
Continues(t) == t = Reader /\ frame[t].measures # {}
AfterPurge(t) == IF Continues(t) THEN "addStorage" ELSE "idle"
FrameAfterPurge(t) ==
    IF Continues(t) THEN [frame[t] EXCEPT !.measure = None, !.row = None, !.days = 0] ELSE NoFrame

CheckClients(t) ==
    /\ pc[t] = "checkClients"
    /\ Goto(t, IF ClientsOf(frame[t].measure) = {} THEN "deleteData" ELSE "maxDays", frame[t])
    /\ UNCHANGED db

\* Mutated: the last value is not spared.
OutdatedWithLast(m) == RowsOf(m)

\* deleteData: "pk_data_sensor != (select mea_fk_data_sensor ...)" is never true when there is
\* no last value.
Outdated(m) == {r \in RowsOf(m) : LastOf(m) # None /\ r # LastOf(m)}

Without(rows) == [db EXCEPT !.data = DeleteValues(@, rows)]

DeleteData(t) ==
    /\ pc[t] = "deleteData"
    /\ Execute(t, Without(Outdated(frame[t].measure)), AfterPurge(t), FrameAfterPurge(t))

\* shrinkData: max() over no rows is NULL, which getInt makes 0; the branch for -1, which would
\* take the average of all clients, is never taken.
MaxDaysOf(m) ==
    LET days == {db.client[c].days : c \in ClientsOf(m)}
    IN  IF days = {} THEN 0 ELSE CHOOSE d \in days : \A e \in days : e <= d

SelectMaxDays(t) ==
    /\ pc[t] = "maxDays"
    /\ Goto(t, "shrink", [frame[t] EXCEPT !.days = MaxDaysOf(frame[t].measure)])
    /\ UNCHANGED db

\* Mutated: the first of the days to keep is deleted too.
ExpiredByDay(m, days) == {r \in RowsOf(m) : db.data[r].age >= days}

\* Rows before midnight of the day that lies so many days back; the last value may be one.
Expired(m, days) == {r \in RowsOf(m) : db.data[r].age > days}

ShrinkData(t) ==
    /\ pc[t] = "shrink"
    /\ Execute(t, Without(Expired(frame[t].measure, frame[t].days)),
               AfterPurge(t), FrameAfterPurge(t))

-----------------------------------------------------------------------------
(* removeClient *)

\* Mutated: the values are left to the next telegram.
RemoveClientOnly(t, m) ==
    /\ Starts(t, ClientThreads, "removeClient")
    /\ m \in DOMAIN db.measure
    /\ LET mine == {c \in ClientsOf(m) : db.client[c].referer = t}
       IN  db' = [db EXCEPT !.client = Delete(@, mine)]
    /\ End(t)

RemoveClient(t, m) ==
    /\ Starts(t, ClientThreads, "removeClient")
    /\ m \in DOMAIN db.measure
    /\ LET mine == {c \in ClientsOf(m) : db.client[c].referer = t}
       IN  db' = [db EXCEPT !.client = Delete(@, mine)]
    /\ Goto(t, "checkClients", [NoFrame EXCEPT !.op = "removeClient", !.measure = m])

-----------------------------------------------------------------------------
(* radioTelegram *)

\* getEEP finds the sensor by its address, listMeasures its measures.
ReceiveTelegram(a) ==
    /\ Starts(Reader, {Reader}, "radioTelegram")
    /\ \E s \in DOMAIN db.sensor :
        /\ db.sensor[s].address = a
        /\ MeasuresOf(s) # {}
        /\ Goto(Reader, "addStorage", [NoFrame EXCEPT !.op = "radioTelegram", !.measures = MeasuresOf(s)])
    /\ UNCHANGED db

AddStorage ==
    /\ pc[Reader] = "addStorage"
    /\ LET fresh == FreshKeys(Rows, db.data, HeldKeys("row"))
       IN  /\ fresh # {}
           /\ \E m \in frame[Reader].measures :
                LET row == [measure |-> m, age |-> 0, older |-> DOMAIN db.data]
                IN  Execute(Reader, [db EXCEPT !.data = Insert(@, NewKey(fresh), row)], "setLast",
                            [frame[Reader] EXCEPT !.measure = m, !.measures = @ \ {m}, !.row = NewKey(fresh)])

\* Mutated: the last value is set once.
SetFirstMeasureData ==
    /\ pc[Reader] = "setLast"
    /\ LET last == LastOf(frame[Reader].measure)
       IN  Execute(Reader, WithLast(frame[Reader].measure, IF last = None THEN frame[Reader].row ELSE last),
                   "checkClients", frame[Reader])

SetLastMeasureData ==
    /\ pc[Reader] = "setLast"
    /\ Execute(Reader, WithLast(frame[Reader].measure, frame[Reader].row), "checkClients",
               frame[Reader])

DayOlder(row) == [row EXCEPT !.age = IF @ > MaxDays THEN @ ELSE @ + 1]

\* A day passes.
Midnight ==
    /\ DOMAIN db.data # {}
    /\ db' = [db EXCEPT !.data = [r \in DOMAIN db.data |-> DayOlder(db.data[r])]]
    /\ UNCHANGED <<pc, frame>>

Purge(t) == CheckClients(t) \/ DeleteData(t) \/ SelectMaxDays(t) \/ ShrinkData(t)

ClientCall(t) ==
    \/ \E m \in Measures, days \in Days : FindClient(t, m, days)
    \/ UpdateClient(t) \/ InsertClient(t)
    \/ \E m \in Measures : RemoveClient(t, m)
    \/ Purge(t) \/ GiveUp(t)

Telegram ==
    \/ \E a \in Addresses : ReceiveTelegram(a)
    \/ AddStorage \/ SetLastMeasureData
    \/ Purge(Reader) \/ GiveUp(Reader)
=============================================================================
