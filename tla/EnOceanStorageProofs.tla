------------------------ MODULE EnOceanStorageProofs ------------------------
(***************************************************************************)
(* Proofs about EnOceanStorage, for any numbers of threads, sensors,       *)
(* measures, values, clients and locations.                                *)
(*                                                                         *)
(* First what every step finds: typed tables, typed local variables, and   *)
(* keys that agree; the lemmas on what a statement does to the tables and  *)
(* which thread a step moves are used by all that follows.  Then: a        *)
(* measure points to its newest value, values are deleted only when no     *)
(* client asks for them and kept no longer than one does, a telegram is    *)
(* given up only when it was disturbed, and no sensor is forgotten; last,  *)
(* every location has the path of the tree.                                *)
(***************************************************************************)
EXTENDS EnOceanStorage, FiniteSetTheorems, SequenceTheorems, WellFoundedInduction, TLAPS

-----------------------------------------------------------------------------
(* Tables, statements and frames. *)

\* What a statement leaves of one table is again a table.
LEMMA TableStatements ==
    ASSUME NEW S, NEW T, NEW f, Table(f, S, T)
    PROVE  /\ \A k \in S, row \in T : Table(Insert(f, k, row), S, T)
           /\ \A keys : Table(Delete(f, keys), S, T)
           /\ \A k, row : (k \in DOMAIN f => row \in T) => Table([f EXCEPT ![k] = row], S, T)
BY DEF Table, Insert, Delete

LEMMA ValueKept ==
    ASSUME NEW f, Table(f, Rows, DataRow), NEW keys, NEW r \in DOMAIN f \ keys
    PROVE  /\ DeleteValues(f, keys)[r] \in DataRow
           /\ DeleteValues(f, keys)[r].measure = f[r].measure
           /\ DeleteValues(f, keys)[r].age = f[r].age
           /\ DeleteValues(f, keys)[r].older = f[r].older \ keys
<1>1. f[r] \in DataRow
  BY DEF Table
<1>2. DeleteValues(f, keys)[r] = [f[r] EXCEPT !.older = @ \ keys]
  BY DEF DeleteValues
<1> QED
  BY <1>1, <1>2 DEF DataRow

LEMMA ValuesDeleted ==
    ASSUME NEW f, Table(f, Rows, DataRow), NEW keys
    PROVE  Table(DeleteValues(f, keys), Rows, DataRow) /\ DOMAIN DeleteValues(f, keys) = DOMAIN f \ keys
<1>1. DOMAIN DeleteValues(f, keys) = DOMAIN f \ keys
  BY DEF DeleteValues
<1> QED
  BY <1>1, ValueKept DEF Table

\* A statement changes one of the tables.
LEMMA OneTable ==
    ASSUME NEW d, Tables(d), NEW x
    PROVE  /\ x \subseteq Groups => Tables([d EXCEPT !.group = x])
           /\ Table(x, Sensors, SensorRow) => Tables([d EXCEPT !.sensor = x])
           /\ x \subseteq Groups \X Sensors => Tables([d EXCEPT !.groupSensor = x])
           /\ Table(x, Measures, MeasureRow) => Tables([d EXCEPT !.measure = x])
           /\ Table(x, Clients, ClientRow) => Tables([d EXCEPT !.client = x])
           /\ Table(x, Rows, DataRow) => Tables([d EXCEPT !.data = x])
           /\ Table(x, Locations, LocationRow) => Tables([d EXCEPT !.location = x])
BY DEF Tables

LEMMA Fields ==
    ASSUME NEW d, Tables(d), NEW x, NEW table \in DOMAIN d
    PROVE  /\ [d EXCEPT ![table] = x][table] = x
           /\ \A other \in DOMAIN d \ {table} : [d EXCEPT ![table] = x][other] = d[other]
BY DEF Tables

\* A thread goes on, with the local variables f; the others stay where they are.
Moves(t, label, f) ==
    /\ pc'[t] = label /\ frame'[t] = f
    /\ \A u \in Threads \ {t} : pc'[u] = pc[u] /\ frame'[u] = frame[u]

LEMMA GotoMoves ==
    ASSUME TypeOK, NEW t \in Threads, NEW label, NEW f, Goto(t, label, f)
    PROVE  /\ Moves(t, label, f)
           /\ label \in Labels /\ f \in Frame => pc' \in [Threads -> Labels] /\ frame' \in [Threads -> Frame]
BY DEF Goto, Moves, TypeOK

LEMMA NoFrameType == NoFrame \in Frame
<1>1. MaxDays \in Nat
  BY TablesAssumption
<1> QED
  BY <1>1, EmptySeq DEF NoFrame, Frame, Days

LEMMA GotoTypes ==
    ASSUME TypeOK, NEW t \in Threads, NEW label \in Labels, NEW f \in Frame, Goto(t, label, f)
    PROVE  pc' \in [Threads -> Labels] /\ frame' \in [Threads -> Frame]
BY GotoMoves

LEMMA ExecuteTypes ==
    ASSUME TypeOK, NEW t \in Threads, NEW result, NEW label \in Labels, NEW f \in Frame,
           Execute(t, result, label, f), Consistent(result) => Tables(result)
    PROVE  Tables(db') /\ pc' \in [Threads -> Labels] /\ frame' \in [Threads -> Frame]
<1>1. frame[t] \in Frame /\ Tables(db)
  BY DEF TypeOK
<1>2. "failed" \in Labels
  BY DEF Labels
<1> QED
  BY <1>1, <1>2, GotoTypes DEF Execute

LEMMA EndTypes ==
    ASSUME TypeOK, NEW t \in Threads, End(t)
    PROVE  pc' \in [Threads -> Labels] /\ frame' \in [Threads -> Frame]
<1>1. "idle" \in Labels
  BY DEF Labels
<1> QED
  BY <1>1, NoFrameType, GotoTypes DEF End

-----------------------------------------------------------------------------
(* Types. *)

Typed == Tables(db) /\ pc \in [Threads -> Labels] /\ frame \in [Threads -> Frame]

LEMMA MaxDaysType ==
    ASSUME TypeOK, NEW m
    PROVE  /\ MaxDaysOf(m) \in Days
           /\ \A c \in ClientsOf(m) : db.client[c].days =< MaxDaysOf(m)
<1> DEFINE days == {db.client[c].days : c \in ClientsOf(m)}
<1>1. MaxDays \in Nat
  BY TablesAssumption
<1>2. days \subseteq 0..MaxDays
  BY DEF TypeOK, Tables, Table, ClientRow, ClientsOf, Days
<1> HIDE DEF days
<1>3. CASE days = {}
  <2>1. MaxDaysOf(m) = 0 /\ ClientsOf(m) = {}
    BY <1>3 DEF MaxDaysOf, days
  <2> QED
    BY <1>1, <2>1 DEF Days
<1>4. CASE days # {}
  <2> DEFINE gaps == {MaxDays - d : d \in days}
  <2>1. gaps \subseteq Nat /\ gaps # {}
    <3>1. \A d \in 0..MaxDays : MaxDays - d \in Nat
      BY <1>1
    <3> QED
      BY <1>2, <1>4, <3>1
  <2>2. PICK least \in gaps : \A gap \in gaps : ~(<<gap, least>> \in OpToRel(<, Nat))
    BY <2>1, WFMin, NatLessThanWellFounded
  <2>3. \A gap \in gaps : ~(gap < least)
    BY <2>1, <2>2 DEF OpToRel
  <2>4. PICK most \in days : least = MaxDays - most
    BY <2>2
  <2>5. ASSUME NEW d \in days
        PROVE  d =< most
    <3>1. MaxDays - d \in gaps /\ d \in 0..MaxDays /\ most \in 0..MaxDays
      BY <1>2
    <3>2. ~(MaxDays - d < MaxDays - most)
      BY <2>3, <2>4, <3>1
    <3> HIDE DEF gaps
    <3> QED
      BY <1>1, <3>1, <3>2
  <2>6. MaxDaysOf(m) = CHOOSE d \in days : \A e \in days : e <= d
    BY <1>4 DEF MaxDaysOf, days
  <2>7. MaxDaysOf(m) \in days /\ \A e \in days : e <= MaxDaysOf(m)
    BY <2>4, <2>5, <2>6
  <2> QED
    BY <1>2, <2>7 DEF Days, days
<1> QED
  BY <1>3, <1>4

LEMMA PurgeTypes ==
    ASSUME TypeOK, NEW t \in Threads, Purge(t)
    PROVE  Typed'
<1> USE DEF TypeOK
<1>1. frame[t] \in Frame /\ FrameAfterPurge(t) \in Frame
  <2>1. frame[t] \in Frame /\ 0 \in Days
    BY TablesAssumption DEF Days
  <2>2. [frame[t] EXCEPT !.measure = None, !.row = None, !.days = 0] \in Frame
    BY <2>1 DEF Frame
  <2> QED
    BY <2>1, <2>2, NoFrameType DEF FrameAfterPurge
<1>2. {"deleteData", "maxDays", "shrink", "idle", "addStorage"} \subseteq Labels
  BY DEF Labels, Purging
<1>3. AfterPurge(t) \in Labels
  BY <1>2 DEF AfterPurge
<1>4. \A keys : Tables(Without(keys))
  BY OneTable, ValuesDeleted DEF Without, Tables
<1>5. CASE CheckClients(t)
  BY <1>1, <1>2, <1>5, GotoTypes DEF CheckClients, Typed
<1>6. CASE DeleteData(t)
  BY <1>1, <1>3, <1>4, <1>6, ExecuteTypes DEF DeleteData, Typed
<1>7. CASE SelectMaxDays(t)
  <2>1. [frame[t] EXCEPT !.days = MaxDaysOf(frame[t].measure)] \in Frame
    BY <1>1, MaxDaysType DEF Frame
  <2> QED
    BY <1>2, <1>7, <2>1, GotoTypes DEF SelectMaxDays, Typed
<1>8. CASE ShrinkData(t)
  BY <1>1, <1>3, <1>4, <1>8, ExecuteTypes DEF ShrinkData, Typed
<1> QED
  BY <1>5, <1>6, <1>7, <1>8 DEF Purge

LEMMA GiveUpTypes ==
    ASSUME TypeOK, NEW t \in Threads, GiveUp(t)
    PROVE  Typed'
BY EndTypes DEF GiveUp, Typed, TypeOK

\* Inserting a row keeps the tables, if it is one of the table or else breaks a key.
LEMMA InsertTypes ==
    ASSUME TypeOK, NEW k, NEW row
    PROVE  /\ k \in Sensors /\ row \in SensorRow => Tables([db EXCEPT !.sensor = Insert(@, k, row)])
           /\ k \in Measures /\ row \in MeasureRow => Tables([db EXCEPT !.measure = Insert(@, k, row)])
           /\ k \in Clients /\ row \in ClientRow => Tables([db EXCEPT !.client = Insert(@, k, row)])
           /\ k \in Rows /\ row \in DataRow => Tables([db EXCEPT !.data = Insert(@, k, row)])
           /\ k \in Locations /\ row \in LocationRow => Tables([db EXCEPT !.location = Insert(@, k, row)])
BY TableStatements, OneTable DEF TypeOK, Tables

LEMMA DeleteTypes ==
    ASSUME TypeOK, NEW keys
    PROVE  /\ Tables([db EXCEPT !.sensor = Delete(@, keys)])
           /\ Tables([db EXCEPT !.measure = Delete(@, keys)])
           /\ Tables([db EXCEPT !.client = Delete(@, keys)])
           /\ Tables([db EXCEPT !.location = Delete(@, keys)])
BY TableStatements, OneTable DEF TypeOK, Tables

LEMMA NewKeyType == \A keys : keys # {} => NewKey(keys) \in keys
BY DEF NewKey

LEMMA ClientCallTypes ==
    ASSUME TypeOK, NEW t \in Threads, ClientCall(t)
    PROVE  Typed'
<1>1. frame[t] \in Frame /\ NoFrame \in Frame /\ Tables(db)
  BY NoFrameType DEF TypeOK
<1>2. {"insertClient", "updateClient", "idle", "checkClients"} \subseteq Labels
  BY DEF Labels
<1>3. ASSUME NEW m \in Measures, NEW days \in Days, FindClient(t, m, days)
      PROVE  Typed'
  <2> DEFINE f == [NoFrame EXCEPT !.op = "addClient", !.measure = m, !.days = days]
  <2>0. f \in Frame
    BY NoFrameType DEF Frame, Calls
  <2>1. \A c \in Clients : [f EXCEPT !.client = c] \in Frame
    <3> HIDE DEF f
    <3> QED
      BY <2>0 DEF Frame
  <2>2. ClientsOf(m) \subseteq Clients
    BY <1>1 DEF ClientsOf, Tables, Table
  <2>3. db' = db /\ (\/ Goto(t, "insertClient", f)
                    \/ \E c \in Clients : Goto(t, "updateClient", [f EXCEPT !.client = c]))
    BY <1>3, <2>2 DEF FindClient
  <2> HIDE DEF f
  <2> QED
    BY <1>1, <1>2, <2>0, <2>1, <2>3, GotoTypes DEF Typed
<1>4. CASE UpdateClient(t)
  <2>1. Tables(db')
    <3>1. CASE frame[t].client \in DOMAIN db.client
      <4> DEFINE row == [db.client[frame[t].client] EXCEPT !.days = frame[t].days]
      <4>1. db.client[frame[t].client] \in ClientRow /\ frame[t].days \in Days
        BY <1>1, <3>1 DEF Tables, Table, Frame
      <4>2. row \in ClientRow
        BY <4>1 DEF ClientRow
      <4>3. Table([db.client EXCEPT ![frame[t].client] = row], Clients, ClientRow)
        BY <1>1, <4>2, TableStatements DEF Tables
      <4> QED
        BY <1>1, <1>4, <3>1, <4>3, OneTable DEF UpdateClient
    <3> QED
      BY <1>1, <1>4, <3>1 DEF UpdateClient
  <2> QED
    BY <1>4, <2>1, EndTypes DEF UpdateClient, Typed
<1>5. CASE InsertClient(t)
  <2> DEFINE fresh == FreshKeys(Clients, db.client, HeldKeys("client"))
             row == [measure |-> frame[t].measure, referer |-> t, days |-> frame[t].days]
             result == [db EXCEPT !.client = Insert(@, NewKey(fresh), row)]
  <2>1. NewKey(fresh) \in Clients /\ Execute(t, result, "idle", NoFrame)
    BY <1>5, NewKeyType DEF InsertClient, FreshKeys
  <2>2. Consistent(result) => Tables(result)
    <3>1. result.client[NewKey(fresh)].measure = frame[t].measure /\ result.measure = db.measure
          /\ NewKey(fresh) \in DOMAIN result.client
      BY <1>1, Fields DEF Insert, Tables
    <3>2. Consistent(result) => frame[t].measure \in Measures
      BY <1>1, <3>1 DEF Consistent, Tables, Table
    <3>3. frame[t].measure \in Measures => row \in ClientRow
      BY <1>1 DEF Frame, ClientRow
    <3> QED
      BY <2>1, <3>2, <3>3, InsertTypes
  <2> QED
    BY <1>1, <1>2, <2>1, <2>2, ExecuteTypes DEF Typed
<1>6. ASSUME NEW m \in Measures, RemoveClient(t, m)
      PROVE  Typed'
  <2>1. [NoFrame EXCEPT !.op = "removeClient", !.measure = m] \in Frame
    BY NoFrameType DEF Frame, Calls
  <2> QED
    BY <1>1, <1>2, <1>6, <2>1, DeleteTypes, GotoTypes DEF RemoveClient, Typed
<1> QED
  BY <1>3, <1>4, <1>5, <1>6, PurgeTypes, GiveUpTypes DEF ClientCall

LEMMA TelegramTypes ==
    ASSUME TypeOK, Telegram
    PROVE  Typed'
<1>1. frame[Reader] \in Frame /\ Tables(db) /\ Reader \in Threads
  BY MeasureThreads DEF TypeOK
<1>2. {"addStorage", "setLast", "checkClients"} \subseteq Labels
  BY DEF Labels
<1>3. ASSUME NEW a \in Addresses, ReceiveTelegram(a)
      PROVE  Typed'
  <2>1. PICK s \in DOMAIN db.sensor :
            Goto(Reader, "addStorage", [NoFrame EXCEPT !.op = "radioTelegram", !.measures = MeasuresOf(s)])
    BY <1>3 DEF ReceiveTelegram
  <2>2. MeasuresOf(s) \subseteq Measures
    BY <1>1 DEF MeasuresOf, Tables, Table
  <2>3. [NoFrame EXCEPT !.op = "radioTelegram", !.measures = MeasuresOf(s)] \in Frame
    BY <2>2, NoFrameType DEF Frame, Calls
  <2>4. db' = db
    BY <1>3 DEF ReceiveTelegram
  <2> QED
    BY <1>1, <1>2, <2>1, <2>3, <2>4, GotoTypes DEF Typed
<1>4. CASE AddStorage
  <2> DEFINE fresh == FreshKeys(Rows, db.data, HeldKeys("row"))
             row(m) == [measure |-> m, age |-> 0, older |-> DOMAIN db.data]
             result(m) == [db EXCEPT !.data = Insert(@, NewKey(fresh), row(m))]
             f(m) == [frame[Reader] EXCEPT !.measure = m, !.measures = @ \ {m}, !.row = NewKey(fresh)]
  <2>1. PICK m \in frame[Reader].measures : fresh # {} /\ Execute(Reader, result(m), "setLast", f(m))
    BY <1>4 DEF AddStorage
  <2>2. NewKey(fresh) \in Rows /\ m \in Measures
    BY <1>1, <2>1, NewKeyType DEF FreshKeys, Frame
  <2> HIDE DEF fresh
  <2>3. f(m) \in Frame
    BY <1>1, <2>2 DEF Frame
  <2>4. DOMAIN db.data \subseteq Rows /\ 0 \in Ages
    BY <1>1, TablesAssumption DEF Tables, Table, Ages
  <2>5. row(m) \in DataRow
    BY <2>2, <2>4 DEF DataRow
  <2>6. Tables(result(m))
    BY <2>2, <2>5, InsertTypes
  <2> HIDE DEF result, f
  <2> QED
    BY <1>1, <1>2, <2>1, <2>3, <2>6, ExecuteTypes DEF Typed
<1>5. CASE SetLastMeasureData
  <2> DEFINE m == frame[Reader].measure
             row == [db.measure[m] EXCEPT !.last = frame[Reader].row]
  <2>1. m \in DOMAIN db.measure => Table([db.measure EXCEPT ![m] = row], Measures, MeasureRow)
    <3>1. frame[Reader].row \in Rows \cup {None}
      BY <1>1 DEF Frame
    <3>2. m \in DOMAIN db.measure => db.measure[m] \in MeasureRow
      BY <1>1 DEF Tables, Table
    <3>3. m \in DOMAIN db.measure => row \in MeasureRow
      BY <3>1, <3>2 DEF MeasureRow
    <3> QED
      BY <1>1, <3>3, TableStatements DEF Tables
  <2>2. Tables(WithLast(m, frame[Reader].row))
    BY <1>1, <2>1, OneTable DEF WithLast
  <2> QED
    BY <1>1, <1>2, <1>5, <2>2, ExecuteTypes DEF SetLastMeasureData, Typed
<1> QED
  BY <1>1, <1>3, <1>4, <1>5, PurgeTypes, GiveUpTypes DEF Telegram

LEMMA MidnightTypes ==
    ASSUME TypeOK, Midnight
    PROVE  /\ Typed'
           /\ DOMAIN db'.data = DOMAIN db.data
           /\ \A r \in DOMAIN db.data :
                /\ db'.data[r].measure = db.data[r].measure /\ db'.data[r].older = db.data[r].older
                /\ db'.data[r].age = IF db.data[r].age > MaxDays THEN db.data[r].age ELSE db.data[r].age + 1
<1> DEFINE data == [r \in DOMAIN db.data |-> DayOlder(db.data[r])]
<1>1. Tables(db) /\ db' = [db EXCEPT !.data = data] /\ UNCHANGED <<pc, frame>>
  BY DEF Midnight, TypeOK
<1>2. ASSUME NEW row \in DataRow
      PROVE  /\ DayOlder(row) \in DataRow
             /\ DayOlder(row).measure = row.measure /\ DayOlder(row).older = row.older
             /\ DayOlder(row).age = IF row.age > MaxDays THEN row.age ELSE row.age + 1
  <2>1. (IF row.age > MaxDays THEN row.age ELSE row.age + 1) \in Ages
    BY TablesAssumption DEF DataRow, Ages
  <2> QED
    BY <2>1 DEF DataRow, DayOlder
<1>3. \A r \in DOMAIN db.data : db.data[r] \in DataRow
  BY <1>1 DEF Tables, Table
<1>4. Table(data, Rows, DataRow)
  BY <1>1, <1>2, <1>3 DEF Tables, Table
<1>5. db'.data = data
  BY <1>1, Fields DEF Tables
<1>6. Tables(db')
  BY <1>1, <1>4, OneTable
<1>7. Typed'
  BY <1>1, <1>6 DEF Typed, TypeOK
<1>8. DOMAIN db'.data = DOMAIN db.data /\ \A r \in DOMAIN db.data : db'.data[r] = DayOlder(db.data[r])
  BY <1>5
<1> QED
  BY <1>2, <1>3, <1>7, <1>8

LEMMA BeginType ==
    \A op \in Calls, g \in Groups \cup {None}, s \in Sensors \cup {None} : \A t : Begin(t, op, g, s) \in Frame
BY NoFrameType DEF Begin, Frame

LEMMA SensorDoneTypes ==
    ASSUME TypeOK, NEW t \in Threads, SensorDone(t), Tables(db')
    PROVE  Typed'
<1>1. frame[t] \in Frame /\ "nextSensor" \in Labels
  BY DEF TypeOK, Labels
<1> QED
  BY <1>1, EndTypes, GotoTypes DEF SensorDone, Typed

\* The calls on groups and links.
LEMMA GroupTypes ==
    ASSUME TypeOK, NEW t \in Threads,
           \/ \E g \in Groups : AddGroup(t, g) \/ DeleteGroup(t, g)
           \/ \E g \in Groups, s \in Sensors : AddSensorToGroup(t, g, s) \/ DeleteSensor(t, g, s)
           \/ LinkNewSensor(t) \/ NextSensor(t) \/ DeleteGroupRow(t) \/ CountGroups(t)
    PROVE  Typed'
<1>1. frame[t] \in Frame /\ Tables(db)
  BY DEF TypeOK
<1>2. {"nextSensor", "idle", "failed", "countGroups", "insertMeasures", "listMeasures"} \subseteq Labels
  BY DEF Labels
<1>3. \A x, y : Tables(DeleteLink(x, y))
  BY <1>1, OneTable DEF DeleteLink, Tables
<1>4. ASSUME NEW g \in Groups, AddGroup(t, g)
      PROVE  Typed'
  <2>1. Tables([db EXCEPT !.group = @ \cup {g}])
    BY <1>1, OneTable DEF Tables
  <2> QED
    BY <1>4, <2>1 DEF AddGroup, Typed, TypeOK
<1>5. ASSUME NEW g \in Groups, DeleteGroup(t, g)
      PROVE  Typed'
  <2>1. SensorsOf(g) \subseteq Sensors
    BY <1>1 DEF SensorsOf, Tables, Table
  <2>2. Begin(t, "deleteGroup", g, None) \in Frame
    BY BeginType DEF Calls
  <2>3. [Begin(t, "deleteGroup", g, None) EXCEPT !.sensors = SensorsOf(g)] \in Frame
    BY <2>1, <2>2 DEF Frame
  <2> QED
    BY <1>1, <1>2, <1>5, <2>3, GotoTypes DEF DeleteGroup, Typed
<1>6. ASSUME NEW x, NEW y \in Sensors \cup {None}, NEW label \in Labels, NEW f \in Frame,
             InsertLink(t, x, y, label, f), x \in Groups
      PROVE  Typed'
  <2> DEFINE result == [db EXCEPT !.groupSensor = @ \cup {<<x, y>>}]
  <2>1. Consistent(result) => Tables(result)
    <3>1. result.groupSensor = db.groupSensor \cup {<<x, y>>} /\ result.sensor = db.sensor
      BY <1>1, Fields DEF Tables
    <3>2. Consistent(result) => y \in Sensors
      BY <1>1, <3>1 DEF Consistent, Tables, Table
    <3> QED
      BY <1>1, <1>6, <3>2, OneTable DEF Tables
  <2>2. \/ Execute(t, result, label, f)
        \/ db' = db /\ Goto(t, "failed", frame[t])
    BY <1>6 DEF InsertLink
  <2> HIDE DEF result
  <2>3. CASE Execute(t, result, label, f)
    BY <2>1, <2>3, ExecuteTypes DEF Typed
  <2>4. CASE db' = db /\ Goto(t, "failed", frame[t])
    BY <1>1, <1>2, <2>4, GotoTypes DEF Typed
  <2> QED
    BY <2>2, <2>3, <2>4
<1>7. ASSUME NEW g \in Groups, NEW s \in Sensors, AddSensorToGroup(t, g, s)
      PROVE  Typed'
  BY <1>2, <1>6, <1>7, NoFrameType DEF AddSensorToGroup
<1>8. ASSUME NEW g \in Groups, NEW s \in Sensors, DeleteSensor(t, g, s)
      PROVE  Typed'
  <2>1. Begin(t, "deleteSensor", g, s) \in Frame
    BY BeginType DEF Calls
  <2> QED
    BY <1>1, <1>2, <1>3, <1>8, <2>1, GotoTypes DEF DeleteSensor, Typed
<1>9. CASE LinkNewSensor(t)
  <2>1. frame[t].group \in Groups \cup {None} /\ frame[t].sensor \in Sensors \cup {None}
    BY <1>1 DEF Frame
  <2>2. CASE frame[t].group \in Groups
    BY <1>1, <1>2, <1>6, <1>9, <2>1, <2>2 DEF LinkNewSensor
  <2>3. CASE frame[t].group = None
    <3> DEFINE result == [db EXCEPT !.groupSensor = @ \cup {<<None, frame[t].sensor>>}]
    <3>1. result.groupSensor = db.groupSensor \cup {<<None, frame[t].sensor>>} /\ result.group = db.group
      BY <1>1, Fields DEF Tables
    <3>2. ~Consistent(result)
      BY <1>1, <3>1, TablesAssumption DEF Consistent, Tables
    <3>3. db' = db /\ Goto(t, "failed", frame[t])
      BY <1>9, <2>3, <3>2 DEF LinkNewSensor, InsertLink, Execute
    <3> QED
      BY <1>1, <1>2, <3>3, GotoTypes DEF Typed
  <2> QED
    BY <2>1, <2>2, <2>3
<1>10. CASE NextSensor(t)
  <2>1. PICK y \in frame[t].sensors :
            /\ db' = DeleteLink(frame[t].group, y)
            /\ Goto(t, "countGroups", [frame[t] EXCEPT !.sensor = y, !.sensors = @ \ {y}, !.location = None])
    BY <1>10 DEF NextSensor
  <2>2. [frame[t] EXCEPT !.sensor = y, !.sensors = @ \ {y}, !.location = None] \in Frame
    BY <1>1 DEF Frame
  <2> QED
    BY <1>2, <1>3, <2>1, <2>2, GotoTypes DEF Typed
<1>11. CASE DeleteGroupRow(t)
  <2>1. Tables([db EXCEPT !.group = @ \ {frame[t].group}])
    BY <1>1, OneTable DEF Tables
  <2> QED
    BY <1>2, <1>11, <2>1, NoFrameType, ExecuteTypes DEF DeleteGroupRow, Typed
<1>12. CASE CountGroups(t)
  BY <1>1, <1>2, <1>12, GotoTypes, SensorDoneTypes DEF CountGroups, Typed
<1> QED
  BY <1>4, <1>5, <1>7, <1>8, <1>9, <1>10, <1>11, <1>12

\* The removal of a sensor's measures, and of a sensor.
LEMMA RemovalTypes ==
    ASSUME TypeOK, NEW t \in Threads,
           \/ ListMeasures(t) \/ RemoveMeasure(t) \/ DeleteClients(t) \/ ClearLast(t) \/ DeleteRows(t)
           \/ DeleteMeasure(t) \/ ReadLocation(t) \/ DeleteSensorRow(t)
    PROVE  Typed'
<1>1. frame[t] \in Frame /\ Tables(db)
  BY DEF TypeOK
<1>2. {"removeMeasure", "clearLast", "failed", "deleteRows", "deleteMeasure", "findObsolete", "deleteSensor",
       "countSensors"} \subseteq Labels
  BY DEF Labels
<1>3. CASE ListMeasures(t)
  <2>1. MeasuresOf(frame[t].sensor) \subseteq Measures
    BY <1>1 DEF MeasuresOf, Tables, Table
  <2>2. [frame[t] EXCEPT !.measures = MeasuresOf(frame[t].sensor)] \in Frame
    BY <1>1, <2>1 DEF Frame
  <2> QED
    BY <1>1, <1>2, <1>3, <2>2, GotoTypes DEF ListMeasures, Typed
<1>4. CASE RemoveMeasure(t)
  <2>1. PICK m \in frame[t].measures :
            /\ db' = [db EXCEPT !.client = Delete(@, ClientsOf(m))]
            /\ Goto(t, "clearLast", [frame[t] EXCEPT !.measure = m, !.measures = @ \ {m}])
    BY <1>4 DEF RemoveMeasure
  <2>2. [frame[t] EXCEPT !.measure = m, !.measures = @ \ {m}] \in Frame
    BY <1>1 DEF Frame
  <2> QED
    BY <1>2, <2>1, <2>2, DeleteTypes, GotoTypes DEF Typed
<1>5. CASE DeleteClients(t)
  BY <1>1, <1>2, <1>5, DeleteTypes, GotoTypes DEF DeleteClients, Typed
<1>6. CASE ClearLast(t)
  <2> DEFINE m == frame[t].measure
             row == [db.measure[m] EXCEPT !.last = None]
  <2>1. m \in DOMAIN db.measure => db.measure[m] \in MeasureRow
    BY <1>1 DEF Tables, Table
  <2>2. m \in DOMAIN db.measure => row \in MeasureRow
    BY <2>1 DEF MeasureRow
  <2>3. m \in DOMAIN db.measure => Table([db.measure EXCEPT ![m] = row], Measures, MeasureRow)
    BY <1>1, <2>2, TableStatements DEF Tables
  <2>4. Tables(WithLast(m, None))
    BY <1>1, <2>3, OneTable DEF WithLast
  <2> QED
    BY <1>1, <1>2, <1>6, <2>4, GotoTypes DEF ClearLast, Typed
<1>7. CASE DeleteRows(t)
  <2>1. \A keys : Tables([db EXCEPT !.data = DeleteValues(@, keys)])
    BY <1>1, OneTable, ValuesDeleted DEF Tables
  <2> QED
    BY <1>1, <1>2, <1>7, <2>1, ExecuteTypes DEF DeleteRows, Typed
<1>8. CASE DeleteMeasure(t)
  BY <1>1, <1>2, <1>8, DeleteTypes, ExecuteTypes DEF DeleteMeasure, Typed
<1>9. CASE ReadLocation(t)
  <2> DEFINE s == frame[t].sensor
             default == IF frame[t].op = "deleteSensor" THEN DefaultLocation ELSE None
             location == IF s \in DOMAIN db.sensor THEN db.sensor[s].location ELSE default
  <2>1. location \in Locations \cup {None, DefaultLocation}
    BY <1>1 DEF Tables, Table, SensorRow
  <2>2. Goto(t, "deleteSensor", [frame[t] EXCEPT !.location = location]) /\ db' = db
    BY <1>9 DEF ReadLocation
  <2> HIDE DEF location
  <2>3. [frame[t] EXCEPT !.location = location] \in Frame
    BY <1>1, <2>1 DEF Frame
  <2> QED
    BY <1>1, <1>2, <2>2, <2>3, GotoTypes DEF Typed
<1>10. CASE DeleteSensorRow(t)
  BY <1>1, <1>2, <1>10, DeleteTypes, ExecuteTypes DEF DeleteSensorRow, Typed
<1> QED
  BY <1>3, <1>4, <1>5, <1>6, <1>7, <1>8, <1>9, <1>10

\* Adding and updating sensors.
LEMMA SensorTypes ==
    ASSUME TypeOK, NEW t \in Threads,
           \/ \E a \in Addresses, g \in Groups, l \in Locations, shortcuts \in SUBSET Shortcuts :
                AddSensor(t, a, g, l, shortcuts)
           \/ \E s \in Sensors, a \in Addresses, l \in Locations, shortcuts \in SUBSET Shortcuts :
                UpdateSensor(t, s, a, l, shortcuts)
           \/ InsertMeasure(t) \/ CompareMeasures(t) \/ FindObsolete(t)
    PROVE  Typed'
<1>1. frame[t] \in Frame /\ Tables(db)
  BY DEF TypeOK
<1>2. {"insertLink", "insertMeasures", "compareMeasures", "findObsolete", "deleteClients"} \subseteq Labels
  BY DEF Labels
<1>3. ASSUME NEW a \in Addresses, NEW g \in Groups, NEW l \in Locations, NEW shortcuts \in SUBSET Shortcuts,
             AddSensor(t, a, g, l, shortcuts)
      PROVE  Typed'
  <2> DEFINE fresh == FreshKeys(Sensors, db.sensor, HeldSensors)
             row == [address |-> a, location |-> l]
             result == [db EXCEPT !.sensor = Insert(@, NewKey(fresh), row)]
             f == [Begin(t, "addSensor", g, NewKey(fresh)) EXCEPT !.shortcuts = shortcuts]
  <2>1. NewKey(fresh) \in Sensors /\ Execute(t, result, "insertLink", f)
    BY <1>3, NewKeyType DEF AddSensor, FreshKeys
  <2>2. row \in SensorRow
    BY DEF SensorRow
  <2>3. Tables(result)
    BY <2>1, <2>2, InsertTypes
  <2>4. Begin(t, "addSensor", g, NewKey(fresh)) \in Frame
    BY <2>1, BeginType DEF Calls
  <2>5. f \in Frame
    BY <2>4 DEF Frame
  <2> HIDE DEF result, f
  <2> QED
    BY <1>2, <2>1, <2>3, <2>5, ExecuteTypes DEF Typed
<1>4. CASE InsertMeasure(t)
  <2>1. CASE db' = db /\ End(t)
    BY <1>1, <2>1, EndTypes DEF Typed
  <2>2. ASSUME NEW shortcut \in frame[t].shortcuts, NEW fresh, fresh = FreshKeys(Measures, db.measure, HeldMeasures),
               fresh # {}, NEW row, row = [sensor |-> frame[t].sensor, shortcut |-> shortcut, last |-> None],
               NEW result, result = [db EXCEPT !.measure = Insert(@, NewKey(fresh), row)],
               NEW rest, rest = [frame[t] EXCEPT !.shortcuts = @ \ {shortcut}],
               \/ db' = db /\ Goto(t, "insertMeasures", rest)
               \/ Execute(t, result, "insertMeasures", rest)
        PROVE  Typed'
    <3>1. NewKey(fresh) \in Measures /\ shortcut \in Shortcuts
      BY <1>1, <2>2, NewKeyType DEF FreshKeys, Frame
    <3>2. rest \in Frame
      BY <1>1, <2>2 DEF Frame
    <3>3. result.measure[NewKey(fresh)] = row /\ NewKey(fresh) \in DOMAIN result.measure /\ result.sensor = db.sensor
      BY <1>1, <2>2, Fields DEF Tables, Insert
    <3>4. Consistent(result) => frame[t].sensor \in Sensors
      BY <1>1, <2>2, <3>3 DEF Consistent, Tables, Table
    <3>5. frame[t].sensor \in Sensors => row \in MeasureRow
      BY <2>2, <3>1 DEF MeasureRow
    <3>6. Consistent(result) => Tables(result)
      BY <2>2, <3>1, <3>4, <3>5, InsertTypes
    <3>7. CASE db' = db /\ Goto(t, "insertMeasures", rest)
      BY <1>1, <1>2, <3>2, <3>7, GotoTypes DEF Typed
    <3>8. CASE Execute(t, result, "insertMeasures", rest)
      BY <1>2, <3>2, <3>6, <3>8, ExecuteTypes DEF Typed
    <3> QED
      BY <2>2, <3>7, <3>8
  <2> QED
    BY <1>4, <2>1, <2>2 DEF InsertMeasure
<1>5. ASSUME NEW s \in Sensors, NEW a \in Addresses, NEW l \in Locations, NEW shortcuts \in SUBSET Shortcuts,
             UpdateSensor(t, s, a, l, shortcuts)
      PROVE  Typed'
  <2> DEFINE row == [address |-> a, location |-> l]
             result == IF s \in DOMAIN db.sensor THEN [db EXCEPT !.sensor[s] = row] ELSE db
             f == [Begin(t, "updateSensor", None, s) EXCEPT !.shortcuts = shortcuts]
  <2>2. row \in SensorRow
    BY DEF SensorRow
  <2>3. s \in DOMAIN db.sensor => Table([db.sensor EXCEPT ![s] = row], Sensors, SensorRow)
    BY <1>1, <2>2, TableStatements DEF Tables
  <2>4. Tables(result)
    BY <1>1, <2>3, OneTable
  <2>5. Begin(t, "updateSensor", None, s) \in Frame
    BY BeginType DEF Calls
  <2>6. f \in Frame
    BY <2>5 DEF Frame
  <2>7. Execute(t, result, "compareMeasures", f)
    BY <1>5 DEF UpdateSensor
  <2> HIDE DEF result, f
  <2> QED
    BY <1>2, <2>4, <2>6, <2>7, ExecuteTypes DEF Typed
<1>6. CASE CompareMeasures(t)
  <2> DEFINE stored == {<<m, db.measure[m].shortcut>> : m \in MeasuresOf(frame[t].sensor)}
             obsolete == {row \in stored : row[2] \notin frame[t].shortcuts}
             rest == frame[t].shortcuts \ {row[2] : row \in stored}
             f == [frame[t] EXCEPT !.obsolete = obsolete, !.shortcuts = rest]
  <2>1. db' = db /\ Goto(t, "findObsolete", f)
    BY <1>6 DEF CompareMeasures
  <2>2. \A m \in DOMAIN db.measure : m \in Measures /\ db.measure[m].shortcut \in Shortcuts
    BY <1>1 DEF Tables, Table, MeasureRow
  <2>3. stored \subseteq Measures \X Shortcuts
    BY <2>2 DEF MeasuresOf
  <2>4. obsolete \subseteq Measures \X Shortcuts
    BY <2>3
  <2> HIDE DEF stored, obsolete
  <2>5. rest \subseteq Shortcuts
    BY <1>1 DEF Frame
  <2> HIDE DEF rest
  <2>6. f \in Frame
    BY <1>1, <2>4, <2>5 DEF Frame
  <2> HIDE DEF f
  <2> QED
    BY <1>1, <1>2, <2>1, <2>6, GotoTypes DEF Typed
<1>7. CASE FindObsolete(t)
  <2>1. [frame[t] EXCEPT !.measure = None] \in Frame
    BY <1>1 DEF Frame
  <2>2. ASSUME NEW row, NEW m \in MeasuresOf(frame[t].sensor) \cup {None}
        PROVE  [frame[t] EXCEPT !.measure = m, !.obsolete = @ \ {row}] \in Frame
    <3>1. m \in Measures \cup {None}
      BY <1>1 DEF MeasuresOf, Tables, Table
    <3> QED
      BY <1>1, <3>1 DEF Frame
  <2>3. \/ Goto(t, "insertMeasures", [frame[t] EXCEPT !.measure = None])
        \/ \E row : \E m \in MeasuresOf(frame[t].sensor) \cup {None} :
                Goto(t, "deleteClients", [frame[t] EXCEPT !.measure = m, !.obsolete = @ \ {row}])
    BY <1>7 DEF FindObsolete
  <2>4. db' = db
    BY <1>7 DEF FindObsolete
  <2> QED
    BY <1>1, <1>2, <2>1, <2>2, <2>3, <2>4, GotoTypes DEF Typed
<1> QED
  BY <1>3, <1>4, <1>5, <1>6, <1>7

\* The removal of a location.
LEMMA DeleteLocationTypes ==
    ASSUME TypeOK, NEW t \in Threads,
           (\E l \in Locations : DeleteLocation(t, l)) \/ CountSensors(t) \/ CountChildren(t) \/ DeleteLocationRow(t)
    PROVE  Typed'
<1>1. frame[t] \in Frame /\ Tables(db)
  BY DEF TypeOK
<1>2. {"countSensors", "countChildren", "deleteLocation", "failed"} \subseteq Labels
  BY DEF Labels
<1>3. ASSUME NEW l \in Locations, DeleteLocation(t, l)
      PROVE  Typed'
  <2>1. [NoFrame EXCEPT !.op = "deleteLocation", !.location = l] \in Frame
    BY NoFrameType DEF Frame, Calls
  <2> QED
    BY <1>1, <1>2, <1>3, <2>1, GotoTypes DEF DeleteLocation, Typed
<1>4. CASE CountSensors(t)
  BY <1>1, <1>2, <1>4, GotoTypes, SensorDoneTypes DEF CountSensors, Typed
<1>5. CASE CountChildren(t)
  BY <1>1, <1>2, <1>5, GotoTypes, SensorDoneTypes DEF CountChildren, Typed
<1>6. CASE DeleteLocationRow(t)
  BY <1>1, <1>2, <1>6, DeleteTypes, GotoTypes, SensorDoneTypes DEF DeleteLocationRow, Typed
<1> QED
  BY <1>3, <1>4, <1>5, <1>6

LEMMA AdminCallTypes ==
    ASSUME TypeOK, NEW t \in Threads, AdminCall(t)
    PROVE  Typed'
BY GroupTypes, RemovalTypes, SensorTypes, DeleteLocationTypes, GiveUpTypes DEF AdminCall

\* The children of a location, in some order.
LEMMA ChildrenInSequence == \A l : Tables(db) => SetToSeq(Children(l)) \in Seq(Locations)
<1> SUFFICES ASSUME NEW l, Tables(db)
             PROVE  SetToSeq(Children(l)) \in Seq(Locations)
  OBVIOUS
<1> DEFINE S == Children(l)
<1>1. S \subseteq Locations
  BY DEF Children, Tables, Table
<1>2. IsFiniteSet(S)
  BY <1>1, LocationAssumption, FS_Subset
<1> HIDE DEF S
<1>3. Cardinality(S) \in Nat /\ ExistsBijection(1..Cardinality(S), S)
  BY <1>2, FS_CardinalityType
<1>4. \E f \in [1..Cardinality(S) -> S] : IsInjective(f)
  BY <1>3 DEF ExistsBijection, Bijection, Injection, IsInjective
<1>5. SetToSeq(S) \in [1..Cardinality(S) -> Locations]
  BY <1>1, <1>4 DEF SetToSeq
<1>6. SetToSeq(S) \in Seq(Locations)
  BY <1>3, <1>5
<1> QED
  BY <1>6 DEF S

\* A path is read and written for a row.
PendingRow == \A t \in Threads : pc[t] \in {"readName", "writePath"} => frame[t].pending # <<>>

LEMMA LocationCallTypes ==
    ASSUME TypeOK, PendingRow, NEW t \in Threads, LocationCall(t)
    PROVE  Typed'
<1>1. frame[t] \in Frame /\ Tables(db) /\ NoFrame \in Frame
  BY NoFrameType DEF TypeOK
<1>2. {"findPath", "idle", "listChildren", "readName", "writePath"} \subseteq Labels
  BY DEF Labels, LocationLabels
<1>3. \A l : ParentOf(l) \in Locations \cup {None}
  BY <1>1 DEF ParentOf, Tables, Table, LocationRow
<1>4. \A l \in DOMAIN db.location : l \in Locations /\ db.location[l] \in LocationRow
  BY <1>1 DEF Tables, Table
<1>5. ASSUME NEW parent \in Locations, NEW name \in Names, AddLocation(t, parent, name)
      PROVE  Typed'
  <2> DEFINE fresh == FreshKeys(Locations, db.location, HeldLocations)
             row == [parent |-> parent, name |-> name, path |-> None]
             result == [db EXCEPT !.location = Insert(@, NewKey(fresh), row)]
             f == [NoFrame EXCEPT !.op = "addLocation", !.pending = <<NewKey(fresh)>>]
  <2>1. NewKey(fresh) \in Locations /\ Execute(t, result, "findPath", f)
    BY <1>5, NewKeyType DEF AddLocation, FreshKeys
  <2>2. row \in LocationRow
    BY DEF LocationRow
  <2>3. Tables(result)
    BY <2>1, <2>2, InsertTypes
  <2> HIDE DEF fresh
  <2>4. <<NewKey(fresh)>> \in Seq(Locations)
    BY <2>1
  <2>5. f \in Frame
    BY <2>4, NoFrameType DEF Frame, Calls
  <2> HIDE DEF result, f
  <2> QED
    BY <1>2, <2>1, <2>3, <2>5, ExecuteTypes DEF Typed
<1>6. ASSUME NEW name \in Names, AddRoot(t, name)
      PROVE  Typed'
  <2> DEFINE fresh == FreshKeys(Locations, db.location, HeldLocations)
             row == [parent |-> None, name |-> name, path |-> None]
  <2>1. NewKey(fresh) \in Locations /\ db' = [db EXCEPT !.location = Insert(@, NewKey(fresh), row)]
    BY <1>6, NewKeyType DEF AddRoot, FreshKeys
  <2>2. row \in LocationRow
    BY DEF LocationRow
  <2>3. Tables(db')
    BY <2>1, <2>2, InsertTypes
  <2> QED
    BY <1>6, <2>3 DEF AddRoot, Typed, TypeOK
<1>7. \A l \in DOMAIN db.location, row \in LocationRow :
        Tables([db EXCEPT !.location = [db.location EXCEPT ![l] = row]])
  <2> SUFFICES ASSUME NEW l \in DOMAIN db.location, NEW row \in LocationRow
               PROVE  Tables([db EXCEPT !.location = [db.location EXCEPT ![l] = row]])
    OBVIOUS
  <2>1. Table([db.location EXCEPT ![l] = row], Locations, LocationRow)
    BY <1>1, TableStatements DEF Tables
  <2> QED
    BY <1>1, <2>1, OneTable
<1>8. ASSUME NEW l \in Locations, NEW name \in Names, UpdateLocation(t, l, name)
      PROVE  Typed'
  <2> DEFINE row == [db.location[l] EXCEPT !.name = name]
  <2>1. l \in DOMAIN db.location /\ db' = [db EXCEPT !.location = [db.location EXCEPT ![l] = row]]
    BY <1>1, <1>8 DEF UpdateLocation, Tables
  <2>2. row \in LocationRow
    BY <1>4, <2>1 DEF LocationRow
  <2>3. [NoFrame EXCEPT !.op = "updateLocation", !.location = l] \in Frame
    BY NoFrameType DEF Frame, Calls
  <2>4. Tables(db')
    BY <1>7, <2>1, <2>2
  <2> QED
    BY <1>2, <1>8, <2>3, <2>4, GotoTypes DEF UpdateLocation, Typed
<1>9. CASE ListChildren(t)
  <2> DEFINE children == SetToSeq(Children(frame[t].location))
  <2>1. children \in Seq(Locations)
    BY <1>1, ChildrenInSequence
  <2> HIDE DEF children
  <2>2. frame[t].pending \in Seq(Locations)
    BY <1>1 DEF Frame
  <2>3. children \o frame[t].pending \in Seq(Locations)
    BY <2>1, <2>2
  <2>4. [frame[t] EXCEPT !.location = None, !.pending = children \o @] \in Frame
    BY <1>1, <2>3 DEF Frame
  <2> QED
    BY <1>1, <1>2, <1>9, <2>4, GotoTypes DEF ListChildren, Typed, children
<1>10. CASE SelectParent(t)
  <2>1. \A l : [frame[t] EXCEPT !.location = ParentOf(l), !.path = <<>>] \in Frame
    BY <1>1, <1>3, EmptySeq DEF Frame
  <2>2. CASE End(t)
    BY <1>1, <1>10, <2>2, EndTypes DEF SelectParent, Typed
  <2>3. CASE FindPath(t, Head(frame[t].pending), frame[t])
    BY <1>1, <1>2, <1>10, <2>1, <2>3, GotoTypes DEF SelectParent, FindPath, Typed
  <2> QED
    BY <1>10, <2>2, <2>3 DEF SelectParent
<1>11. CASE ReadName(t)
  <2> DEFINE l == frame[t].location
  <2>1. CASE l \in DOMAIN db.location
    <3>1. db.location[l].name \in Names /\ frame[t].path \in Seq(Names)
      BY <1>1, <1>4, <2>1 DEF LocationRow, Frame
    <3>2. Append(frame[t].path, db.location[l].name) \in Seq(Names)
      BY <3>1
    <3>3. [frame[t] EXCEPT !.location = ParentOf(l), !.path = Append(@, db.location[l].name)] \in Frame
      BY <1>1, <1>3, <3>2 DEF Frame
    <3> QED
      BY <1>1, <1>2, <1>11, <2>1, <3>3, GotoTypes DEF ReadName, Typed
  <2>2. CASE l \notin DOMAIN db.location
    BY <1>1, <1>2, <1>11, <2>2, GotoTypes DEF ReadName, Typed
  <2> QED
    BY <2>1, <2>2
<1>12. CASE WritePath(t)
  <2> DEFINE l == Head(frame[t].pending)
             row == [db.location[l] EXCEPT !.path = frame[t].path]
             rest == [frame[t] EXCEPT !.pending = Tail(@), !.path = <<>>, !.location = None]
  <2>1. /\ frame[t].pending \in Seq(Locations) /\ frame[t].path \in Seq(Names)
        /\ frame[t].pending # <<>>
    BY <1>1, <1>12 DEF PendingRow, WritePath, Frame
  <2>2. l \in Locations /\ Tail(frame[t].pending) \in Seq(Locations)
    BY <2>1
  <2> HIDE DEF l
  <2>3. rest \in Frame
    BY <1>1, <2>2, EmptySeq DEF Frame
  <2>4. [rest EXCEPT !.location = l] \in Frame
    <3> HIDE DEF rest
    <3> QED
      BY <2>2, <2>3 DEF Frame
  <2>5. l \in DOMAIN db.location => row \in LocationRow
    BY <1>4, <2>1 DEF LocationRow
  <2>6. db' = IF l \in DOMAIN db.location THEN [db EXCEPT !.location = [db.location EXCEPT ![l] = row]] ELSE db
    BY <1>1, <1>12 DEF WritePath, Tables, l
  <2>7. Tables(db')
    BY <1>1, <1>7, <2>5, <2>6
  <2>8. Goto(t, "listChildren", [rest EXCEPT !.location = l]) \/ End(t)
    BY <1>12 DEF WritePath, l
  <2> HIDE DEF rest
  <2> QED
    BY <1>2, <2>4, <2>7, <2>8, EndTypes, GotoTypes DEF Typed
<1> QED
  BY <1>5, <1>6, <1>8, <1>9, <1>10, <1>11, <1>12, GiveUpTypes DEF LocationCall

\* Thread t is the one that makes the step.
Acts(t) == \A u \in Threads \ {t} : pc'[u] = pc[u] /\ frame'[u] = frame[u]
GoesTo(t, labels) == \E label \in labels, f \in {frame'[t]} : Goto(t, label, f)

LEMMA Going ==
    ASSUME TypeOK, NEW t \in Threads
    PROVE  /\ \A label, f : Goto(t, label, f) => GoesTo(t, {label})
           /\ \A result, label, f : Execute(t, result, label, f) => GoesTo(t, {label, "failed"})
           /\ End(t) => GoesTo(t, {"idle"})
           /\ GiveUp(t) => GoesTo(t, {"idle"})
           /\ SensorDone(t) => GoesTo(t, {"idle", "nextSensor"})
           /\ \A labels : GoesTo(t, labels) => pc'[t] \in labels /\ Acts(t)
<1>1. \A label, f : Goto(t, label, f) => frame'[t] = f
  BY DEF Goto, TypeOK
<1>2. \A label, f : Goto(t, label, f) => GoesTo(t, {label})
  BY <1>1 DEF GoesTo
<1> QED
  BY <1>1, <1>2 DEF Execute, End, GiveUp, SensorDone, GoesTo, Acts, Goto, TypeOK

\* Client calls and telegrams.
ClientLabels ==
    {"idle", "failed", "insertClient", "updateClient", "checkClients", "deleteData", "maxDays", "shrink",
     "addStorage", "setLast"}

LEMMA PurgeGoes ==
    ASSUME TypeOK, NEW t \in Threads, Purge(t)
    PROVE  GoesTo(t, {"deleteData", "maxDays", "shrink", "idle", "addStorage", "failed"})
<1>1. CASE CheckClients(t)
  BY <1>1, Going DEF CheckClients, GoesTo
<1>2. CASE DeleteData(t)
  BY <1>2, Going DEF DeleteData, GoesTo, AfterPurge
<1>3. CASE SelectMaxDays(t)
  BY <1>3, Going DEF SelectMaxDays, GoesTo
<1>4. CASE ShrinkData(t)
  BY <1>4, Going DEF ShrinkData, GoesTo, AfterPurge
<1> QED
  BY <1>1, <1>2, <1>3, <1>4 DEF Purge

LEMMA ClientCallGoes ==
    ASSUME TypeOK, NEW t \in Threads, ClientCall(t)
    PROVE  GoesTo(t, ClientLabels)
<1>1. ASSUME NEW m, NEW days, FindClient(t, m, days)
      PROVE  GoesTo(t, ClientLabels)
  <2>1. \/ \E f : Goto(t, "insertClient", f)
        \/ \E f : Goto(t, "updateClient", f)
    BY <1>1 DEF FindClient
  <2> QED
    BY <2>1, Going DEF GoesTo, ClientLabels
<1>2. CASE UpdateClient(t)
  BY <1>2, Going DEF UpdateClient, GoesTo, ClientLabels
<1>3. CASE InsertClient(t)
  BY <1>3, Going DEF InsertClient, GoesTo, ClientLabels
<1>4. ASSUME NEW m, RemoveClient(t, m)
      PROVE  GoesTo(t, ClientLabels)
  BY <1>4, Going DEF RemoveClient, GoesTo, ClientLabels
<1>5. CASE Purge(t) \/ GiveUp(t)
  BY <1>5, Going, PurgeGoes DEF GoesTo, ClientLabels
<1> QED
  BY <1>1, <1>2, <1>3, <1>4, <1>5 DEF ClientCall

LEMMA TelegramGoes ==
    ASSUME TypeOK, Telegram
    PROVE  GoesTo(Reader, ClientLabels)
<1>0. Reader \in Threads
  BY MeasureThreads
<1>1. ASSUME NEW a, ReceiveTelegram(a)
      PROVE  GoesTo(Reader, ClientLabels)
  BY <1>0, <1>1, Going DEF ReceiveTelegram, GoesTo, ClientLabels
<1>2. CASE AddStorage
  BY <1>0, <1>2, Going DEF AddStorage, GoesTo, ClientLabels
<1>3. CASE SetLastMeasureData
  BY <1>0, <1>3, Going DEF SetLastMeasureData, GoesTo, ClientLabels
<1>4. CASE Purge(Reader) \/ GiveUp(Reader)
  BY <1>0, <1>4, Going, PurgeGoes DEF GoesTo, ClientLabels
<1> QED
  BY <1>1, <1>2, <1>3, <1>4 DEF Telegram

AdminLabels ==
    {"idle", "failed", "insertLink", "insertMeasures", "nextSensor", "countGroups", "listMeasures", "removeMeasure",
     "deleteClients", "clearLast", "deleteRows", "deleteMeasure", "deleteSensor", "compareMeasures", "findObsolete",
     "countSensors", "countChildren", "deleteLocation"}

LEMMA AdminCallGoes ==
    ASSUME TypeOK, NEW t \in Threads, AdminCall(t)
    PROVE  GoesTo(t, AdminLabels) \/ UNCHANGED <<pc, frame>>
<1> DEFINE P == GoesTo(t, AdminLabels)
<1>1. ASSUME NEW g, DeleteGroup(t, g)
      PROVE  P
  BY <1>1, Going DEF DeleteGroup, GoesTo, AdminLabels
<1>2. ASSUME NEW a, NEW g, NEW l, NEW shortcuts, AddSensor(t, a, g, l, shortcuts)
      PROVE  P
  BY <1>2, Going DEF AddSensor, GoesTo, AdminLabels
<1>3. ASSUME NEW g, NEW s, AddSensorToGroup(t, g, s)
      PROVE  P
  BY <1>3, Going DEF AddSensorToGroup, InsertLink, GoesTo, AdminLabels
<1>4. ASSUME NEW g, NEW s, DeleteSensor(t, g, s)
      PROVE  P
  BY <1>4, Going DEF DeleteSensor, GoesTo, AdminLabels
<1>5. ASSUME NEW s, NEW a, NEW l, NEW shortcuts, UpdateSensor(t, s, a, l, shortcuts)
      PROVE  P
  BY <1>5, Going DEF UpdateSensor, GoesTo, AdminLabels
<1>6. ASSUME NEW l, DeleteLocation(t, l)
      PROVE  P
  BY <1>6, Going DEF DeleteLocation, GoesTo, AdminLabels
<1>7. CASE LinkNewSensor(t)
  BY <1>7, Going DEF LinkNewSensor, InsertLink, GoesTo, AdminLabels
<1>8. CASE InsertMeasure(t)
  <2>1. \/ End(t)
        \/ \E f : Goto(t, "insertMeasures", f)
        \/ \E result, f : Execute(t, result, "insertMeasures", f)
    BY <1>8 DEF InsertMeasure
  <2> QED
    BY <2>1, Going DEF GoesTo, AdminLabels
<1>9. CASE NextSensor(t)
  BY <1>9, Going DEF NextSensor, GoesTo, AdminLabels
<1>10. CASE DeleteGroupRow(t)
  BY <1>10, Going DEF DeleteGroupRow, GoesTo, AdminLabels
<1>11. CASE CountGroups(t) \/ CountSensors(t) \/ CountChildren(t) \/ DeleteLocationRow(t)
  <2>1. \/ \E label \in AdminLabels : \E f : Goto(t, label, f)
        \/ SensorDone(t)
    BY <1>11 DEF CountGroups, CountSensors, CountChildren, DeleteLocationRow, AdminLabels
  <2> QED
    BY <2>1, Going DEF GoesTo, AdminLabels
<1>12. CASE ListMeasures(t)
  BY <1>12, Going DEF ListMeasures, GoesTo, AdminLabels
<1>13. CASE RemoveMeasure(t)
  BY <1>13, Going DEF RemoveMeasure, GoesTo, AdminLabels
<1>14. CASE DeleteClients(t)
  BY <1>14, Going DEF DeleteClients, GoesTo, AdminLabels
<1>15. CASE ClearLast(t)
  BY <1>15, Going DEF ClearLast, GoesTo, AdminLabels
<1>16. CASE DeleteRows(t)
  BY <1>16, Going DEF DeleteRows, GoesTo, AdminLabels
<1>17. CASE DeleteMeasure(t)
  BY <1>17, Going DEF DeleteMeasure, GoesTo, AdminLabels
<1>18. CASE ReadLocation(t)
  BY <1>18, Going DEF ReadLocation, GoesTo, AdminLabels
<1>19. CASE DeleteSensorRow(t)
  BY <1>19, Going DEF DeleteSensorRow, GoesTo, AdminLabels
<1>20. CASE CompareMeasures(t)
  BY <1>20, Going DEF CompareMeasures, GoesTo, AdminLabels
<1>21. CASE FindObsolete(t)
  <2>1. \/ \E f : Goto(t, "insertMeasures", f)
        \/ \E f : Goto(t, "deleteClients", f)
    BY <1>21 DEF FindObsolete
  <2> QED
    BY <2>1, Going DEF GoesTo, AdminLabels
<1>22. CASE GiveUp(t)
  BY <1>22, Going DEF GoesTo, AdminLabels
<1>23. ASSUME NEW g, AddGroup(t, g)
       PROVE  UNCHANGED <<pc, frame>>
  BY <1>23 DEF AddGroup
<1> HIDE DEF P
<1> QED
  BY <1>1, <1>2, <1>3, <1>4, <1>5, <1>6, <1>7, <1>8, <1>9, <1>10, <1>11, <1>12, <1>13, <1>14, <1>15, <1>16,
     <1>17, <1>18, <1>19, <1>20, <1>21, <1>22, <1>23 DEF AdminCall, P

LEMMA LocationCallGoes ==
    ASSUME TypeOK, NEW t \in Threads, LocationCall(t)
    PROVE  \/ UNCHANGED <<pc, frame>>
           \/ GoesTo(t, LocationLabels \cup {"idle", "failed"}) /\ (PendingRow => PendingRow')
<1> DEFINE P == GoesTo(t, LocationLabels \cup {"idle", "failed"}) /\ (PendingRow => PendingRow')
<1>1. ASSUME NEW label \in (LocationLabels \cup {"idle", "failed"}) \ {"readName", "writePath"}, GoesTo(t, {label})
      PROVE  P
  <2>1. pc'[t] = label /\ Acts(t) /\ GoesTo(t, LocationLabels \cup {"idle", "failed"})
    BY <1>1, Going DEF GoesTo
  <2> QED
    BY <2>1 DEF PendingRow, Acts
<1>2. ASSUME NEW parent, NEW name, AddLocation(t, parent, name)
      PROVE  P
  <2>1. GoesTo(t, {"findPath", "failed"})
    BY <1>2, Going DEF AddLocation
  <2> QED
    BY <1>1, <2>1 DEF GoesTo, LocationLabels
<1>3. ASSUME NEW name, AddRoot(t, name)
      PROVE  UNCHANGED <<pc, frame>>
  BY <1>3 DEF AddRoot
<1>4. ASSUME NEW l, NEW name, UpdateLocation(t, l, name)
      PROVE  P
  <2>1. GoesTo(t, {"listChildren"})
    BY <1>4, Going DEF UpdateLocation
  <2> QED
    BY <1>1, <2>1 DEF LocationLabels
<1>5. CASE ListChildren(t)
  <2>1. GoesTo(t, {"findPath"})
    BY <1>5, Going DEF ListChildren
  <2> QED
    BY <1>1, <2>1 DEF LocationLabels
<1>6. CASE SelectParent(t)
  <2>1. CASE End(t)
    BY <1>1, <2>1, Going DEF LocationLabels
  <2>2. CASE frame[t].pending # <<>> /\ FindPath(t, Head(frame[t].pending), frame[t])
    <3> DEFINE f == [frame[t] EXCEPT !.location = ParentOf(Head(frame[t].pending)), !.path = <<>>]
    <3>1. Goto(t, "readName", f)
      BY <2>2 DEF FindPath
    <3>2. f.pending = frame[t].pending
      BY DEF TypeOK, Frame
    <3> HIDE DEF f
    <3>3. pc'[t] = "readName" /\ frame'[t].pending # <<>> /\ Acts(t) /\ GoesTo(t, {"readName"})
      BY <2>2, <3>1, <3>2, GotoMoves, Going DEF Moves
    <3> QED
      BY <3>3 DEF PendingRow, Acts, GoesTo, LocationLabels
  <2> QED
    BY <1>6, <2>1, <2>2 DEF SelectParent
<1>7. CASE ReadName(t)
  <2> DEFINE next == [frame[t] EXCEPT !.location = ParentOf(@), !.path = Append(@, db.location[frame[t].location].name)]
  <2>1. frame[t] \in Frame
    BY DEF TypeOK
  <2>2. next.pending = frame[t].pending
    BY <2>1 DEF Frame
  <2>3. PICK label \in {"readName", "writePath"}, f \in {frame[t], next} : Goto(t, label, f)
    BY <1>7 DEF ReadName
  <2>4. pc[t] = "readName"
    BY <1>7 DEF ReadName
  <2> HIDE DEF next
  <2>5. frame'[t].pending = frame[t].pending /\ GoesTo(t, {label})
    BY <2>2, <2>3, GotoMoves, Going DEF Moves
  <2>6. Acts(t) /\ pc'[t] = label
    BY <2>5, Going
  <2>7. GoesTo(t, LocationLabels \cup {"idle", "failed"})
    BY <2>3, <2>5 DEF GoesTo, LocationLabels
  <2>8. PendingRow => PendingRow'
    BY <2>4, <2>5, <2>6 DEF PendingRow, Acts
  <2> QED
    BY <2>7, <2>8
<1>8. CASE WritePath(t)
  <2>1. GoesTo(t, {"listChildren"}) \/ GoesTo(t, {"idle"})
    BY <1>8, Going DEF WritePath
  <2> QED
    BY <1>1, <2>1 DEF LocationLabels
<1>9. CASE GiveUp(t)
  BY <1>1, <1>9, Going DEF LocationLabels
<1> HIDE DEF P
<1> QED
  BY <1>2, <1>3, <1>4, <1>5, <1>6, <1>7, <1>8, <1>9 DEF LocationCall, P

\* The step of some thread, or midnight.
Step ==
    \/ \E t \in ClientThreads : ClientCall(t)
    \/ Telegram
    \/ Midnight
    \/ \E t \in AdminThreads : AdminCall(t)
    \/ \E t \in LocationThreads : LocationCall(t)

LEMMA RecordTypes ==
    ASSUME TypeOK, Typed', Record
    PROVE  TypeOK'
<1>1. overtaken' \subseteq Threads
  BY DEF Record
<1>2. disturbed' \in BOOLEAN
  BY DEF Record, TypeOK
<1>3. overlapped' \in BOOLEAN
  BY DEF Record, TypeOK
<1>4. broken' \subseteq DOMAIN db'.sensor
  BY DEF Record
<1>5. DOMAIN db'.sensor \subseteq Sensors
  BY DEF Typed, Tables, Table
<1> QED
  BY <1>1, <1>2, <1>3, <1>4, <1>5 DEF TypeOK, Typed

LEMMA StepTypes ==
    ASSUME TypeOK, PendingRow, Step
    PROVE  Typed' /\ PendingRow'
<1>1. UNCHANGED <<pc, frame>> => PendingRow'
  BY DEF PendingRow
<1>2. \A t \in Threads : pc'[t] \notin LocationLabels /\ Acts(t) => PendingRow'
  BY DEF PendingRow, Acts, LocationLabels
<1>3. ClientLabels \cap LocationLabels = {} /\ AdminLabels \cap LocationLabels = {}
  BY DEF ClientLabels, AdminLabels, LocationLabels
<1>4. CASE \E t \in ClientThreads : ClientCall(t)
  <2>1. PICK t \in ClientThreads : ClientCall(t)
    BY <1>4
  <2>2. t \in Threads
    BY MeasureThreads
  <2> QED
    BY <1>2, <1>3, <2>1, <2>2, ClientCallTypes, ClientCallGoes, Going
<1>5. CASE Telegram
  <2>1. Reader \in Threads
    BY MeasureThreads
  <2> QED
    BY <1>2, <1>3, <1>5, <2>1, TelegramTypes, TelegramGoes, Going
<1>6. CASE Midnight
  BY <1>1, <1>6, MidnightTypes DEF Midnight
<1>7. CASE \E t \in AdminThreads : AdminCall(t)
  <2>1. PICK t \in AdminThreads : AdminCall(t)
    BY <1>7
  <2>2. t \in Threads
    BY AdminAssumption
  <2> QED
    BY <1>1, <1>2, <1>3, <2>1, <2>2, AdminCallTypes, AdminCallGoes, Going
<1>8. CASE \E t \in LocationThreads : LocationCall(t)
  <2>1. PICK t \in LocationThreads : LocationCall(t)
    BY <1>8
  <2>2. t \in Threads
    BY LocationAssumption
  <2> QED
    BY <1>1, <2>1, <2>2, LocationCallTypes, LocationCallGoes
<1> QED
  BY <1>4, <1>5, <1>6, <1>7, <1>8 DEF Step

LEMMA NextTypes == TypeOK /\ PendingRow /\ [Next]_<<vars, history>> => TypeOK' /\ PendingRow'
<1> SUFFICES ASSUME TypeOK, PendingRow, [Next]_<<vars, history>>
             PROVE  TypeOK' /\ PendingRow'
  OBVIOUS
<1>1. CASE Next
  BY <1>1, StepTypes, RecordTypes DEF Next, Step
<1>2. CASE UNCHANGED <<vars, history>>
  BY <1>2 DEF vars, history, TypeOK, PendingRow
<1> QED
  BY <1>1, <1>2

LEMMA InitTypes == Init => TypeOK /\ PendingRow
<1> SUFFICES ASSUME Init
             PROVE  TypeOK /\ PendingRow
  OBVIOUS
<1>1. PICK s \in Scenarios : db = s.tables
  BY DEF Init
<1>2. Tables(db)
  BY <1>1, TablesAssumption
<1>3. pc \in [Threads -> Labels] /\ frame \in [Threads -> Frame] /\ \A t \in Threads : pc[t] = "idle"
  BY NoFrameType DEF Init, Labels
<1> QED
  BY <1>2, <1>3 DEF Init, TypeOK, PendingRow

\* The tables, the threads' local variables and their program counters have their types,
\* whichever calls overlap.
THEOREM TypeCorrect == Spec => []TypeOK
<1>1. Spec => [](TypeOK /\ PendingRow)
  BY InitTypes, NextTypes, PTL DEF Spec
<1> QED
  BY <1>1, PTL

-----------------------------------------------------------------------------
(* The keys of the tables. *)

\* Statements that add rows which refer to nothing, or take away rows to which nothing refers.
Harmless ==
    /\ db.group \subseteq db'.group
    /\ DOMAIN db'.sensor = DOMAIN db.sensor
    /\ \A s \in DOMAIN db.sensor : db'.sensor[s] = db.sensor[s]
    /\ db'.groupSensor \subseteq db.groupSensor
    /\ DOMAIN db'.measure = DOMAIN db.measure
    /\ \A m \in DOMAIN db.measure : /\ db'.measure[m].sensor = db.measure[m].sensor
                                    /\ db'.measure[m].last \in {None, db.measure[m].last}
    /\ DOMAIN db'.client \subseteq DOMAIN db.client
    /\ \A c \in DOMAIN db'.client : db'.client[c].measure = db.client[c].measure
    /\ DOMAIN db'.data = DOMAIN db.data
    /\ \A r \in DOMAIN db.data : db'.data[r].measure = db.data[r].measure
    /\ DOMAIN db.location \subseteq DOMAIN db'.location
    /\ \A l \in DOMAIN db'.location :
        \/ db'.location[l].parent = None
        \/ l \in DOMAIN db.location /\ db'.location[l].parent = db.location[l].parent

LEMMA HarmlessKeepsKeys == Consistent(db) /\ Harmless => Consistent(db')
BY DEF Consistent, Harmless

LEMMA ExecuteKeepsKeys ==
    \A t, result, label, f : Consistent(db) /\ Execute(t, result, label, f) => Consistent(db')
BY DEF Execute

\* What a statement leaves alone is harmless.
LEMMA OneTableHarmless ==
    ASSUME Tables(db), NEW x
    PROVE  /\ db' = db => Harmless
           /\ db.group \subseteq x /\ db' = [db EXCEPT !.group = x] => Harmless
           /\ x \subseteq db.groupSensor /\ db' = [db EXCEPT !.groupSensor = x] => Harmless
           /\ db' = [db EXCEPT !.client = Delete(@, x)] => Harmless
<1>1. db' = db => Harmless
  BY DEF Harmless
<1>2. db.group \subseteq x /\ db' = [db EXCEPT !.group = x] => Harmless
  BY DEF Harmless, Tables
<1>3. x \subseteq db.groupSensor /\ db' = [db EXCEPT !.groupSensor = x] => Harmless
  BY DEF Harmless, Tables
<1>4. db' = [db EXCEPT !.client = Delete(@, x)] => Harmless
  BY DEF Harmless, Tables, Delete
<1> QED
  BY <1>1, <1>2, <1>3, <1>4

LEMMA PurgeKeepsKeys ==
    ASSUME TypeOK, Consistent(db), NEW t \in Threads, Purge(t) \/ GiveUp(t)
    PROVE  Consistent(db')
BY ExecuteKeepsKeys DEF Purge, CheckClients, DeleteData, SelectMaxDays, ShrinkData, GiveUp

LEMMA ClientCallKeepsKeys ==
    ASSUME TypeOK, Consistent(db), NEW t \in Threads, ClientCall(t)
    PROVE  Consistent(db')
<1>1. Tables(db)
  BY DEF TypeOK
<1>2. ASSUME NEW m, NEW days, FindClient(t, m, days)
      PROVE  Consistent(db')
  BY <1>2 DEF FindClient
<1>3. CASE UpdateClient(t)
  <2>1. CASE frame[t].client \in DOMAIN db.client
    <3> DEFINE c == frame[t].client
    <3>1. db.client[c] \in ClientRow
      BY <1>1, <2>1 DEF Tables, Table
    <3>2. db' = [db EXCEPT !.client = [db.client EXCEPT ![c] = [db.client[c] EXCEPT !.days = frame[t].days]]]
      BY <1>1, <1>3, <2>1 DEF UpdateClient, Tables
    <3>3. [db.client[c] EXCEPT !.days = frame[t].days].measure = db.client[c].measure
      BY <3>1 DEF ClientRow
    <3>4. Harmless
      BY <1>1, <3>2, <3>3 DEF Tables, Harmless
    <3> QED
      BY <3>4, HarmlessKeepsKeys
  <2> QED
    BY <1>3, <2>1 DEF UpdateClient
<1>4. CASE InsertClient(t)
  BY <1>4, ExecuteKeepsKeys DEF InsertClient
<1>5. ASSUME NEW m, RemoveClient(t, m)
      PROVE  Consistent(db')
  BY <1>1, <1>5, OneTableHarmless, HarmlessKeepsKeys DEF RemoveClient
<1> QED
  BY <1>2, <1>3, <1>4, <1>5, PurgeKeepsKeys DEF ClientCall

LEMMA TelegramKeepsKeys ==
    ASSUME TypeOK, Consistent(db), Telegram
    PROVE  Consistent(db')
<1>1. Reader \in Threads
  BY MeasureThreads
<1> QED
  BY <1>1, ExecuteKeepsKeys, PurgeKeepsKeys DEF Telegram, ReceiveTelegram, AddStorage, SetLastMeasureData

LEMMA MidnightKeepsKeys ==
    ASSUME TypeOK, Consistent(db), Midnight
    PROVE  Consistent(db')
<1>1. /\ Tables(db) /\ DOMAIN db'.data = DOMAIN db.data
      /\ \A r \in DOMAIN db.data : db'.data[r].measure = db.data[r].measure
  BY MidnightTypes DEF TypeOK
<1>2. PICK x : db' = [db EXCEPT !.data = x]
  BY DEF Midnight
<1> QED
  BY <1>1, <1>2, HarmlessKeepsKeys DEF Harmless, Tables

LEMMA AdminCallKeepsKeys ==
    ASSUME TypeOK, Consistent(db), NEW t \in Threads, AdminCall(t)
    PROVE  Consistent(db')
<1>1. Tables(db)
  BY DEF TypeOK
<1>2. \A x, y : db' = DeleteLink(x, y) => Consistent(db')
  BY <1>1, OneTableHarmless, HarmlessKeepsKeys DEF DeleteLink
<1>3. \A keys : db' = [db EXCEPT !.client = Delete(@, keys)] => Consistent(db')
  BY <1>1, OneTableHarmless, HarmlessKeepsKeys
<1>4. ASSUME NEW g, AddGroup(t, g)
      PROVE  Consistent(db')
  <2>1. db' = [db EXCEPT !.group = db.group \cup {g}]
    BY <1>1, <1>4 DEF AddGroup, Tables
  <2> QED
    BY <1>1, <2>1, OneTableHarmless, HarmlessKeepsKeys
<1>5. ASSUME NEW g, NEW s, AddSensorToGroup(t, g, s) \/ DeleteSensor(t, g, s)
      PROVE  Consistent(db')
  BY <1>2, <1>5, ExecuteKeepsKeys DEF AddSensorToGroup, InsertLink, DeleteSensor
<1>6. ASSUME NEW a, NEW g, NEW s, NEW l, NEW shortcuts,
             \/ AddSensor(t, a, g, l, shortcuts) \/ UpdateSensor(t, s, a, l, shortcuts)
             \/ DeleteGroup(t, g) \/ DeleteLocation(t, l)
      PROVE  Consistent(db')
  BY <1>6, ExecuteKeepsKeys DEF AddSensor, UpdateSensor, DeleteGroup, DeleteLocation
<1>7. CASE LinkNewSensor(t) \/ NextSensor(t) \/ DeleteGroupRow(t) \/ DeleteRows(t) \/ DeleteMeasure(t) \/ DeleteSensorRow(t)
  BY <1>2, <1>7, ExecuteKeepsKeys
  DEF LinkNewSensor, InsertLink, NextSensor, DeleteGroupRow, DeleteRows, DeleteMeasure, DeleteSensorRow
<1>8. CASE InsertMeasure(t)
  <2>1. db' = db \/ \E result, label, f : Execute(t, result, label, f)
    BY <1>8 DEF InsertMeasure
  <2> QED
    BY <2>1, ExecuteKeepsKeys
<1>9. CASE RemoveMeasure(t) \/ DeleteClients(t)
  BY <1>3, <1>9 DEF RemoveMeasure, DeleteClients
<1>10. CASE ClearLast(t)
  <2> DEFINE m == frame[t].measure
  <2>1. CASE db' = db
    BY <2>1
  <2>2. CASE m \in DOMAIN db.measure /\ db' = [db EXCEPT !.measure[m].last = None]
    <3>1. db.measure[m] \in MeasureRow
      BY <1>1, <2>2 DEF Tables, Table
    <3>2. [db.measure[m] EXCEPT !.last = None].sensor = db.measure[m].sensor
          /\ [db.measure[m] EXCEPT !.last = None].last = None
      BY <3>1 DEF MeasureRow
    <3>3. db' = [db EXCEPT !.measure = [db.measure EXCEPT ![m] = [db.measure[m] EXCEPT !.last = None]]]
      BY <1>1, <2>2 DEF Tables
    <3>4. Harmless
      BY <1>1, <3>2, <3>3 DEF Tables, Harmless
    <3> QED
      BY <3>4, HarmlessKeepsKeys
  <2> QED
    BY <1>10, <2>1, <2>2 DEF ClearLast, WithLast
<1>11. CASE \/ CountGroups(t) \/ ListMeasures(t) \/ ReadLocation(t) \/ CompareMeasures(t) \/ FindObsolete(t)
            \/ CountSensors(t) \/ CountChildren(t) \/ DeleteLocationRow(t) \/ GiveUp(t)
  BY <1>11 DEF CountGroups, ListMeasures, ReadLocation, CompareMeasures, FindObsolete, CountSensors, CountChildren,
               DeleteLocationRow, GiveUp
<1> QED
  BY <1>4, <1>5, <1>6, <1>7, <1>8, <1>9, <1>10, <1>11 DEF AdminCall

LEMMA LocationCallKeepsKeys ==
    ASSUME TypeOK, Consistent(db), NEW t \in Threads, LocationCall(t)
    PROVE  Consistent(db')
<1>1. Tables(db)
  BY DEF TypeOK
<1>2. \A l \in DOMAIN db.location : db.location[l] \in LocationRow
  BY <1>1 DEF Tables, Table
<1>3. ASSUME NEW l \in DOMAIN db.location, NEW row, row.parent = db.location[l].parent,
             db' = [db EXCEPT !.location = [db.location EXCEPT ![l] = row]]
      PROVE  Consistent(db')
  BY <1>1, <1>3, HarmlessKeepsKeys DEF Tables, Harmless
<1>4. ASSUME NEW parent, NEW name, AddLocation(t, parent, name)
      PROVE  Consistent(db')
  BY <1>4, ExecuteKeepsKeys DEF AddLocation
<1>5. ASSUME NEW name, AddRoot(t, name)
      PROVE  Consistent(db')
  <2> DEFINE fresh == FreshKeys(Locations, db.location, HeldLocations)
             row == [parent |-> None, name |-> name, path |-> None]
  <2>1. db' = [db EXCEPT !.location = Insert(db.location, NewKey(fresh), row)]
        /\ NewKey(fresh) \notin DOMAIN db.location
    BY <1>1, <1>5, NewKeyType DEF AddRoot, Tables, FreshKeys
  <2>2. DOMAIN Insert(db.location, NewKey(fresh), row) = DOMAIN db.location \cup {NewKey(fresh)}
        /\ \A l \in DOMAIN db.location \cup {NewKey(fresh)} :
                Insert(db.location, NewKey(fresh), row)[l] = IF l = NewKey(fresh) THEN row ELSE db.location[l]
    BY DEF Insert
  <2> HIDE DEF fresh
  <2>3. Harmless
    BY <1>1, <2>1, <2>2 DEF Tables, Harmless
  <2> QED
    BY <2>3, HarmlessKeepsKeys
<1>6. ASSUME NEW l, NEW name, UpdateLocation(t, l, name)
      PROVE  Consistent(db')
  <2> DEFINE row == [db.location[l] EXCEPT !.name = name]
  <2>1. l \in DOMAIN db.location /\ db' = [db EXCEPT !.location = [db.location EXCEPT ![l] = row]]
    BY <1>1, <1>6 DEF UpdateLocation, Tables
  <2>2. row.parent = db.location[l].parent
    BY <1>2, <2>1 DEF LocationRow
  <2> QED
    BY <1>3, <2>1, <2>2
<1>7. CASE WritePath(t)
  <2> DEFINE l == Head(frame[t].pending)
             row == [db.location[l] EXCEPT !.path = frame[t].path]
  <2>1. db' = IF l \in DOMAIN db.location THEN [db EXCEPT !.location = [db.location EXCEPT ![l] = row]] ELSE db
    BY <1>1, <1>7 DEF WritePath, Tables
  <2>2. l \in DOMAIN db.location => row.parent = db.location[l].parent
    BY <1>2 DEF LocationRow
  <2> QED
    BY <1>3, <2>1, <2>2
<1>8. CASE ListChildren(t) \/ SelectParent(t) \/ ReadName(t) \/ GiveUp(t)
  BY <1>8 DEF ListChildren, SelectParent, ReadName, GiveUp
<1> QED
  BY <1>4, <1>5, <1>6, <1>7, <1>8 DEF LocationCall

LEMMA StepKeepsKeys ==
    ASSUME TypeOK, Consistent(db), Step
    PROVE  Consistent(db')
BY MeasureThreads, AdminAssumption, LocationAssumption, ClientCallKeepsKeys, TelegramKeepsKeys, MidnightKeepsKeys,
   AdminCallKeepsKeys, LocationCallKeepsKeys DEF Step

\* What every step finds: typed tables whose keys agree.
Sound == TypeOK /\ PendingRow /\ Consistent(db)

LEMMA SoundStep == Sound /\ [Next]_<<vars, history>> => Sound'
<1> SUFFICES ASSUME Sound, [Next]_<<vars, history>>
             PROVE  Consistent(db')
  BY NextTypes DEF Sound
<1>1. CASE Next
  BY <1>1, StepKeepsKeys DEF Next, Step, Sound
<1>2. CASE UNCHANGED <<vars, history>>
  BY <1>2 DEF vars, Sound
<1> QED
  BY <1>1, <1>2

LEMMA SoundInit == Init => Sound
BY InitTypes, TablesAssumption DEF Init, Sound

\* The foreign keys and the unique address of the SQL script hold after every statement, also those
\* of deletions whose parts interleave: none of them leaves a row that refers to a missing one.
THEOREM Integrity == Spec => []Consistent(db)
<1>1. Spec => []Sound
  BY SoundInit, SoundStep, PTL DEF Spec
<1>2. Sound => Consistent(db)
  BY DEF Sound
<1> QED
  BY <1>1, <1>2, PTL

-----------------------------------------------------------------------------
(* What holds of the values, between the statements of all threads. *)

\* Values are numbered as they come, and none is older than one that came before it.
Ordered ==
    /\ \A r \in DOMAIN db.data : db.data[r].older \subseteq DOMAIN db.data \ {r}
    /\ \A r, q \in DOMAIN db.data :
        /\ r # q => (r \in db.data[q].older <=> q \notin db.data[r].older)
        /\ r \in db.data[q].older => db.data[r].age >= db.data[q].age

\* The value being stored: inserted, and not yet the last of its measure.
Storing(r) == pc[Reader] = "setLast" /\ frame[Reader].row = r

StoredIsNewest ==
    \A r \in DOMAIN db.data :
        Storing(r) => db.data[r].measure = frame[Reader].measure /\ DOMAIN db.data \ {r} \subseteq db.data[r].older

\* The last value of a measure is one of its own, and the newest but for the one being stored; a
\* measure without a last value has no value, or loses them.
LastAmongOwn ==
    \A m \in DOMAIN db.measure :
        LET last == db.measure[m].last
        IN  /\ last = None => \A r \in RowsOf(m) :
                    Storing(r) \/ \E t \in Threads : pc[t] = "deleteRows" /\ frame[t].measure = m
            /\ last # None => last \in RowsOf(m) /\ \A r \in RowsOf(m) \ {last} : r \in db.data[last].older \/ Storing(r)

\* Whoever removes measures removes those of one sensor.
Removal == {"removeMeasure", "deleteClients", "clearLast", "deleteRows", "deleteMeasure"}
RemovesOwn(t) ==
    \A m \in DOMAIN db.measure :
        pc[t] \in Removal =>
            /\ m = frame[t].measure /\ pc[t] # "removeMeasure" => db.measure[m].sensor = frame[t].sensor
            /\ m \in frame[t].measures /\ (pc[t] = "removeMeasure" \/ frame[t].op # "updateSensor")
                    => db.measure[m].sensor = frame[t].sensor
AllRemoveOwn == \A t \in Threads : RemovesOwn(t)

\* Thread t is going to remove the values of m but the last, or to give up a removal half-way.
PurgeDue(t, m) ==
    /\ frame[t].measure = m
    /\ \/ t = Reader /\ pc[t] = "setLast" /\ frame[t].row \in DOMAIN db.data
       \/ pc[t] \in {"checkClients", "deleteData", "clearLast"}
       \/ pc[t] = "deleteRows" /\ db.measure[m].last = None
       \/ t \in AdminThreads /\ pc[t] = "failed" /\ frame[t].sensor = db.measure[m].sensor

Shrunk ==
    \A m \in DOMAIN db.measure :
        ClientsOf(m) = {} /\ db.measure[m].sensor \notin broken
            => (\A r, q \in RowsOf(m) : r = q) \/ \E t \in Threads : PurgeDue(t, m)

\* Nothing that an undisturbed telegram refers to has gone.
TelegramSafe ==
    ~disturbed =>
        LET m == frame[Reader].measure
            r == frame[Reader].row
        IN  /\ pc[Reader] # "failed"
            /\ pc[Reader] # "idle" => frame[Reader].measures \subseteq DOMAIN db.measure
            /\ pc[Reader] \notin {"idle", "addStorage"} =>
                    r \in DOMAIN db.data /\ db.data[r].measure = m /\ db.data[r].age = 0
            /\ pc[Reader] \notin {"idle", "addStorage", "setLast"} => db.measure[m].last \in {r, None}

\* Unless it was overtaken, a purge is about to delete what no client wants.
KnowsClients(t) ==
    /\ pc[t] = "deleteData" => ClientsOf(frame[t].measure) = {}
    /\ pc[t] = "shrink" => \A c \in ClientsOf(frame[t].measure) : db.client[c].days =< frame[t].days
PurgesKnowClients == \A t \in Threads \ overtaken : KnowsClients(t)

\* Which call a statement is of, and what it has to work with.
Works(t) ==
    /\ t = Reader =>
        /\ pc[t] \in {"idle", "addStorage", "setLast", "checkClients", "deleteData", "maxDays", "shrink", "failed"}
        /\ pc[t] = "setLast" => frame[t].row # None
    /\ pc[t] = "nextSensor" => frame[t].op = "deleteGroup"
    /\ pc[t] \in {"compareMeasures", "findObsolete", "deleteClients"} => frame[t].op = "updateSensor"
Working == \A t \in Threads : Works(t)

ValuesOK ==
    /\ Ordered /\ StoredIsNewest /\ LastAmongOwn /\ AllRemoveOwn /\ Shrunk
    /\ TelegramSafe /\ PurgesKnowClients /\ Working

-----------------------------------------------------------------------------
(* What the steps do to the values. *)

\* The values but those in keys stay, in their order.
Fewer(keys) ==
    /\ DOMAIN db'.data = DOMAIN db.data \ keys
    /\ \A r \in DOMAIN db'.data :
        db'.data[r].measure = db.data[r].measure /\ db'.data[r].older = db.data[r].older \ keys
    /\ \A r, q \in DOMAIN db'.data : db.data[r].age >= db.data[q].age => db'.data[r].age >= db'.data[q].age

LEMMA SameValues == db'.data = db.data => Fewer({})
BY DEF Fewer

LEMMA FewerValues ==
    ASSUME TypeOK, NEW keys, db' = Without(keys)
    PROVE  /\ Fewer(keys) /\ \A r \in DOMAIN db'.data : db'.data[r].age = db.data[r].age
           /\ db'.measure = db.measure /\ db'.client = db.client /\ db'.sensor = db.sensor
<1>1. Tables(db) /\ db' = [db EXCEPT !.data = DeleteValues(db.data, keys)]
  BY DEF TypeOK, Without, Tables
<1>2. db'.data = DeleteValues(db.data, keys)
  BY <1>1, Fields DEF Tables
<1>3. Table(db.data, Rows, DataRow)
  BY <1>1 DEF Tables
<1>4. db'.measure = db.measure /\ db'.client = db.client /\ db'.sensor = db.sensor
  BY <1>1, Fields DEF Tables
<1>5. DOMAIN db'.data = DOMAIN db.data \ keys
  BY <1>2, <1>3, ValuesDeleted
<1>6. \A r \in DOMAIN db.data \ keys :
        /\ db'.data[r].measure = db.data[r].measure /\ db'.data[r].age = db.data[r].age
        /\ db'.data[r].older = db.data[r].older \ keys
  BY <1>2, <1>3, ValueKept
<1> QED
  BY <1>4, <1>5, <1>6 DEF Fewer

LEMMA FewerMidnight ==
    ASSUME TypeOK, Midnight
    PROVE  Fewer({}) /\ db'.measure = db.measure /\ db'.client = db.client /\ db'.sensor = db.sensor
<1>1. /\ DOMAIN db'.data = DOMAIN db.data
      /\ \A r \in DOMAIN db.data :
            /\ db'.data[r].measure = db.data[r].measure /\ db'.data[r].older = db.data[r].older
            /\ db'.data[r].age = IF db.data[r].age > MaxDays THEN db.data[r].age ELSE db.data[r].age + 1
  BY MidnightTypes
<1>2. \A r \in DOMAIN db.data : db.data[r].age \in Int
  BY TablesAssumption DEF TypeOK, Tables, Table, DataRow, Ages
<1>3. MaxDays \in Nat
  BY TablesAssumption
<1>4. PICK x : db' = [db EXCEPT !.data = x]
  BY DEF Midnight
<1>5. db'.measure = db.measure /\ db'.client = db.client /\ db'.sensor = db.sensor
  BY <1>4, Fields DEF TypeOK, Tables
<1>6. ASSUME NEW r \in DOMAIN db.data, NEW q \in DOMAIN db.data, db.data[r].age >= db.data[q].age
      PROVE  db'.data[r].age >= db'.data[q].age
  <2>1. /\ db'.data[r].age = IF db.data[r].age > MaxDays THEN db.data[r].age ELSE db.data[r].age + 1
        /\ db'.data[q].age = IF db.data[q].age > MaxDays THEN db.data[q].age ELSE db.data[q].age + 1
    BY <1>1
  <2>2. db.data[r].age \in Int /\ db.data[q].age \in Int
    BY <1>2
  <2> QED
    BY <1>3, <1>6, <2>1, <2>2
<1> QED
  BY <1>1, <1>5, <1>6 DEF Fewer

LEMMA FewerOrdered ==
    ASSUME Ordered, NEW keys, Fewer(keys)
    PROVE  Ordered'
BY DEF Ordered, Fewer

\* The reading thread has not begun to store another value.
NoNewValue == pc'[Reader] = "setLast" => pc[Reader] = "setLast" /\ frame'[Reader] = frame[Reader]

LEMMA FewerNewest ==
    ASSUME StoredIsNewest, NEW keys, Fewer(keys), NoNewValue
    PROVE  StoredIsNewest'
BY DEF StoredIsNewest, Fewer, NoNewValue, Storing

\* Measures keep their last value or lose it with all their values, and whoever deletes these gets
\* that done.
LEMMA FewerLast ==
    ASSUME Sound, Sound', LastAmongOwn, NEW keys, Fewer(keys),
           \A m \in DOMAIN db'.measure :
                \/ /\ db'.measure[m].last = None
                   /\ RowsOf(m)' = {} \/ \E t \in Threads : pc'[t] = "deleteRows" /\ frame'[t].measure = m
                \/ m \in DOMAIN db.measure /\ db'.measure[m].last = db.measure[m].last,
           \A r : Storing(r) => r \notin DOMAIN db'.data \/ Storing(r)',
           \A t \in Threads, m \in DOMAIN db'.measure :
                pc[t] = "deleteRows" /\ frame[t].measure = m /\ db.measure[m].last = None
                => RowsOf(m)' = {} \/ (pc'[t] = "deleteRows" /\ frame'[t].measure = m)
    PROVE  LastAmongOwn'
<1> SUFFICES ASSUME NEW m \in DOMAIN db'.measure
             PROVE  LET last == db'.measure[m].last
                    IN  /\ last = None => \A r \in RowsOf(m)' :
                                Storing(r)' \/ \E t \in Threads : pc'[t] = "deleteRows" /\ frame'[t].measure = m
                        /\ last # None => /\ last \in RowsOf(m)'
                                          /\ \A r \in RowsOf(m)' \ {last} : r \in db'.data[last].older \/ Storing(r)'
  BY DEF LastAmongOwn
<1> DEFINE last == db.measure[m].last
<1>1. CASE /\ db'.measure[m].last = None
           /\ RowsOf(m)' = {} \/ \E t \in Threads : pc'[t] = "deleteRows" /\ frame'[t].measure = m
  BY <1>1
<1>2. CASE m \in DOMAIN db.measure /\ db'.measure[m].last = last
  <2>1. RowsOf(m)' = RowsOf(m) \ keys
    BY DEF RowsOf, Fewer
  <2>2. \A r \in RowsOf(m)' : r \in DOMAIN db'.data
    BY DEF RowsOf
  <2>3. CASE last = None
    BY <1>2, <2>1, <2>2, <2>3 DEF LastAmongOwn
  <2>4. CASE last # None
    <3>1. last \in DOMAIN db'.data
      BY <1>2, <2>4 DEF Sound, Consistent
    <3>2. last \in RowsOf(m)'
      BY <1>2, <2>1, <2>4, <3>1 DEF LastAmongOwn, Fewer
    <3>3. ASSUME NEW r \in RowsOf(m)' \ {last}
          PROVE  r \in db'.data[last].older \/ Storing(r)'
      BY <1>2, <2>1, <2>2, <2>4, <3>1 DEF LastAmongOwn, Fewer
    <3> QED
      BY <1>2, <2>4, <3>2, <3>3
  <2> QED
    BY <2>3, <2>4
<1> QED
  BY <1>1, <1>2

\* Thread t makes the step and may disturb only itself.
LEMMA OthersRemoveOwn ==
    ASSUME Sound, AllRemoveOwn, NEW t \in Threads, Acts(t), RemovesOwn(t)',
           \A m \in DOMAIN db'.measure :
                \/ m \in DOMAIN db.measure /\ db'.measure[m].sensor = db.measure[m].sensor
                \/ \A u \in Threads : frame[u].measure # m /\ m \notin frame[u].measures
    PROVE  AllRemoveOwn'
<1> SUFFICES ASSUME NEW u \in Threads \ {t}
             PROVE  RemovesOwn(u)'
  BY DEF AllRemoveOwn
<1>1. RemovesOwn(u) /\ pc'[u] = pc[u] /\ frame'[u] = frame[u]
  BY DEF AllRemoveOwn, Acts
<1> QED
  BY <1>1 DEF RemovesOwn

LEMMA OthersKnowClients ==
    ASSUME Sound, PurgesKnowClients, Record, NEW t \in Threads, Acts(t), KnowsClients(t)'
    PROVE  PurgesKnowClients'
<1> SUFFICES ASSUME NEW u \in Threads \ {t}, u \notin overtaken'
             PROVE  KnowsClients(u)'
  BY DEF PurgesKnowClients
<1>1. pc'[u] = pc[u] /\ frame'[u] = frame[u]
  BY DEF Acts
<1>2. CASE pc[u] \notin {"deleteData", "shrink"}
  BY <1>1, <1>2 DEF KnowsClients
<1>3. CASE pc[u] \in {"deleteData", "shrink"}
  <2>1. u \notin overtaken /\ ~Registered(frame[u].measure)
    BY <1>1, <1>3 DEF Record, Purging
  <2>2. \A c \in ClientsOf(frame[u].measure)' : c \in ClientsOf(frame[u].measure) /\ db'.client[c] = db.client[c]
    BY <1>1, <2>1 DEF Registered, ClientsOf
  <2>3. KnowsClients(u)
    BY <2>1 DEF PurgesKnowClients
  <2> QED
    BY <1>1, <2>2, <2>3 DEF KnowsClients
<1> QED
  BY <1>2, <1>3

LEMMA OthersLeaveTelegram ==
    ASSUME Sound, Sound', TelegramSafe, Record, NEW t \in Threads \ {Reader}, Acts(t), NEW keys, Fewer(keys),
           \A r \in DOMAIN db'.data : db'.data[r].age = db.data[r].age,
           \A m \in DOMAIN db.measure \cap DOMAIN db'.measure : db'.measure[m].last \in {None, db.measure[m].last}
    PROVE  TelegramSafe'
<1>1. Reader \in Threads /\ pc'[Reader] = pc[Reader] /\ frame'[Reader] = frame[Reader]
  BY MeasureThreads DEF Acts
<1> SUFFICES ASSUME ~disturbed', pc[Reader] # "idle"
             PROVE  TelegramSafe'
  BY <1>1 DEF TelegramSafe
<1>2. ~disturbed /\ DOMAIN db.measure \subseteq DOMAIN db'.measure /\ DOMAIN db.data \subseteq DOMAIN db'.data
  BY <1>1 DEF Record, Deleted
<1> DEFINE m == frame[Reader].measure
           r == frame[Reader].row
<1>3. pc[Reader] # "failed" /\ frame[Reader].measures \subseteq DOMAIN db'.measure
  BY <1>2 DEF TelegramSafe
<1>4. ASSUME pc[Reader] # "addStorage"
      PROVE  /\ r \in DOMAIN db.data /\ db.data[r].measure = m /\ db.data[r].age = 0 /\ m \in DOMAIN db.measure
             /\ r \in DOMAIN db'.data /\ db'.data[r].measure = m /\ db'.data[r].age = 0
  BY <1>2, <1>4 DEF TelegramSafe, Fewer, Sound, Consistent
<1>5. ASSUME pc[Reader] \notin {"addStorage", "setLast"}
      PROVE  db'.measure[m].last \in {r, None}
  BY <1>2, <1>4, <1>5 DEF TelegramSafe
<1> QED
  BY <1>1, <1>3, <1>4, <1>5 DEF TelegramSafe

\* Broken sensors are remembered until they have gone.
LEMMA BrokenStay ==
    ASSUME Sound', Record
    PROVE  /\ broken \cap DOMAIN db'.sensor \subseteq broken'
           /\ \A t \in AdminThreads : pc[t] = "failed" /\ frame[t].sensor \in DOMAIN db'.sensor => frame[t].sensor \in broken'
BY DEF Record

LEMMA OthersShrink ==
    ASSUME Sound, Sound', Shrunk, Record, NEW t \in Threads, Acts(t),
           \A m \in DOMAIN db'.measure :
              \/ (\A r, q \in RowsOf(m)' : r = q) \/ \E u \in Threads : PurgeDue(u, m)'
              \/ /\ m \in DOMAIN db.measure /\ RowsOf(m)' \subseteq RowsOf(m)
                 /\ db'.measure[m].sensor = db.measure[m].sensor
                 /\ \A u \in Threads \ {t} : PurgeDue(u, m) => PurgeDue(u, m)'
                 /\ ClientsOf(m) # {} => ClientsOf(m)' # {} \/ PurgeDue(t, m)'
                 /\ PurgeDue(t, m) => PurgeDue(t, m)' \/ ClientsOf(m)' # {} \/ db'.measure[m].sensor \in broken'
    PROVE  Shrunk'
<1> SUFFICES ASSUME NEW m \in DOMAIN db'.measure, ClientsOf(m)' = {}, db'.measure[m].sensor \notin broken'
             PROVE  (\A r, q \in RowsOf(m)' : r = q) \/ \E u \in Threads : PurgeDue(u, m)'
  BY DEF Shrunk
<1>1. db'.measure[m].sensor \in DOMAIN db'.sensor
  BY DEF Sound, Consistent
<1>2. db'.measure[m].sensor \notin broken
  BY <1>1, BrokenStay
<1> QED
  BY <1>2 DEF Shrunk

LEMMA OthersDue ==
    ASSUME NEW t \in Threads, Acts(t), NEW m, db'.measure[m].sensor = db.measure[m].sensor,
           db'.measure[m].last \in {None, db.measure[m].last},
           Reader # t /\ frame[Reader].measure = m /\ pc[Reader] = "setLast" /\ frame[Reader].row \in DOMAIN db.data
                => frame[Reader].row \in DOMAIN db'.data
    PROVE  \A u \in Threads \ {t} : PurgeDue(u, m) => PurgeDue(u, m)'
<1> SUFFICES ASSUME NEW u \in Threads \ {t}, PurgeDue(u, m)
             PROVE  PurgeDue(u, m)'
  OBVIOUS
<1>1. pc'[u] = pc[u] /\ frame'[u] = frame[u]
  BY DEF Acts
<1> QED
  BY <1>1 DEF PurgeDue

LEMMA OthersWork ==
    ASSUME Working, NEW t \in Threads, Acts(t), Works(t)'
    PROVE  Working'
BY DEF Working, Works, Acts

\* Thread t is not about to delete the values of a measure without a last one.
DeletesNone(t) ==
    pc[t] = "deleteRows" /\ frame[t].measure \in DOMAIN db.measure => db.measure[frame[t].measure].last # None

\* A step that leaves values and measures alone.
LEMMA CalmStep ==
    ASSUME Sound, Sound', ValuesOK, NEW t \in Threads, Acts(t), db'.data = db.data, db'.measure = db.measure,
           DeletesNone(t), t = Reader => pc[t] # "setLast" /\ pc'[t] # "setLast"
    PROVE  Ordered' /\ StoredIsNewest' /\ LastAmongOwn'
<1>1. Fewer({})
  BY SameValues
<1>2. Reader \in Threads
  BY MeasureThreads
<1>3. NoNewValue
  BY <1>2 DEF NoNewValue, Acts
<1>4. \A r : Storing(r) => Storing(r)'
  BY <1>2 DEF Storing, Acts
<1>5. \A u \in Threads, m \in DOMAIN db'.measure :
            pc[u] = "deleteRows" /\ frame[u].measure = m /\ db.measure[m].last = None
                => pc'[u] = "deleteRows" /\ frame'[u].measure = m
  BY DEF Acts, DeletesNone
<1>6. Ordered'
  BY <1>1, FewerOrdered DEF ValuesOK
<1>7. StoredIsNewest'
  BY <1>1, <1>3, FewerNewest DEF ValuesOK
<1>8. LastAmongOwn'
  BY <1>1, <1>4, <1>5, FewerLast DEF ValuesOK
<1> QED
  BY <1>6, <1>7, <1>8

\* What such a step does to the clients, and to the purges that are due.
ShrinksOwn(t) ==
    \A m \in DOMAIN db.measure :
        /\ ClientsOf(m) # {} => ClientsOf(m)' # {} \/ PurgeDue(t, m)'
        /\ PurgeDue(t, m) => PurgeDue(t, m)' \/ ClientsOf(m)' # {} \/ db.measure[m].sensor \in broken'

LEMMA CalmValues ==
    ASSUME Sound, Sound', ValuesOK, Record, NEW t \in Threads, Acts(t), db'.data = db.data, db'.measure = db.measure,
           DeletesNone(t), t = Reader => pc[t] # "setLast" /\ pc'[t] # "setLast" /\ TelegramSafe',
           RemovesOwn(t)', KnowsClients(t)', Works(t)', ShrinksOwn(t)
    PROVE  ValuesOK'
<1>1. Ordered' /\ StoredIsNewest' /\ LastAmongOwn'
  BY CalmStep
<1>2. AllRemoveOwn'
  BY OthersRemoveOwn DEF ValuesOK
<1>3. Shrunk'
  <2>1. ASSUME NEW m \in DOMAIN db'.measure
        PROVE  /\ m \in DOMAIN db.measure /\ RowsOf(m)' \subseteq RowsOf(m)
               /\ db'.measure[m].sensor = db.measure[m].sensor
               /\ \A u \in Threads \ {t} : PurgeDue(u, m) => PurgeDue(u, m)'
    <3>1. \A u \in Threads \ {t} : PurgeDue(u, m) => PurgeDue(u, m)'
      BY OthersDue
    <3> QED
      BY <3>1 DEF RowsOf
  <2> QED
    BY <2>1, OthersShrink DEF ValuesOK, ShrinksOwn
<1>4. TelegramSafe'
  BY SameValues, OthersLeaveTelegram DEF ValuesOK
<1>5. PurgesKnowClients'
  BY OthersKnowClients DEF ValuesOK
<1>6. Working'
  BY OthersWork DEF ValuesOK
<1> QED
  BY <1>1, <1>2, <1>3, <1>4, <1>5, <1>6 DEF ValuesOK

\* A step of another thread than the reading one that has to do with none of this.
Witnesses == {"checkClients", "deleteData", "clearLast", "deleteRows", "failed"}
Quiet(t) ==
    /\ t # Reader /\ Acts(t) /\ Works(t)'
    /\ db'.data = db.data /\ db'.measure = db.measure
    /\ \A m \in DOMAIN db.measure : ClientsOf(m) # {} => ClientsOf(m)' # {}
    /\ pc[t] \notin Witnesses /\ pc'[t] \notin Removal \cup {"deleteData", "shrink"}

LEMMA QuietStep ==
    ASSUME Sound, Sound', ValuesOK, Record, NEW t \in Threads, Quiet(t)
    PROVE  ValuesOK'
<1>1. ShrinksOwn(t)
  BY DEF ShrinksOwn, Quiet, PurgeDue, Witnesses
<1>2. RemovesOwn(t)' /\ KnowsClients(t)'
  BY DEF Quiet, RemovesOwn, KnowsClients
<1> QED
  BY <1>1, <1>2, CalmValues DEF DeletesNone, Quiet, Witnesses

-----------------------------------------------------------------------------
(* The steps that have nothing to do with values, measures and clients. *)

Aside(d) == d.data = db.data /\ d.measure = db.measure /\ d.client = db.client

LEMMA OtherTables ==
    ASSUME Tables(db), NEW x
    PROVE  /\ Aside([db EXCEPT !.group = x])
           /\ Aside([db EXCEPT !.sensor = x])
           /\ Aside([db EXCEPT !.groupSensor = x])
           /\ Aside([db EXCEPT !.location = x])
BY DEF Aside, Tables

Unwatched(label, f) ==
    /\ label \notin Removal \cup {"deleteData", "shrink"}
    /\ label = "nextSensor" => f.op = "deleteGroup"
    /\ label \in {"compareMeasures", "findObsolete"} => f.op = "updateSensor"

LEMMA QuietGoto ==
    ASSUME TypeOK, NEW t \in Threads \ {Reader}, NEW label, NEW f, Goto(t, label, f), Unwatched(label, f),
           Aside(db'), pc[t] \notin Witnesses
    PROVE  Quiet(t)
<1>1. Acts(t) /\ pc'[t] = label /\ frame'[t] = f
  BY GotoMoves DEF Moves, Acts
<1>2. Works(t)'
  BY <1>1 DEF Works, Unwatched, Removal
<1>3. \A m : ClientsOf(m)' = ClientsOf(m)
  BY DEF Aside, ClientsOf
<1> QED
  BY <1>1, <1>2, <1>3 DEF Quiet, Aside, Unwatched

LEMMA QuietUnmoved ==
    ASSUME TypeOK, NEW t \in Threads \ {Reader}, Aside(db'), UNCHANGED <<pc, frame>>, pc[t] = "idle"
    PROVE  Quiet(t)
BY DEF Quiet, Aside, Acts, Works, Removal, Witnesses, ClientsOf

LEMMA QuietExecute ==
    ASSUME TypeOK, NEW t \in Threads \ {Reader}, NEW result, NEW label, NEW f, Execute(t, result, label, f),
           Aside(result), Unwatched(label, f), pc[t] \notin Witnesses
    PROVE  Quiet(t)
<1>1. Unwatched("failed", frame[t])
  BY DEF Unwatched, Removal
<1>2. Aside(db)
  BY DEF Aside
<1> QED
  BY <1>1, <1>2, QuietGoto DEF Execute

LEMMA QuietEnd ==
    ASSUME TypeOK, NEW t \in Threads \ {Reader}, End(t), Aside(db'), pc[t] \notin Witnesses
    PROVE  Quiet(t)
<1>1. Unwatched("idle", NoFrame)
  BY DEF Unwatched, Removal
<1> QED
  BY <1>1, QuietGoto DEF End

LEMMA QuietSensorDone ==
    ASSUME TypeOK, NEW t \in Threads \ {Reader}, SensorDone(t), Aside(db'), pc[t] \notin Witnesses
    PROVE  Quiet(t)
<1>1. frame[t].op = "deleteGroup" => Unwatched("nextSensor", frame[t])
  BY DEF Unwatched, Removal
<1> QED
  BY <1>1, QuietGoto, QuietEnd DEF SensorDone

LEMMA QuietGroupCalls ==
    ASSUME TypeOK, NEW t \in Threads \ {Reader},
           \/ \E g \in Groups : AddGroup(t, g) \/ DeleteGroup(t, g)
           \/ \E g \in Groups, s \in Sensors : AddSensorToGroup(t, g, s) \/ DeleteSensor(t, g, s)
           \/ LinkNewSensor(t) \/ NextSensor(t) \/ DeleteGroupRow(t)
    PROVE  Quiet(t)
<1>1. Tables(db) /\ Aside(db) /\ frame[t] \in Frame
  BY DEF TypeOK, Aside
<1>2. \A x, y : Aside(DeleteLink(x, y))
  BY <1>1, OtherTables DEF DeleteLink
<1>3. ASSUME NEW g \in Groups, AddGroup(t, g)
      PROVE  Quiet(t)
  BY <1>1, <1>3, OtherTables, QuietUnmoved DEF AddGroup, Starts
<1>4. ASSUME NEW g \in Groups, DeleteGroup(t, g)
      PROVE  Quiet(t)
  <2> DEFINE f == [Begin(t, "deleteGroup", g, None) EXCEPT !.sensors = SensorsOf(g)]
  <2>1. f.op = "deleteGroup"
    BY DEF Begin, NoFrame
  <2>2. Goto(t, "nextSensor", f) /\ db' = db /\ pc[t] = "idle"
    BY <1>4 DEF DeleteGroup, Starts
  <2> HIDE DEF f
  <2>3. Unwatched("nextSensor", f)
    BY <2>1 DEF Unwatched, Removal
  <2> QED
    BY <1>1, <2>2, <2>3, QuietGoto DEF Witnesses
<1>5. ASSUME NEW x, NEW y, NEW label, NEW f, InsertLink(t, x, y, label, f), Unwatched(label, f),
             pc[t] \in {"idle", "insertLink"}
      PROVE  Quiet(t)
  <2>1. Aside([db EXCEPT !.groupSensor = @ \cup {<<x, y>>}])
    BY <1>1, OtherTables
  <2>2. Unwatched("failed", frame[t])
    BY DEF Unwatched, Removal
  <2>3. \/ Execute(t, [db EXCEPT !.groupSensor = @ \cup {<<x, y>>}], label, f)
        \/ db' = db /\ Goto(t, "failed", frame[t])
    BY <1>5 DEF InsertLink
  <2>4. pc[t] \notin Witnesses
    BY <1>5 DEF Witnesses
  <2>5. CASE Execute(t, [db EXCEPT !.groupSensor = @ \cup {<<x, y>>}], label, f)
    BY <1>5, <2>1, <2>4, <2>5, QuietExecute
  <2>6. CASE db' = db /\ Goto(t, "failed", frame[t])
    BY <1>1, <2>2, <2>4, <2>6, QuietGoto
  <2> QED
    BY <2>3, <2>5, <2>6
<1>6. ASSUME NEW g \in Groups, NEW s \in Sensors, AddSensorToGroup(t, g, s)
      PROVE  Quiet(t)
  <2>1. Unwatched("idle", NoFrame)
    BY DEF Unwatched, Removal
  <2> QED
    BY <1>5, <1>6, <2>1 DEF AddSensorToGroup, Starts
<1>7. ASSUME NEW g \in Groups, NEW s \in Sensors, DeleteSensor(t, g, s)
      PROVE  Quiet(t)
  <2>1. \A f : Unwatched("countGroups", f)
    BY DEF Unwatched, Removal
  <2> QED
    BY <1>2, <1>7, <2>1, QuietGoto DEF DeleteSensor, Starts, Witnesses
<1>8. CASE LinkNewSensor(t)
  <2>1. \A f : Unwatched("insertMeasures", f)
    BY DEF Unwatched, Removal
  <2> QED
    BY <1>5, <1>8, <2>1 DEF LinkNewSensor
<1>9. CASE NextSensor(t)
  <2>1. \A f : Unwatched("countGroups", f)
    BY DEF Unwatched, Removal
  <2> QED
    BY <1>2, <1>9, <2>1, QuietGoto DEF NextSensor, Witnesses
<1>10. CASE DeleteGroupRow(t)
  <2>1. Unwatched("idle", NoFrame)
    BY DEF Unwatched, Removal
  <2> QED
    BY <1>1, <1>10, <2>1, OtherTables, QuietExecute DEF DeleteGroupRow, Witnesses
<1> QED
  BY <1>3, <1>4, <1>6, <1>7, <1>8, <1>9, <1>10

LEMMA QuietSensorCalls ==
    ASSUME TypeOK, Working, NEW t \in Threads \ {Reader},
           \/ \E a \in Addresses, g \in Groups, l \in Locations, shortcuts \in SUBSET Shortcuts :
                AddSensor(t, a, g, l, shortcuts)
           \/ \E s \in Sensors, a \in Addresses, l \in Locations, shortcuts \in SUBSET Shortcuts :
                UpdateSensor(t, s, a, l, shortcuts)
           \/ \E l \in Locations : DeleteLocation(t, l)
           \/ CountGroups(t) \/ ReadLocation(t) \/ DeleteSensorRow(t) \/ CompareMeasures(t)
           \/ CountSensors(t) \/ CountChildren(t) \/ DeleteLocationRow(t)
    PROVE  Quiet(t)
<1>1. Tables(db) /\ Aside(db) /\ frame[t] \in Frame
  BY DEF TypeOK, Aside
<1>2. \A f : \A label \in {"insertLink", "countSensors", "listMeasures", "deleteSensor", "countChildren", "deleteLocation",
                           "failed"} : Unwatched(label, f)
  BY DEF Unwatched, Removal
<1>3. ASSUME NEW a, NEW g, NEW l, NEW shortcuts, AddSensor(t, a, g, l, shortcuts)
      PROVE  Quiet(t)
  BY <1>1, <1>2, <1>3, OtherTables, QuietExecute DEF AddSensor, Starts, Witnesses
<1>4. ASSUME NEW s, NEW a, NEW l, NEW shortcuts, UpdateSensor(t, s, a, l, shortcuts)
      PROVE  Quiet(t)
  <2> DEFINE f == [Begin(t, "updateSensor", None, s) EXCEPT !.shortcuts = shortcuts]
             result == IF s \in DOMAIN db.sensor THEN [db EXCEPT !.sensor[s] = [address |-> a, location |-> l]]
                       ELSE db
  <2>1. f.op = "updateSensor"
    BY DEF Begin, NoFrame
  <2>2. Execute(t, result, "compareMeasures", f) /\ pc[t] = "idle"
    BY <1>4 DEF UpdateSensor, Starts
  <2>3. Aside(result)
    BY <1>1, OtherTables
  <2> HIDE DEF f, result
  <2>4. Unwatched("compareMeasures", f)
    BY <2>1 DEF Unwatched, Removal
  <2> QED
    BY <2>2, <2>3, <2>4, QuietExecute DEF Witnesses
<1>5. ASSUME NEW l, DeleteLocation(t, l)
      PROVE  Quiet(t)
  BY <1>1, <1>2, <1>5, QuietGoto DEF DeleteLocation, Starts, Witnesses
<1>6. CASE CountGroups(t) \/ CountSensors(t) \/ CountChildren(t)
  <2>1. \/ Goto(t, "listMeasures", frame[t]) \/ Goto(t, "countChildren", frame[t]) \/ Goto(t, "deleteLocation", frame[t])
        \/ SensorDone(t)
    BY <1>6 DEF CountGroups, CountSensors, CountChildren
  <2>2. db' = db /\ pc[t] \notin Witnesses
    BY <1>6 DEF CountGroups, CountSensors, CountChildren, Witnesses
  <2> QED
    BY <1>1, <1>2, <2>1, <2>2, QuietGoto, QuietSensorDone
<1>7. CASE ReadLocation(t)
  <2>1. PICK f : Goto(t, "deleteSensor", f)
    BY <1>7 DEF ReadLocation
  <2> QED
    BY <1>1, <1>2, <1>7, <2>1, QuietGoto DEF ReadLocation, Witnesses
<1>8. CASE DeleteSensorRow(t)
  BY <1>1, <1>2, <1>8, OtherTables, QuietExecute DEF DeleteSensorRow, Witnesses
<1>9. CASE CompareMeasures(t)
  <2>1. PICK x, y : Goto(t, "findObsolete", [frame[t] EXCEPT !.obsolete = x, !.shortcuts = y])
    BY <1>9 DEF CompareMeasures
  <2>2. frame[t].op = "updateSensor" /\ pc[t] = "compareMeasures" /\ db' = db
    BY <1>9 DEF CompareMeasures, Working, Works
  <2>3. [frame[t] EXCEPT !.obsolete = x, !.shortcuts = y].op = "updateSensor"
    BY <1>1, <2>2 DEF Frame
  <2>4. Unwatched("findObsolete", [frame[t] EXCEPT !.obsolete = x, !.shortcuts = y])
    BY <2>3 DEF Unwatched, Removal
  <2> QED
    BY <1>1, <2>1, <2>2, <2>4, QuietGoto DEF Witnesses
<1>10. CASE DeleteLocationRow(t)
  <2>1. Aside([db EXCEPT !.location = Delete(@, {frame[t].location})])
    BY <1>1, OtherTables
  <2>2. pc[t] \notin Witnesses
    BY <1>10 DEF DeleteLocationRow, Witnesses
  <2> QED
    BY <1>1, <1>2, <1>10, <2>1, <2>2, QuietGoto, QuietSensorDone DEF DeleteLocationRow
<1> QED
  BY <1>3, <1>4, <1>5, <1>6, <1>7, <1>8, <1>9, <1>10

LEMMA QuietLocationCalls ==
    ASSUME TypeOK, NEW t \in Threads \ {Reader}, LocationCall(t), ~GiveUp(t)
    PROVE  Quiet(t)
<1>1. Tables(db) /\ Aside(db)
  BY DEF TypeOK, Aside
<1>2. \A f : \A label \in LocationLabels : Unwatched(label, f)
  BY DEF Unwatched, Removal, LocationLabels
<1>3. LocationLabels \cap Witnesses = {} /\ {"findPath", "readName", "writePath", "listChildren"} \subseteq LocationLabels
      /\ "idle" \notin Witnesses
  BY DEF LocationLabels, Witnesses
<1>4. ASSUME NEW parent, NEW name, AddLocation(t, parent, name)
      PROVE  Quiet(t)
  <2>1. pc[t] = "idle" /\ \E x, f : Execute(t, [db EXCEPT !.location = x], "findPath", f)
    BY <1>4 DEF AddLocation, Starts
  <2> QED
    BY <1>1, <1>2, <1>3, <2>1, OtherTables, QuietExecute
<1>5. ASSUME NEW name, AddRoot(t, name)
      PROVE  Quiet(t)
  BY <1>1, <1>5, OtherTables, QuietUnmoved DEF AddRoot, Starts
<1>6. ASSUME NEW l, NEW name, UpdateLocation(t, l, name)
      PROVE  Quiet(t)
  BY <1>1, <1>2, <1>3, <1>6, OtherTables, QuietGoto DEF UpdateLocation, Starts
<1>7. CASE ListChildren(t)
  BY <1>1, <1>2, <1>3, <1>7, QuietGoto DEF ListChildren
<1>8. CASE SelectParent(t)
  BY <1>1, <1>2, <1>3, <1>8, QuietGoto, QuietEnd DEF SelectParent, FindPath
<1>9. CASE ReadName(t)
  <2>1. PICK label \in {"readName", "writePath"} : \E f : Goto(t, label, f)
    BY <1>9 DEF ReadName
  <2> QED
    BY <1>1, <1>2, <1>3, <1>9, <2>1, QuietGoto DEF ReadName
<1>10. CASE WritePath(t)
  <2>1. Aside(db')
    BY <1>1, <1>10, OtherTables DEF WritePath
  <2>2. (\E f : Goto(t, "listChildren", f)) \/ End(t)
    BY <1>10 DEF WritePath
  <2> QED
    BY <1>2, <1>3, <1>10, <2>1, <2>2, QuietGoto, QuietEnd DEF WritePath
<1> QED
  BY <1>4, <1>5, <1>6, <1>7, <1>8, <1>9, <1>10 DEF LocationCall

LEMMA QuietClientCalls ==
    ASSUME Sound, NEW t \in Threads \ {Reader},
           (\E m \in Measures, days \in Days : FindClient(t, m, days)) \/ UpdateClient(t) \/ InsertClient(t)
    PROVE  Quiet(t)
<1>1. TypeOK /\ Tables(db) /\ Aside(db)
  BY DEF Sound, TypeOK, Aside
<1>2. \A f : \A label \in {"insertClient", "updateClient", "idle", "failed"} : Unwatched(label, f)
  BY DEF Unwatched, Removal
<1>3. ASSUME NEW m, NEW days, FindClient(t, m, days)
      PROVE  Quiet(t)
  <2>1. db' = db /\ pc[t] = "idle" /\ \E label \in {"insertClient", "updateClient"} : \E f : Goto(t, label, f)
    BY <1>3 DEF FindClient, Starts
  <2> QED
    BY <1>1, <1>2, <2>1, QuietGoto DEF Witnesses
<1>4. ASSUME NEW label, NEW f, label \in {"idle", "failed"}, Goto(t, label, f), pc[t] \in {"updateClient", "insertClient"},
             db'.data = db.data, db'.measure = db.measure, DOMAIN db.client \subseteq DOMAIN db'.client,
             \A c \in DOMAIN db.client : db'.client[c].measure = db.client[c].measure
      PROVE  Quiet(t)
  <2>1. Acts(t) /\ pc'[t] \in {"idle", "failed"} /\ Works(t)'
    BY <1>1, <1>4, GotoMoves DEF Moves, Acts, Works
  <2>2. \A m : ClientsOf(m) \subseteq ClientsOf(m)'
    BY <1>4 DEF ClientsOf
  <2> QED
    BY <1>4, <2>1, <2>2 DEF Quiet, Witnesses, Removal
<1>5. CASE UpdateClient(t)
  <2> DEFINE c == frame[t].client
             row == [db.client[c] EXCEPT !.days = frame[t].days]
  <2>1. c \in DOMAIN db.client => db.client[c] \in ClientRow
    BY <1>1 DEF Tables, Table
  <2>2. c \in DOMAIN db.client => row.measure = db.client[c].measure
    BY <2>1 DEF ClientRow
  <2>3. db' = IF c \in DOMAIN db.client THEN [db EXCEPT !.client = [db.client EXCEPT ![c] = row]] ELSE db
    BY <1>1, <1>5 DEF UpdateClient, Tables
  <2> HIDE DEF row
  <2>4. db'.data = db.data /\ db'.measure = db.measure
        /\ db'.client = IF c \in DOMAIN db.client THEN [db.client EXCEPT ![c] = row] ELSE db.client
    BY <1>1, <2>3, Fields DEF Tables
  <2>5. DOMAIN db.client \subseteq DOMAIN db'.client
        /\ \A x \in DOMAIN db.client : db'.client[x].measure = db.client[x].measure
    BY <2>2, <2>4
  <2> QED
    BY <1>4, <1>5, <2>4, <2>5 DEF UpdateClient, End
<1>6. CASE InsertClient(t)
  <2> DEFINE fresh == FreshKeys(Clients, db.client, HeldKeys("client"))
             row == [measure |-> frame[t].measure, referer |-> t, days |-> frame[t].days]
             result == [db EXCEPT !.client = Insert(@, NewKey(fresh), row)]
  <2>1. NewKey(fresh) \notin DOMAIN db.client /\ Execute(t, result, "idle", NoFrame)
    BY <1>6, NewKeyType DEF InsertClient, FreshKeys
  <2> HIDE DEF fresh, row
  <2>2. result.data = db.data /\ result.measure = db.measure /\ result.client = Insert(db.client, NewKey(fresh), row)
    BY <1>1, Fields DEF Tables
  <2>3. DOMAIN db.client \subseteq DOMAIN result.client
        /\ \A c \in DOMAIN db.client : result.client[c] = db.client[c]
    BY <2>1, <2>2 DEF Insert
  <2> HIDE DEF result
  <2>4. pc[t] = "insertClient"
    BY <1>6 DEF InsertClient
  <2>5. \/ db' = result /\ Goto(t, "idle", NoFrame)
        \/ db' = db /\ Goto(t, "failed", frame[t])
    BY <2>1 DEF Execute
  <2> QED
    BY <1>4, <2>2, <2>3, <2>4, <2>5
<1> QED
  BY <1>3, <1>5, <1>6

-----------------------------------------------------------------------------
(* The steps that leave values and measures alone. *)

\* What such a step does to the thread that makes it.
Ends(t, label, f) == Acts(t) /\ pc'[t] = label /\ frame'[t] = f

LEMMA GotoEnds == ASSUME TypeOK, NEW t \in Threads, NEW label, NEW f, Goto(t, label, f) PROVE Ends(t, label, f)
BY GotoMoves DEF Ends, Moves, Acts

LEMMA RemoveClientValues ==
    ASSUME Sound, Sound', ValuesOK, Record, NEW t \in Threads \ {Reader}, NEW m \in Measures, RemoveClient(t, m)
    PROVE  ValuesOK'
<1> DEFINE mine == {c \in ClientsOf(m) : db.client[c].referer = t}
           f == [NoFrame EXCEPT !.op = "removeClient", !.measure = m]
<1>1. Ends(t, "checkClients", f) /\ f.measure = m /\ pc[t] = "idle"
  BY GotoEnds DEF RemoveClient, Starts, NoFrame, Sound
<1>2. Tables(db) /\ db' = [db EXCEPT !.client = Delete(db.client, mine)]
  BY DEF Sound, TypeOK, RemoveClient, Tables
<1> HIDE DEF f
<1>3. db'.data = db.data /\ db'.measure = db.measure /\ db'.client = Delete(db.client, mine)
  BY <1>2, Fields DEF Tables
<1>4. \A k : k # m => ClientsOf(k) \subseteq ClientsOf(k)'
  BY <1>3 DEF ClientsOf, Delete
<1>5. PurgeDue(t, m)' /\ \A k : ~PurgeDue(t, k)
  BY <1>1 DEF PurgeDue, Ends
<1>6. ShrinksOwn(t)
  BY <1>4, <1>5 DEF ShrinksOwn
<1>7. RemovesOwn(t)' /\ KnowsClients(t)' /\ Works(t)'
  BY <1>1 DEF Ends, RemovesOwn, KnowsClients, Works, Removal
<1> QED
  BY <1>1, <1>3, <1>6, <1>7, CalmValues DEF DeletesNone, Ends

\* The reading thread goes on with the same telegram, while the tables do not change.
LEMMA TelegramGoesOn ==
    ASSUME Sound, Sound', TelegramSafe, Record, Acts(Reader), db'.data = db.data, db'.measure = db.measure,
           pc[Reader] \in {"checkClients", "maxDays"}, pc'[Reader] # "failed",
           frame'[Reader].measures = frame[Reader].measures, frame'[Reader].row = frame[Reader].row,
           frame'[Reader].measure = frame[Reader].measure
    PROVE  TelegramSafe'
<1>1. disturbed => disturbed' \/ pc'[Reader] = "idle"
  BY DEF Record
<1> QED
  BY <1>1 DEF TelegramSafe

LEMMA CheckClientsValues ==
    ASSUME Sound, Sound', ValuesOK, Record, NEW t \in Threads, CheckClients(t)
    PROVE  ValuesOK'
<1> DEFINE m == frame[t].measure
           label == IF ClientsOf(m) = {} THEN "deleteData" ELSE "maxDays"
<1>1. Ends(t, label, frame[t]) /\ db' = db /\ pc[t] = "checkClients"
  BY GotoEnds DEF CheckClients, Sound
<1>2. \A k : ClientsOf(k)' = ClientsOf(k)
  BY <1>1 DEF ClientsOf
<1>3. ShrinksOwn(t)
  BY <1>1, <1>2 DEF ShrinksOwn, PurgeDue, Ends
<1>4. RemovesOwn(t)' /\ KnowsClients(t)' /\ Works(t)'
  BY <1>1, <1>2 DEF Ends, RemovesOwn, KnowsClients, Works, Removal
<1>5. t = Reader => TelegramSafe'
  BY <1>1, TelegramGoesOn DEF Ends, ValuesOK
<1> QED
  BY <1>1, <1>3, <1>4, <1>5, CalmValues DEF DeletesNone, Ends

LEMMA SelectMaxDaysValues ==
    ASSUME Sound, Sound', ValuesOK, Record, NEW t \in Threads, SelectMaxDays(t)
    PROVE  ValuesOK'
<1> DEFINE m == frame[t].measure
           f == [frame[t] EXCEPT !.days = MaxDaysOf(m)]
<1>1. Ends(t, "shrink", f) /\ db' = db /\ pc[t] = "maxDays"
  BY GotoEnds DEF SelectMaxDays, Sound
<1>2. frame[t] \in Frame
  BY DEF Sound, TypeOK
<1>3. f.measure = m /\ f.measures = frame[t].measures /\ f.row = frame[t].row /\ f.days = MaxDaysOf(m)
  BY <1>2 DEF Frame
<1> HIDE DEF f
<1>4. \A k : ClientsOf(k)' = ClientsOf(k)
  BY <1>1 DEF ClientsOf
<1>5. ShrinksOwn(t)
  BY <1>1, <1>4 DEF ShrinksOwn, PurgeDue
<1>6. KnowsClients(t)'
  <2>1. \A c \in ClientsOf(m) : db.client[c].days =< MaxDaysOf(m)
    BY MaxDaysType DEF Sound
  <2> QED
    BY <1>1, <1>3, <1>4, <2>1 DEF Ends, KnowsClients
<1>7. RemovesOwn(t)' /\ Works(t)'
  BY <1>1 DEF Ends, RemovesOwn, Works, Removal
<1>8. t = Reader => TelegramSafe'
  BY <1>1, <1>3, TelegramGoesOn DEF Ends, ValuesOK
<1> QED
  BY <1>1, <1>5, <1>6, <1>7, <1>8, CalmValues DEF DeletesNone, Ends

LEMMA ReceiveTelegramValues ==
    ASSUME Sound, Sound', ValuesOK, Record, NEW a \in Addresses, ReceiveTelegram(a)
    PROVE  ValuesOK'
<1>0. Reader \in Threads
  BY MeasureThreads
<1>1. PICK s : LET f == [NoFrame EXCEPT !.op = "radioTelegram", !.measures = MeasuresOf(s)]
               IN  Ends(Reader, "addStorage", f) /\ f.measures = MeasuresOf(s)
  BY <1>0, GotoEnds DEF ReceiveTelegram, Sound, NoFrame
<1>2. db' = db /\ pc[Reader] = "idle"
  BY DEF ReceiveTelegram, Starts
<1>3. \A k : ClientsOf(k)' = ClientsOf(k)
  BY <1>2 DEF ClientsOf
<1>4. ShrinksOwn(Reader)
  BY <1>2, <1>3 DEF ShrinksOwn, PurgeDue
<1>5. RemovesOwn(Reader)' /\ KnowsClients(Reader)' /\ Works(Reader)'
  BY <1>1 DEF Ends, RemovesOwn, KnowsClients, Works, Removal
<1>6. TelegramSafe'
  BY <1>1, <1>2 DEF TelegramSafe, Ends, MeasuresOf
<1> QED
  BY <1>0, <1>1, <1>2, <1>4, <1>5, <1>6, CalmValues DEF DeletesNone, Ends

LEMMA GiveUpValues ==
    ASSUME Sound, Sound', ValuesOK, Record, NEW t \in Threads, GiveUp(t)
    PROVE  ValuesOK'
<1>1. Ends(t, "idle", NoFrame) /\ db' = db /\ pc[t] = "failed"
  BY GotoEnds DEF GiveUp, End, Sound
<1>2. \A k : ClientsOf(k)' = ClientsOf(k)
  BY <1>1 DEF ClientsOf
<1>3. ShrinksOwn(t)
  <2>1. ASSUME NEW m \in DOMAIN db.measure, PurgeDue(t, m)
        PROVE  db.measure[m].sensor \in broken'
    <3>1. t \in AdminThreads /\ frame[t].sensor = db.measure[m].sensor
      BY <1>1, <2>1 DEF PurgeDue
    <3>2. db.measure[m].sensor \in DOMAIN db'.sensor
      BY <1>1 DEF Sound, Consistent
    <3> QED
      BY <1>1, <3>1, <3>2, BrokenStay
  <2> QED
    BY <1>2, <2>1 DEF ShrinksOwn
<1>4. RemovesOwn(t)' /\ KnowsClients(t)' /\ Works(t)'
  BY <1>1 DEF Ends, RemovesOwn, KnowsClients, Works, Removal
<1>5. t = Reader => TelegramSafe'
  BY <1>1 DEF Ends, TelegramSafe
<1> QED
  BY <1>1, <1>3, <1>4, <1>5, CalmValues DEF DeletesNone, Ends

LEMMA ListMeasuresValues ==
    ASSUME Sound, Sound', ValuesOK, Record, NEW t \in Threads \ {Reader}, ListMeasures(t)
    PROVE  ValuesOK'
<1> DEFINE f == [frame[t] EXCEPT !.measures = MeasuresOf(frame[t].sensor)]
<1>1. Ends(t, "removeMeasure", f) /\ db' = db /\ pc[t] = "listMeasures"
  BY GotoEnds DEF ListMeasures, Sound
<1>2. frame[t] \in Frame
  BY DEF Sound, TypeOK
<1>3. f.sensor = frame[t].sensor /\ f.measures = MeasuresOf(frame[t].sensor)
  BY <1>2 DEF Frame
<1> HIDE DEF f
<1>4. \A k : ClientsOf(k)' = ClientsOf(k)
  BY <1>1 DEF ClientsOf
<1>5. ShrinksOwn(t)
  BY <1>1, <1>4 DEF ShrinksOwn, PurgeDue
<1>6. RemovesOwn(t)'
  BY <1>1, <1>3 DEF Ends, RemovesOwn, MeasuresOf
<1>7. KnowsClients(t)' /\ Works(t)'
  BY <1>1 DEF Ends, KnowsClients, Works
<1> QED
  BY <1>1, <1>5, <1>6, <1>7, CalmValues DEF DeletesNone, Ends

\* The clients of a measure go, before its values do.
LEMMA ClientsGo ==
    ASSUME Sound, Sound', ValuesOK, Record, NEW t \in Threads \ {Reader}, NEW f, NEW m,
           Ends(t, "clearLast", f), f.measure = m, db' = [db EXCEPT !.client = Delete(@, ClientsOf(m))],
           pc[t] \in {"removeMeasure", "deleteClients"}, RemovesOwn(t)'
    PROVE  ValuesOK'
<1>1. Tables(db)
  BY DEF Sound, TypeOK
<1>2. db'.data = db.data /\ db'.measure = db.measure /\ db'.client = Delete(db.client, ClientsOf(m))
  BY <1>1, Fields DEF Tables
<1>3. \A k : k # m => ClientsOf(k) \subseteq ClientsOf(k)'
  BY <1>2 DEF ClientsOf, Delete
<1>4. PurgeDue(t, m)' /\ \A k : ~PurgeDue(t, k)
  BY DEF PurgeDue, Ends
<1>5. ShrinksOwn(t)
  BY <1>3, <1>4 DEF ShrinksOwn
<1>6. KnowsClients(t)' /\ Works(t)'
  BY DEF Ends, KnowsClients, Works
<1> QED
  BY <1>2, <1>5, <1>6, CalmValues DEF DeletesNone, Ends

LEMMA RemoveMeasureValues ==
    ASSUME Sound, Sound', ValuesOK, Record, NEW t \in Threads \ {Reader}, RemoveMeasure(t)
    PROVE  ValuesOK'
<1>1. PICK m \in frame[t].measures :
        /\ db' = [db EXCEPT !.client = Delete(@, ClientsOf(m))]
        /\ Goto(t, "clearLast", [frame[t] EXCEPT !.measure = m, !.measures = @ \ {m}])
  BY DEF RemoveMeasure
<1> DEFINE f == [frame[t] EXCEPT !.measure = m, !.measures = @ \ {m}]
<1>2. Ends(t, "clearLast", f) /\ pc[t] = "removeMeasure"
  BY <1>1, GotoEnds DEF RemoveMeasure, Sound
<1>3. frame[t] \in Frame /\ Tables(db)
  BY DEF Sound, TypeOK
<1>4. f.sensor = frame[t].sensor /\ f.measures = frame[t].measures \ {m} /\ f.measure = m
  BY <1>3 DEF Frame
<1> HIDE DEF f
<1>5. db'.measure = db.measure
  BY <1>1, <1>3, Fields DEF Tables
<1>6. RemovesOwn(t)
  BY DEF ValuesOK, AllRemoveOwn
<1>7. RemovesOwn(t)'
  BY <1>2, <1>4, <1>5, <1>6 DEF Ends, RemovesOwn, Removal
<1> QED
  BY <1>1, <1>2, <1>4, <1>7, ClientsGo

LEMMA DeleteClientsValues ==
    ASSUME Sound, Sound', ValuesOK, Record, NEW t \in Threads \ {Reader}, DeleteClients(t)
    PROVE  ValuesOK'
<1>1. /\ Ends(t, "clearLast", frame[t]) /\ pc[t] = "deleteClients"
      /\ db' = [db EXCEPT !.client = Delete(@, ClientsOf(frame[t].measure))]
  BY GotoEnds DEF DeleteClients, Sound
<1>2. db'.measure = db.measure
  BY <1>1, Fields DEF Sound, TypeOK, Tables
<1>3. RemovesOwn(t)
  BY DEF ValuesOK, AllRemoveOwn
<1>4. RemovesOwn(t)'
  BY <1>1, <1>2, <1>3 DEF Ends, RemovesOwn, Removal
<1> QED
  BY <1>1, <1>4, ClientsGo

LEMMA FindObsoleteValues ==
    ASSUME Sound, Sound', ValuesOK, Record, NEW t \in Threads \ {Reader}, FindObsolete(t)
    PROVE  ValuesOK'
<1>1. db' = db /\ pc[t] = "findObsolete" /\ frame[t].op = "updateSensor" /\ frame[t] \in Frame
  BY DEF FindObsolete, ValuesOK, Working, Works, Sound, TypeOK
<1>2. \A k : ClientsOf(k)' = ClientsOf(k)
  BY <1>1 DEF ClientsOf
<1>3. ShrinksOwn(t)
  BY <1>1, <1>2 DEF ShrinksOwn, PurgeDue
<1>4. ASSUME NEW f, Goto(t, "insertMeasures", f)
      PROVE  ValuesOK'
  <2>1. Ends(t, "insertMeasures", f)
    BY <1>4, GotoEnds DEF Sound
  <2>2. RemovesOwn(t)' /\ KnowsClients(t)' /\ Works(t)'
    BY <2>1 DEF Ends, RemovesOwn, Removal, KnowsClients, Works
  <2> QED
    BY <1>1, <1>3, <2>1, <2>2, CalmValues DEF DeletesNone, Ends
<1>5. ASSUME NEW row, NEW m \in MeasuresOf(frame[t].sensor) \cup {None},
             Goto(t, "deleteClients", [frame[t] EXCEPT !.measure = m, !.obsolete = @ \ {row}])
      PROVE  ValuesOK'
  <2> DEFINE f == [frame[t] EXCEPT !.measure = m, !.obsolete = @ \ {row}]
  <2>1. Ends(t, "deleteClients", f)
    BY <1>5, GotoEnds DEF Sound
  <2>2. f.op = "updateSensor" /\ f.sensor = frame[t].sensor /\ f.measure = m
    BY <1>1 DEF Frame
  <2> HIDE DEF f
  <2>3. \A k \in DOMAIN db.measure : k = m => db.measure[k].sensor = frame[t].sensor
    <3>1. DOMAIN db.measure \subseteq Measures /\ None \notin Measures
      BY TablesAssumption DEF Sound, TypeOK, Tables, Table
    <3> QED
      BY <3>1 DEF MeasuresOf
  <2>4. RemovesOwn(t)' /\ KnowsClients(t)' /\ Works(t)'
    BY <1>1, <2>1, <2>2, <2>3 DEF Ends, RemovesOwn, KnowsClients, Works
  <2> QED
    BY <1>1, <1>3, <2>1, <2>4, CalmValues DEF DeletesNone, Ends
<1> QED
  BY <1>4, <1>5 DEF FindObsolete

\* A statement of a removal that fails, while the removal of this measure's values is not due, or
\* goes on being so.
LEMMA RemovalFails ==
    ASSUME Sound, Sound', ValuesOK, Record, NEW t \in AdminThreads, t \in Threads \ {Reader},
           db' = db, Goto(t, "failed", frame[t]), pc[t] \in {"insertMeasures", "clearLast", "deleteMeasure"}
    PROVE  ValuesOK'
<1>1. Ends(t, "failed", frame[t])
  BY GotoEnds DEF Sound
<1>2. \A k : ClientsOf(k)' = ClientsOf(k)
  BY DEF ClientsOf
<1>3. RemovesOwn(t)
  BY DEF ValuesOK, AllRemoveOwn
<1>4. ASSUME NEW m \in DOMAIN db.measure, PurgeDue(t, m)
      PROVE  PurgeDue(t, m)'
  <2>1. pc[t] = "clearLast" /\ frame[t].measure = m
    BY <1>4 DEF PurgeDue
  <2> QED
    BY <1>1, <1>3, <2>1 DEF Ends, PurgeDue, RemovesOwn, Removal
<1>5. ShrinksOwn(t)
  BY <1>2, <1>4 DEF ShrinksOwn
<1>6. RemovesOwn(t)' /\ KnowsClients(t)' /\ Works(t)'
  BY <1>1 DEF Ends, RemovesOwn, Removal, KnowsClients, Works
<1> QED
  BY <1>1, <1>5, <1>6, CalmValues DEF DeletesNone, Ends

-----------------------------------------------------------------------------
(* The steps that change measures or delete values. *)

LEMMA LastSet ==
    ASSUME Sound, NEW m, NEW r \in Rows \cup {None}, NEW d, d = WithLast(m, r)
    PROVE  /\ d.data = db.data /\ d.client = db.client /\ d.sensor = db.sensor /\ d.group = db.group
           /\ d.groupSensor = db.groupSensor /\ d.location = db.location /\ DOMAIN d.measure = DOMAIN db.measure
           /\ \A k \in DOMAIN db.measure : /\ d.measure[k].sensor = db.measure[k].sensor
                                           /\ d.measure[k].last = IF k = m THEN r ELSE db.measure[k].last
<1>1. Tables(db)
  BY DEF Sound, TypeOK
<1>2. CASE m \in DOMAIN db.measure
  <2> DEFINE row == [db.measure[m] EXCEPT !.last = r]
  <2>1. db.measure[m] \in MeasureRow
    BY <1>1, <1>2 DEF Tables, Table
  <2>2. row.sensor = db.measure[m].sensor /\ row.last = r
    BY <2>1 DEF MeasureRow
  <2>3. d = [db EXCEPT !.measure = [db.measure EXCEPT ![m] = row]]
    BY <1>1, <1>2 DEF WithLast, Tables
  <2> HIDE DEF row
  <2> QED
    BY <1>1, <2>2, <2>3 DEF Tables
<1>3. CASE m \notin DOMAIN db.measure
  BY <1>3 DEF WithLast
<1> QED
  BY <1>2, <1>3

\* Deleting values of one measure breaks no key, when its last value stays.
LEMMA DeletionSucceeds ==
    ASSUME Sound, LastAmongOwn, NEW m, NEW keys, keys \subseteq RowsOf(m),
           m \in DOMAIN db.measure /\ db.measure[m].last # None => db.measure[m].last \notin keys
    PROVE  Consistent(Without(keys))
<1>1. Tables(db) /\ Consistent(db)
  BY DEF Sound, TypeOK
<1> DEFINE d == Without(keys)
<1>2. /\ d.group = db.group /\ d.sensor = db.sensor /\ d.groupSensor = db.groupSensor /\ d.measure = db.measure
      /\ d.client = db.client /\ d.location = db.location /\ d.data = DeleteValues(db.data, keys)
  BY <1>1 DEF Without, Tables
<1>3. Table(db.data, Rows, DataRow)
  BY <1>1 DEF Tables
<1>4. DOMAIN d.data = DOMAIN db.data \ keys
  BY <1>2, <1>3, ValuesDeleted
<1>5. \A r \in DOMAIN db.data \ keys : d.data[r].measure = db.data[r].measure
  BY <1>2, <1>3, ValueKept
<1>6. ASSUME NEW k \in DOMAIN db.measure
      PROVE  db.measure[k].last \in {None} \cup DOMAIN d.data
  BY <1>4 DEF LastAmongOwn, RowsOf
<1> HIDE DEF d
<1>7. Consistent(d)
  BY <1>1, <1>2, <1>4, <1>5, <1>6 DEF Consistent
<1> QED
  BY <1>7 DEF d

LEMMA ClearLastValues ==
    ASSUME Sound, Sound', ValuesOK, Record, NEW t \in AdminThreads, t \in Threads \ {Reader}, ClearLast(t)
    PROVE  ValuesOK'
<1> DEFINE m == frame[t].measure
<1>1. CASE db' = db /\ Goto(t, "failed", frame[t])
  <2>1. pc[t] = "clearLast"
    BY DEF ClearLast
  <2> QED
    BY <1>1, <2>1, RemovalFails
<1>2. CASE db' = WithLast(m, None) /\ Goto(t, "deleteRows", frame[t])
  <2>1. Ends(t, "deleteRows", frame[t]) /\ pc[t] = "clearLast"
    BY <1>2, GotoEnds DEF ClearLast, Sound
  <2>2. /\ db'.data = db.data /\ db'.client = db.client /\ DOMAIN db'.measure = DOMAIN db.measure
        /\ \A k \in DOMAIN db.measure : /\ db'.measure[k].sensor = db.measure[k].sensor
                                        /\ db'.measure[k].last = IF k = m THEN None ELSE db.measure[k].last
    BY <1>2, LastSet
  <2>3. Fewer({}) /\ NoNewValue /\ \A r : Storing(r) => Storing(r)'
    BY <2>1, <2>2, SameValues, MeasureThreads DEF NoNewValue, Storing, Ends, Acts
  <2>4. Ordered' /\ StoredIsNewest'
    BY <2>3, FewerOrdered, FewerNewest DEF ValuesOK
  <2>5. LastAmongOwn'
    <3>1. \A u \in Threads, k \in DOMAIN db'.measure :
            pc[u] = "deleteRows" /\ frame[u].measure = k => pc'[u] = "deleteRows" /\ frame'[u].measure = k
      BY <2>1 DEF Ends, Acts
    <3>2. \A k \in DOMAIN db'.measure :
                \/ /\ db'.measure[k].last = None
                   /\ \E u \in Threads : pc'[u] = "deleteRows" /\ frame'[u].measure = k
                \/ k \in DOMAIN db.measure /\ db'.measure[k].last = db.measure[k].last
      BY <2>1, <2>2 DEF Ends
    <3> QED
      BY <2>3, <3>1, <3>2, FewerLast DEF ValuesOK
  <2>6. RemovesOwn(t)
    BY DEF ValuesOK, AllRemoveOwn
  <2>7. RemovesOwn(t)' /\ KnowsClients(t)' /\ Works(t)'
    BY <2>1, <2>2, <2>6 DEF Ends, RemovesOwn, Removal, KnowsClients, Works
  <2>8. AllRemoveOwn' /\ PurgesKnowClients' /\ Working'
    BY <2>1, <2>2, <2>7, OthersRemoveOwn, OthersKnowClients, OthersWork DEF Ends, ValuesOK
  <2>9. Shrunk'
    <3>1. ASSUME NEW k \in DOMAIN db'.measure
          PROVE  /\ k \in DOMAIN db.measure /\ RowsOf(k)' = RowsOf(k) /\ ClientsOf(k)' = ClientsOf(k)
                 /\ db'.measure[k].sensor = db.measure[k].sensor
                 /\ \A u \in Threads \ {t} : PurgeDue(u, k) => PurgeDue(u, k)'
                 /\ PurgeDue(t, k) => PurgeDue(t, k)'
      <4>1. \A u \in Threads \ {t} : PurgeDue(u, k) => PurgeDue(u, k)'
        BY <2>1, <2>2, OthersDue DEF Ends
      <4>2. PurgeDue(t, k) => PurgeDue(t, k)'
        BY <2>1, <2>2 DEF PurgeDue, Ends
      <4> QED
        BY <2>2, <4>1, <4>2 DEF RowsOf, ClientsOf
    <3> QED
      BY <2>1, <3>1, OthersShrink DEF Ends, ValuesOK
  <2>10. TelegramSafe'
    BY <2>1, <2>2, <2>3, OthersLeaveTelegram DEF Ends, ValuesOK
  <2> QED
    BY <2>4, <2>5, <2>8, <2>9, <2>10 DEF ValuesOK
<1> QED
  BY <1>1, <1>2 DEF ClearLast

LEMMA DeleteMeasureValues ==
    ASSUME Sound, Sound', ValuesOK, Record, NEW t \in AdminThreads, t \in Threads \ {Reader}, DeleteMeasure(t)
    PROVE  ValuesOK'
<1> DEFINE m == frame[t].measure
           label == IF frame[t].op = "updateSensor" THEN "findObsolete" ELSE "removeMeasure"
<1>1. pc[t] = "deleteMeasure" /\ Tables(db)
  BY DEF DeleteMeasure, Sound, TypeOK
<1>2. CASE db' = db /\ Goto(t, "failed", frame[t])
  BY <1>1, <1>2, RemovalFails
<1>3. CASE db' = [db EXCEPT !.measure = Delete(@, {m})] /\ Goto(t, label, frame[t])
  <2>1. Ends(t, label, frame[t])
    BY <1>3, GotoEnds DEF Sound
  <2>2. /\ db'.data = db.data /\ db'.client = db.client /\ DOMAIN db'.measure \subseteq DOMAIN db.measure
        /\ \A k \in DOMAIN db'.measure : db'.measure[k] = db.measure[k]
    BY <1>1, <1>3 DEF Tables, Delete
  <2>3. Fewer({}) /\ NoNewValue /\ \A r : Storing(r) => Storing(r)'
    BY <2>1, <2>2, SameValues, MeasureThreads DEF NoNewValue, Storing, Ends, Acts
  <2>4. Ordered' /\ StoredIsNewest'
    BY <2>3, FewerOrdered, FewerNewest DEF ValuesOK
  <2>5. LastAmongOwn'
    <3>1. \A u \in Threads, k \in DOMAIN db'.measure :
            pc[u] = "deleteRows" /\ frame[u].measure = k => pc'[u] = "deleteRows" /\ frame'[u].measure = k
      BY <1>1, <2>1 DEF Ends, Acts
    <3> QED
      BY <2>2, <2>3, <3>1, FewerLast DEF ValuesOK
  <2>6. RemovesOwn(t)
    BY DEF ValuesOK, AllRemoveOwn
  <2>7. RemovesOwn(t)' /\ KnowsClients(t)' /\ Works(t)'
    BY <1>1, <2>1, <2>2, <2>6 DEF Ends, RemovesOwn, Removal, KnowsClients, Works
  <2>8. AllRemoveOwn' /\ PurgesKnowClients' /\ Working'
    BY <2>1, <2>2, <2>7, OthersRemoveOwn, OthersKnowClients, OthersWork DEF Ends, ValuesOK
  <2>9. Shrunk'
    <3>1. ASSUME NEW k \in DOMAIN db'.measure
          PROVE  /\ k \in DOMAIN db.measure /\ RowsOf(k)' = RowsOf(k) /\ ClientsOf(k)' = ClientsOf(k)
                 /\ db'.measure[k].sensor = db.measure[k].sensor
                 /\ \A u \in Threads \ {t} : PurgeDue(u, k) => PurgeDue(u, k)'
                 /\ ~PurgeDue(t, k)
      <4>1. \A u \in Threads \ {t} : PurgeDue(u, k) => PurgeDue(u, k)'
        BY <2>1, <2>2, OthersDue DEF Ends
      <4>2. ~PurgeDue(t, k)
        BY <1>1 DEF PurgeDue
      <4> QED
        BY <2>2, <4>1, <4>2 DEF RowsOf, ClientsOf
    <3> QED
      BY <2>1, <3>1, OthersShrink DEF Ends, ValuesOK
  <2>10. TelegramSafe'
    BY <2>1, <2>2, <2>3, OthersLeaveTelegram DEF Ends, ValuesOK
  <2> QED
    BY <2>4, <2>5, <2>8, <2>9, <2>10 DEF ValuesOK
<1> QED
  BY <1>2, <1>3 DEF DeleteMeasure, Execute

\* Thread t deletes values of the measure it is at, and none that it did not have to spare.
LEMMA ValuesGo ==
    ASSUME Sound, Sound', ValuesOK, Record, NEW t \in Threads, Acts(t), NEW m, m = frame[t].measure,
           NEW keys, keys \subseteq RowsOf(m), db' = Without(keys),
           t = Reader => pc[t] # "setLast" /\ pc'[t] # "setLast" /\ TelegramSafe',
           RemovesOwn(t)', KnowsClients(t)', Works(t)',
           pc[t] # "deleteRows" \/ keys = RowsOf(m),
           m \in DOMAIN db.measure =>
                \/ \A r, q \in RowsOf(m) \ keys : r = q
                \/ keys = {} /\ \E u \in Threads \ {t} : PurgeDue(u, m)
                \/ ~PurgeDue(t, m) /\ \A r : Storing(r) => r \notin keys
    PROVE  ValuesOK'
<1>1. /\ Fewer(keys) /\ \A r \in DOMAIN db'.data : db'.data[r].age = db.data[r].age
      /\ db'.measure = db.measure /\ db'.client = db.client
  BY FewerValues DEF Sound
<1>2. \A k : RowsOf(k)' = RowsOf(k) \ keys /\ ClientsOf(k)' = ClientsOf(k)
  BY <1>1 DEF RowsOf, ClientsOf, Fewer
<1>3. NoNewValue /\ \A r : Storing(r) => Storing(r)'
  BY MeasureThreads DEF NoNewValue, Storing, Acts
<1>4. Ordered' /\ StoredIsNewest'
  BY <1>1, <1>3, FewerOrdered, FewerNewest DEF ValuesOK
<1>5. LastAmongOwn'
  <2>1. \A u \in Threads, k \in DOMAIN db'.measure :
            pc[u] = "deleteRows" /\ frame[u].measure = k
                => RowsOf(k)' = {} \/ (pc'[u] = "deleteRows" /\ frame'[u].measure = k)
    BY <1>2 DEF Acts
  <2> QED
    BY <1>1, <1>3, <2>1, FewerLast DEF ValuesOK
<1>6. AllRemoveOwn' /\ PurgesKnowClients' /\ Working'
  BY <1>1, OthersRemoveOwn, OthersKnowClients, OthersWork DEF ValuesOK
<1>7. ASSUME NEW k \in DOMAIN db'.measure, \A r : Storing(r) /\ frame[Reader].measure = k => r \notin keys
      PROVE  \A u \in Threads \ {t} : PurgeDue(u, k) => PurgeDue(u, k)'
  <2>1. Storing(frame[Reader].row) /\ frame[Reader].row \in DOMAIN db.data /\ frame[Reader].measure = k
            => frame[Reader].row \in DOMAIN db'.data
    BY <1>1, <1>7 DEF Fewer
  <2> QED
    BY <1>1, <2>1, OthersDue DEF Storing
<1>8. Shrunk'
  <2>1. ASSUME NEW k \in DOMAIN db'.measure, k # m
        PROVE  (\A u \in Threads \ {t} : PurgeDue(u, k) => PurgeDue(u, k)') /\ ~PurgeDue(t, k)
    <3>1. \A r : Storing(r) /\ frame[Reader].measure = k => r \notin keys
      BY <2>1 DEF ValuesOK, StoredIsNewest, RowsOf
    <3> QED
      BY <1>7, <2>1, <3>1 DEF PurgeDue
  <2>2. ASSUME m \in DOMAIN db'.measure
        PROVE  \/ (\A r, q \in RowsOf(m)' : r = q) \/ \E u \in Threads : PurgeDue(u, m)'
               \/ (\A u \in Threads \ {t} : PurgeDue(u, m) => PurgeDue(u, m)') /\ ~PurgeDue(t, m)
    <3>1. CASE \A r, q \in RowsOf(m) \ keys : r = q
      BY <1>2, <3>1
    <3>2. CASE keys = {} /\ \E u \in Threads \ {t} : PurgeDue(u, m)
      BY <1>7, <2>2, <3>2
    <3>3. CASE ~PurgeDue(t, m) /\ \A r : Storing(r) => r \notin keys
      BY <1>7, <2>2, <3>3
    <3> QED
      BY <1>1, <2>2, <3>1, <3>2, <3>3
  <2> QED
    BY <1>1, <1>2, <2>1, <2>2, OthersShrink DEF ValuesOK
<1>9. TelegramSafe'
  BY <1>1, OthersLeaveTelegram DEF ValuesOK
<1> QED
  BY <1>4, <1>5, <1>6, <1>8, <1>9 DEF ValuesOK

LEMMA DeleteRowsValues ==
    ASSUME Sound, Sound', ValuesOK, Record, NEW t \in AdminThreads, t \in Threads \ {Reader}, DeleteRows(t)
    PROVE  ValuesOK'
<1> DEFINE m == frame[t].measure
<1>1. pc[t] = "deleteRows" /\ RemovesOwn(t) /\ Tables(db)
  BY DEF DeleteRows, ValuesOK, AllRemoveOwn, Sound, TypeOK
<1>2. \/ db' = Without(RowsOf(m)) /\ Goto(t, "deleteMeasure", frame[t])
      \/ ~Consistent(Without(RowsOf(m))) /\ db' = db /\ Goto(t, "failed", frame[t])
  BY DEF DeleteRows, Execute, Without
<1>3. CASE db' = Without(RowsOf(m)) /\ Goto(t, "deleteMeasure", frame[t])
  <2>1. Ends(t, "deleteMeasure", frame[t])
    BY <1>3, GotoEnds DEF Sound
  <2>2. db'.measure = db.measure
    BY <1>3, FewerValues DEF Sound
  <2>3. RemovesOwn(t)' /\ KnowsClients(t)' /\ Works(t)'
    BY <1>1, <2>1, <2>2 DEF Ends, RemovesOwn, Removal, KnowsClients, Works
  <2> QED
    BY <1>1, <1>3, <2>1, <2>3, ValuesGo DEF Ends
<1>4. CASE ~Consistent(Without(RowsOf(m))) /\ db' = db /\ Goto(t, "failed", frame[t])
  <2>1. m \in DOMAIN db.measure => db.measure[m].last # None
    BY <1>4, DeletionSucceeds DEF ValuesOK
  <2>2. Ends(t, "failed", frame[t])
    BY <1>4, GotoEnds DEF Sound
  <2>3. \A k : ClientsOf(k)' = ClientsOf(k)
    BY <1>4 DEF ClientsOf
  <2>4. ShrinksOwn(t)
    BY <1>1, <2>1, <2>3 DEF ShrinksOwn, PurgeDue
  <2>5. RemovesOwn(t)' /\ KnowsClients(t)' /\ Works(t)'
    BY <2>2 DEF Ends, RemovesOwn, Removal, KnowsClients, Works
  <2> QED
    BY <1>4, <2>1, <2>2, <2>4, <2>5, CalmValues DEF DeletesNone, Ends
<1> QED
  BY <1>2, <1>3, <1>4

\* A purge is over: the thread ends its call, or the reading thread turns to its next measure.
LEMMA PurgeOver ==
    ASSUME Sound, ValuesOK, Record, NEW t \in Threads, pc[t] \in {"deleteData", "shrink"},
           Goto(t, AfterPurge(t), FrameAfterPurge(t)), DOMAIN db'.measure = DOMAIN db.measure
    PROVE  /\ Acts(t) /\ RemovesOwn(t)' /\ KnowsClients(t)' /\ Works(t)'
           /\ t = Reader => pc'[t] # "setLast" /\ TelegramSafe'
<1>1. Ends(t, AfterPurge(t), FrameAfterPurge(t))
  BY GotoEnds DEF Sound
<1>2. AfterPurge(t) \in {"idle", "addStorage"} /\ (AfterPurge(t) = "addStorage" => Continues(t))
  BY DEF AfterPurge
<1>3. RemovesOwn(t)' /\ KnowsClients(t)' /\ Works(t)'
  BY <1>1, <1>2 DEF Ends, RemovesOwn, Removal, KnowsClients, Works, Continues
<1>4. ASSUME t = Reader
      PROVE  TelegramSafe'
  <2>1. CASE AfterPurge(t) = "idle"
    BY <1>1, <1>4, <2>1 DEF Ends, TelegramSafe
  <2>2. CASE AfterPurge(t) = "addStorage"
    <3>1. frame[t] \in Frame
      BY DEF Sound, TypeOK
    <3>2. FrameAfterPurge(t).measures = frame[t].measures
      BY <1>2, <2>2, <3>1 DEF FrameAfterPurge, Frame
    <3>3. disturbed => disturbed'
      BY <1>1, <1>4, <2>2 DEF Ends, Record
    <3> QED
      BY <1>1, <1>4, <2>2, <3>2, <3>3 DEF Ends, TelegramSafe, ValuesOK
  <2> QED
    BY <1>2, <2>1, <2>2
<1> QED
  BY <1>1, <1>2, <1>3, <1>4 DEF Ends

LEMMA DeleteDataValues ==
    ASSUME Sound, Sound', ValuesOK, Record, NEW t \in Threads, DeleteData(t)
    PROVE  ValuesOK'
<1> DEFINE m == frame[t].measure
           keys == Outdated(m)
<1>1. pc[t] = "deleteData" /\ keys \subseteq RowsOf(m)
  BY DEF DeleteData, Outdated
<1>2. Consistent(Without(keys))
  BY <1>1, DeletionSucceeds DEF ValuesOK, Outdated, LastOf
<1>3. db' = Without(keys) /\ Goto(t, AfterPurge(t), FrameAfterPurge(t))
  BY <1>2 DEF DeleteData, Execute
<1>4. DOMAIN db'.measure = DOMAIN db.measure
  BY <1>3, FewerValues DEF Sound
<1>5. ASSUME m \in DOMAIN db.measure
      PROVE  (\A r, q \in RowsOf(m) \ keys : r = q) \/ (keys = {} /\ \E u \in Threads \ {t} : PurgeDue(u, m))
  <2> DEFINE last == db.measure[m].last
  <2>1. CASE last # None
    BY <1>5, <2>1 DEF Outdated, LastOf
  <2>2. CASE last = None
    <3>1. keys = {}
      BY <1>5, <2>2 DEF Outdated, LastOf
    <3>2. CASE \A r \in RowsOf(m) : Storing(r)
      BY <3>2 DEF Storing
    <3>3. CASE \E r \in RowsOf(m) : ~Storing(r)
      <4>1. PICK u \in Threads : pc[u] = "deleteRows" /\ frame[u].measure = m
        BY <1>5, <2>2, <3>3 DEF ValuesOK, LastAmongOwn
      <4>2. u # t /\ PurgeDue(u, m)
        BY <1>1, <2>2, <4>1 DEF PurgeDue
      <4> QED
        BY <3>1, <4>2
    <3> QED
      BY <3>2, <3>3
  <2> QED
    BY <2>1, <2>2
<1> HIDE DEF keys
<1> QED
  BY <1>1, <1>3, <1>4, <1>5, PurgeOver, ValuesGo

\* The value being stored is the newest: it has expired only if all others of its measure have.
LEMMA StoredExpiresLast ==
    ASSUME Sound, Ordered, StoredIsNewest, NEW m, NEW days \in Days, NEW r \in Expired(m, days), Storing(r)
    PROVE  Expired(m, days) = RowsOf(m)
<1> SUFFICES ASSUME NEW q \in RowsOf(m)
             PROVE  db.data[q].age > days
  BY DEF Expired
<1>1. r \in RowsOf(m) /\ db.data[r].age > days
  BY DEF Expired
<1>2. r \in DOMAIN db.data /\ q \in DOMAIN db.data
  BY <1>1 DEF RowsOf
<1>3. q # r => db.data[q].age >= db.data[r].age
  BY <1>2 DEF StoredIsNewest, Ordered
<1>4. \A k \in DOMAIN db.data : db.data[k].age \in Int
  BY TablesAssumption DEF Sound, TypeOK, Tables, Table, DataRow, Ages
<1>5. days \in Int
  BY TablesAssumption DEF Days
<1> QED
  BY <1>1, <1>2, <1>3, <1>4, <1>5

LEMMA ShrinkDataValues ==
    ASSUME Sound, Sound', ValuesOK, Record, NEW t \in Threads, ShrinkData(t)
    PROVE  ValuesOK'
<1> DEFINE m == frame[t].measure
           keys == Expired(m, frame[t].days)
<1>1. pc[t] = "shrink" /\ keys \subseteq RowsOf(m) /\ frame[t].days \in Days
  BY DEF ShrinkData, Expired, Sound, TypeOK, Frame
<1>2. CASE db' = Without(keys) /\ Goto(t, AfterPurge(t), FrameAfterPurge(t))
  <2>1. DOMAIN db'.measure = DOMAIN db.measure
    BY <1>2, FewerValues DEF Sound
  <2>2. (\A r, q \in RowsOf(m) \ keys : r = q) \/ (~PurgeDue(t, m) /\ \A r : Storing(r) => r \notin keys)
    <3>1. ~PurgeDue(t, m)
      BY <1>1 DEF PurgeDue
    <3>2. ASSUME NEW r \in keys, Storing(r)
          PROVE  keys = RowsOf(m)
      BY <1>1, <3>2, StoredExpiresLast DEF ValuesOK
    <3> QED
      BY <3>1, <3>2
  <2> HIDE DEF keys
  <2> QED
    BY <1>1, <1>2, <2>1, <2>2, PurgeOver, ValuesGo
<1>3. CASE ~Consistent(Without(keys)) /\ db' = db /\ Goto(t, "failed", frame[t])
  <2>1. Ends(t, "failed", frame[t])
    BY <1>3, GotoEnds DEF Sound
  <2>2. \A k : ClientsOf(k)' = ClientsOf(k)
    BY <1>3 DEF ClientsOf
  <2>3. ShrinksOwn(t)
    BY <1>1, <2>2 DEF ShrinksOwn, PurgeDue
  <2>4. RemovesOwn(t)' /\ KnowsClients(t)' /\ Works(t)'
    BY <2>1 DEF Ends, RemovesOwn, Removal, KnowsClients, Works
  <2>5. m \in DOMAIN db.measure /\ db.measure[m].last # None /\ db.measure[m].last \in keys
    BY <1>1, <1>3, DeletionSucceeds DEF ValuesOK
  <2>6. ASSUME t = Reader
        PROVE  disturbed
    <3>1. SUFFICES ASSUME ~disturbed
                   PROVE  FALSE
      OBVIOUS
    <3>2. db.measure[m].last = frame[Reader].row /\ db.data[frame[Reader].row].age = 0
      BY <1>1, <2>5, <2>6, <3>1 DEF ValuesOK, TelegramSafe
    <3>3. 0 > frame[t].days
      BY <2>5, <3>2 DEF Expired
    <3> QED
      BY <1>1, <3>3, TablesAssumption DEF Days
  <2>7. t = Reader => TelegramSafe'
    BY <2>1, <2>6 DEF Ends, Record, TelegramSafe
  <2> QED
    BY <1>1, <1>3, <2>1, <2>3, <2>4, <2>7, CalmValues DEF DeletesNone, Ends
<1> QED
  BY <1>2, <1>3 DEF ShrinkData, Execute

LEMMA InsertMeasureValues ==
    ASSUME Sound, Sound', ValuesOK, Record, NEW t \in AdminThreads, t \in Threads \ {Reader}, InsertMeasure(t)
    PROVE  ValuesOK'
<1>1. pc[t] = "insertMeasures" /\ TypeOK /\ Tables(db) /\ Aside(db)
  BY DEF InsertMeasure, Sound, TypeOK, Aside
<1>2. \A f : Unwatched("insertMeasures", f) /\ Unwatched("failed", f)
  BY DEF Unwatched, Removal
<1>3. CASE db' = db
  <2>1. End(t) \/ \E f : Goto(t, "insertMeasures", f) \/ Goto(t, "failed", f)
    BY DEF InsertMeasure, Execute
  <2>2. Quiet(t)
    BY <1>1, <1>2, <1>3, <2>1, QuietGoto, QuietEnd DEF Witnesses
  <2> QED
    BY <2>2, QuietStep
<1>4. ASSUME NEW key, key \notin DOMAIN db.measure, key \notin HeldMeasures, NEW row, row.last = None, NEW f,
             db' = [db EXCEPT !.measure = Insert(@, key, row)], Goto(t, "insertMeasures", f)
      PROVE  ValuesOK'
  <2>1. Ends(t, "insertMeasures", f)
    BY <1>1, <1>4, GotoEnds
  <2>2. db'.data = db.data /\ db'.client = db.client /\ db'.measure = Insert(db.measure, key, row)
    BY <1>1, <1>4, Fields DEF Tables
  <2>3. /\ DOMAIN db'.measure = DOMAIN db.measure \cup {key} /\ db'.measure[key] = row
        /\ \A m \in DOMAIN db.measure : db'.measure[m] = db.measure[m]
    BY <1>4, <2>2 DEF Insert
  <2>4. \A m : RowsOf(m)' = RowsOf(m) /\ ClientsOf(m)' = ClientsOf(m)
    BY <2>2 DEF RowsOf, ClientsOf
  <2>5. RowsOf(key) = {}
    BY <1>4 DEF RowsOf, Sound, Consistent
  <2>6. Fewer({}) /\ NoNewValue /\ \A r : Storing(r) => Storing(r)'
    BY <2>1, <2>2, SameValues, MeasureThreads DEF NoNewValue, Storing, Ends, Acts
  <2>7. Ordered' /\ StoredIsNewest'
    BY <2>6, FewerOrdered, FewerNewest DEF ValuesOK
  <2>8. LastAmongOwn'
    <3>1. \A u \in Threads, m \in DOMAIN db'.measure :
            pc[u] = "deleteRows" /\ frame[u].measure = m => pc'[u] = "deleteRows" /\ frame'[u].measure = m
      BY <1>1, <2>1 DEF Ends, Acts
    <3>2. \A m \in DOMAIN db'.measure :
            \/ db'.measure[m].last = None /\ RowsOf(m)' = {}
            \/ m \in DOMAIN db.measure /\ db'.measure[m].last = db.measure[m].last
      BY <1>4, <2>3, <2>4, <2>5
    <3> QED
      BY <2>6, <3>1, <3>2, FewerLast DEF ValuesOK
  <2>9. RemovesOwn(t)' /\ KnowsClients(t)' /\ Works(t)'
    BY <2>1 DEF Ends, RemovesOwn, Removal, KnowsClients, Works
  <2>10. AllRemoveOwn'
    <3>1. \A u \in Threads : frame[u].measure # key /\ key \notin frame[u].measures
      BY <1>4 DEF HeldMeasures, HeldKeys
    <3> QED
      BY <2>1, <2>3, <2>9, <3>1, OthersRemoveOwn DEF Ends, ValuesOK
  <2>11. PurgesKnowClients' /\ Working'
    BY <2>1, <2>9, OthersKnowClients, OthersWork DEF Ends, ValuesOK
  <2>12. Shrunk'
    <3>1. ASSUME NEW m \in DOMAIN db.measure
          PROVE  /\ db'.measure[m].sensor = db.measure[m].sensor /\ ~PurgeDue(t, m)
                 /\ \A u \in Threads \ {t} : PurgeDue(u, m) => PurgeDue(u, m)'
      <4>1. \A u \in Threads \ {t} : PurgeDue(u, m) => PurgeDue(u, m)'
        BY <2>1, <2>2, <2>3, OthersDue DEF Ends
      <4>2. ~PurgeDue(t, m)
        BY <1>1 DEF PurgeDue
      <4> QED
        BY <2>3, <4>1, <4>2
    <3> QED
      BY <2>1, <2>3, <2>4, <2>5, <3>1, OthersShrink DEF Ends, ValuesOK
  <2>13. TelegramSafe'
    BY <2>1, <2>2, <2>3, <2>6, OthersLeaveTelegram DEF Ends, ValuesOK
  <2> QED
    BY <2>7, <2>8, <2>10, <2>11, <2>12, <2>13 DEF ValuesOK
<1>5. CASE db' # db
  <2>1. PICK shortcut \in frame[t].shortcuts :
            LET fresh == FreshKeys(Measures, db.measure, HeldMeasures)
                row == [sensor |-> frame[t].sensor, shortcut |-> shortcut, last |-> None]
            IN  /\ fresh # {}
                /\ db' = [db EXCEPT !.measure = Insert(@, NewKey(fresh), row)]
                /\ \E f : Goto(t, "insertMeasures", f)
    BY <1>5 DEF InsertMeasure, Execute
  <2> DEFINE fresh == FreshKeys(Measures, db.measure, HeldMeasures)
             row == [sensor |-> frame[t].sensor, shortcut |-> shortcut, last |-> None]
  <2>2. NewKey(fresh) \notin DOMAIN db.measure /\ NewKey(fresh) \notin HeldMeasures
    BY <2>1, NewKeyType DEF FreshKeys
  <2> QED
    BY <1>4, <2>1, <2>2
<1> QED
  BY <1>3, <1>5

\* Only a missing value cannot be the last of its measure.
LEMMA LastSucceeds ==
    ASSUME Sound, NEW m, NEW r \in DOMAIN db.data
    PROVE  Consistent(WithLast(m, r))
<1> DEFINE d == WithLast(m, r)
<1>1. r \in Rows
  BY DEF Sound, TypeOK, Tables, Table
<1>2. /\ d.data = db.data /\ d.client = db.client /\ d.sensor = db.sensor /\ d.group = db.group
      /\ d.groupSensor = db.groupSensor /\ d.location = db.location /\ DOMAIN d.measure = DOMAIN db.measure
      /\ \A k \in DOMAIN db.measure : /\ d.measure[k].sensor = db.measure[k].sensor
                                      /\ d.measure[k].last = IF k = m THEN r ELSE db.measure[k].last
  BY <1>1, LastSet
<1> HIDE DEF d
<1>3. Consistent(d)
  BY <1>2 DEF Sound, Consistent
<1> QED
  BY <1>3 DEF d

LEMMA SetLastValues ==
    ASSUME Sound, Sound', ValuesOK, Record, SetLastMeasureData
    PROVE  ValuesOK'
<1> DEFINE m == frame[Reader].measure
           r == frame[Reader].row
<1>1. /\ Reader \in Threads /\ pc[Reader] = "setLast" /\ Works(Reader)
      /\ frame[Reader] \in Frame /\ r \in Rows \cup {None}
  BY MeasureThreads DEF SetLastMeasureData, ValuesOK, Working, Sound, TypeOK, Frame
<1>2. r # None
  BY <1>1 DEF Works
<1>3. \/ db' = WithLast(m, r) /\ Goto(Reader, "checkClients", frame[Reader])
      \/ ~Consistent(WithLast(m, r)) /\ db' = db /\ Goto(Reader, "failed", frame[Reader])
  BY DEF SetLastMeasureData, Execute
<1>4. PICK label \in {"checkClients", "failed"} : Ends(Reader, label, frame[Reader])
  BY <1>1, <1>3, GotoEnds DEF Sound
<1>5. /\ db'.data = db.data /\ db'.client = db.client /\ DOMAIN db'.measure = DOMAIN db.measure
      /\ \A k \in DOMAIN db.measure : /\ db'.measure[k].sensor = db.measure[k].sensor
                                      /\ k # m => db'.measure[k].last = db.measure[k].last
  BY <1>1, <1>3, LastSet
<1>6. \A k : RowsOf(k)' = RowsOf(k) /\ ClientsOf(k)' = ClientsOf(k)
  BY <1>5 DEF RowsOf, ClientsOf
<1>7. Fewer({}) /\ NoNewValue
  BY <1>4, <1>5, SameValues DEF NoNewValue, Ends
<1>8. Ordered' /\ StoredIsNewest'
  BY <1>7, FewerOrdered, FewerNewest DEF ValuesOK
<1>9. RemovesOwn(Reader)' /\ KnowsClients(Reader)' /\ Works(Reader)'
  BY <1>4 DEF Ends, RemovesOwn, Removal, KnowsClients, Works
<1>10. AllRemoveOwn' /\ PurgesKnowClients' /\ Working'
  BY <1>1, <1>4, <1>5, <1>9, OthersRemoveOwn, OthersKnowClients, OthersWork DEF Ends, ValuesOK
<1>11. \A q : Storing(q) <=> q = r
  BY <1>1 DEF Storing
<1>12. \A k \in DOMAIN db.measure, u \in Threads :
            pc[u] = "deleteRows" /\ frame[u].measure = k => pc'[u] = "deleteRows" /\ frame'[u].measure = k
  BY <1>1, <1>4 DEF Ends, Acts
<1>13. CASE r \notin DOMAIN db.data
  <2>1. \A q : Storing(q) => q \notin DOMAIN db'.data
    BY <1>5, <1>11, <1>13
  <2>2. \A k \in DOMAIN db'.measure : db'.measure[k].last = db.measure[k].last
    <3>1. m \in DOMAIN db.measure /\ db' = WithLast(m, r) => db'.measure[m].last = r /\ r \in DOMAIN db'.data
      BY <1>1, <1>2, LastSet DEF Sound, Consistent
    <3>2. m \in DOMAIN db.measure => db' = db
      BY <1>3, <1>5, <1>13, <3>1
    <3> QED
      BY <1>5, <3>2
  <2>3. LastAmongOwn'
    BY <1>5, <1>7, <1>12, <2>1, <2>2, FewerLast DEF ValuesOK
  <2>4. \A k \in DOMAIN db'.measure : ~PurgeDue(Reader, k)
    BY <1>1, <1>13 DEF PurgeDue
  <2>5. \A k \in DOMAIN db'.measure : \A u \in Threads \ {Reader} : PurgeDue(u, k) => PurgeDue(u, k)'
    BY <1>1, <1>4, <1>5, <2>2, OthersDue DEF Ends
  <2>6. Shrunk'
    BY <1>1, <1>4, <1>5, <1>6, <2>4, <2>5, OthersShrink DEF Ends, ValuesOK
  <2>7. TelegramSafe'
    <3>1. disturbed
      BY <1>1, <1>13 DEF ValuesOK, TelegramSafe
    <3> QED
      BY <1>4, <3>1 DEF Ends, Record, TelegramSafe
  <2> QED
    BY <1>8, <1>10, <2>3, <2>6, <2>7 DEF ValuesOK
<1>14. CASE r \in DOMAIN db.data
  <2>1. db' = WithLast(m, r) /\ label = "checkClients"
    BY <1>3, <1>4, <1>14, LastSucceeds, GotoEnds, <1>1 DEF Sound, Ends
  <2>2. m \in DOMAIN db.measure /\ db.data[r].measure = m /\ DOMAIN db.data \ {r} \subseteq db.data[r].older
    BY <1>11, <1>14 DEF ValuesOK, StoredIsNewest, Sound, Consistent
  <2>3. db'.measure[m].last = r
    BY <1>1, <2>1, <2>2, LastSet
  <2>4. LastAmongOwn'
    <3> SUFFICES ASSUME NEW k \in DOMAIN db'.measure
                 PROVE  LET last == db'.measure[k].last
                        IN  /\ last = None => \A q \in RowsOf(k)' :
                                    Storing(q)' \/ \E u \in Threads : pc'[u] = "deleteRows" /\ frame'[u].measure = k
                            /\ last # None => /\ last \in RowsOf(k)'
                                              /\ \A q \in RowsOf(k)' \ {last} : q \in db'.data[last].older \/ Storing(q)'
      BY DEF LastAmongOwn
    <3>1. CASE k = m
      BY <1>2, <1>5, <1>6, <1>14, <2>2, <2>3, <3>1 DEF RowsOf
    <3>2. CASE k # m
      <4>1. \A q \in RowsOf(k) : ~Storing(q)
        BY <1>11, <2>2, <3>2 DEF RowsOf
      <4> QED
        BY <1>5, <1>6, <1>12, <3>2, <4>1 DEF ValuesOK, LastAmongOwn
    <3> QED
      BY <3>1, <3>2
  <2>5. Shrunk'
    <3>1. PurgeDue(Reader, m)'
      BY <1>4, <2>1 DEF PurgeDue, Ends
    <3>2. \A k \in DOMAIN db'.measure : k # m => ~PurgeDue(Reader, k)
      BY DEF PurgeDue
    <3>3. \A k \in DOMAIN db'.measure : k # m => \A u \in Threads \ {Reader} : PurgeDue(u, k) => PurgeDue(u, k)'
      BY <1>1, <1>4, <1>5, OthersDue DEF Ends
    <3> QED
      BY <1>1, <1>4, <1>5, <1>6, <3>1, <3>2, <3>3, OthersShrink DEF Ends, ValuesOK
  <2>6. TelegramSafe'
    <3>1. disturbed => disturbed'
      BY <1>4 DEF Ends, Record
    <3> QED
      BY <1>1, <1>4, <1>5, <2>1, <2>3, <3>1 DEF Ends, TelegramSafe, ValuesOK
  <2> QED
    BY <1>8, <1>10, <2>4, <2>5, <2>6 DEF ValuesOK
<1> QED
  BY <1>13, <1>14

LEMMA MidnightValues ==
    ASSUME Sound, Sound', ValuesOK, Record, Midnight
    PROVE  ValuesOK'
<1>1. Fewer({}) /\ db'.measure = db.measure /\ db'.client = db.client /\ db'.sensor = db.sensor
  BY FewerMidnight DEF Sound
<1>2. pc' = pc /\ frame' = frame
  BY DEF Midnight
<1>3. \A k : RowsOf(k)' = RowsOf(k) /\ ClientsOf(k)' = ClientsOf(k)
  BY <1>1 DEF RowsOf, ClientsOf, Fewer
<1>4. NoNewValue /\ \A r : Storing(r) => Storing(r)'
  BY <1>2 DEF NoNewValue, Storing
<1>5. Ordered' /\ StoredIsNewest' /\ LastAmongOwn'
  BY <1>1, <1>2, <1>4, FewerOrdered, FewerNewest, FewerLast DEF ValuesOK
<1>6. AllRemoveOwn' /\ Working'
  BY <1>1, <1>2 DEF ValuesOK, AllRemoveOwn, RemovesOwn, Working, Works
<1>7. Shrunk'
  <2> SUFFICES ASSUME NEW m \in DOMAIN db'.measure, ClientsOf(m)' = {}, db'.measure[m].sensor \notin broken'
               PROVE  (\A r, q \in RowsOf(m)' : r = q) \/ \E u \in Threads : PurgeDue(u, m)'
    BY DEF Shrunk
  <2>1. db.measure[m].sensor \notin broken
    BY <1>1, BrokenStay DEF Sound, Consistent
  <2>2. \A u \in Threads : PurgeDue(u, m) => PurgeDue(u, m)'
    BY <1>1, <1>2 DEF PurgeDue, Fewer
  <2> QED
    BY <1>1, <1>3, <2>1, <2>2 DEF ValuesOK, Shrunk
<1>8. TelegramSafe'
  <2> SUFFICES ASSUME ~disturbed', pc[Reader] # "idle"
               PROVE  TelegramSafe'
    BY <1>2 DEF TelegramSafe
  <2>1. ~disturbed /\ db'.data = db.data
    BY <1>1, <1>2 DEF Record, Aged, Fewer
  <2> QED
    BY <1>1, <1>2, <2>1 DEF ValuesOK, TelegramSafe
<1>9. PurgesKnowClients'
  <2> SUFFICES ASSUME NEW t \in Threads \ overtaken'
               PROVE  KnowsClients(t)'
    BY DEF PurgesKnowClients
  <2>1. pc[t] \in Purging => t \notin overtaken
    BY <1>2 DEF Record
  <2>2. KnowsClients(t) \/ pc[t] \notin Purging
    BY <2>1 DEF ValuesOK, PurgesKnowClients
  <2> QED
    BY <1>1, <1>2, <1>3, <2>2 DEF KnowsClients, Purging
<1> QED
  BY <1>5, <1>6, <1>7, <1>8, <1>9 DEF ValuesOK

\* A new value of a measure that is there breaks no key.
LEMMA StorageSucceeds ==
    ASSUME Sound, NEW m \in DOMAIN db.measure, NEW key, NEW row, row.measure = m
    PROVE  Consistent([db EXCEPT !.data = Insert(@, key, row)])
<1> DEFINE d == [db EXCEPT !.data = Insert(@, key, row)]
<1>1. /\ d.group = db.group /\ d.sensor = db.sensor /\ d.groupSensor = db.groupSensor /\ d.measure = db.measure
      /\ d.client = db.client /\ d.location = db.location /\ d.data = Insert(db.data, key, row)
  BY DEF Sound, TypeOK, Tables
<1>2. DOMAIN db.data \subseteq DOMAIN d.data /\ \A r \in DOMAIN d.data : d.data[r].measure \in DOMAIN db.measure
  BY <1>1 DEF Insert, Sound, Consistent
<1> HIDE DEF d
<1>3. Consistent(d)
  BY <1>1, <1>2 DEF Sound, Consistent
<1> QED
  BY <1>3 DEF d

LEMMA AddStorageValues ==
    ASSUME Sound, Sound', ValuesOK, Record, AddStorage
    PROVE  ValuesOK'
<1>1. Reader \in Threads /\ pc[Reader] = "addStorage" /\ frame[Reader] \in Frame /\ Tables(db)
  BY MeasureThreads DEF AddStorage, Sound, TypeOK
<1> DEFINE fresh == FreshKeys(Rows, db.data, HeldKeys("row"))
           key == NewKey(fresh)
<1>2. PICK m \in frame[Reader].measures :
            Execute(Reader, [db EXCEPT !.data = Insert(@, key, [measure |-> m, age |-> 0, older |-> DOMAIN db.data])], "setLast",
                    [frame[Reader] EXCEPT !.measure = m, !.measures = @ \ {m}, !.row = key])
  BY DEF AddStorage
<1> DEFINE row == [measure |-> m, age |-> 0, older |-> DOMAIN db.data]
           result == [db EXCEPT !.data = Insert(@, key, row)]
           f == [frame[Reader] EXCEPT !.measure = m, !.measures = @ \ {m}, !.row = key]
<1>3. key \in Rows \ {None} /\ key \notin DOMAIN db.data
  BY NewKeyType, TablesAssumption DEF AddStorage, FreshKeys
<1>4. f.measure = m /\ f.measures = frame[Reader].measures \ {m} /\ f.row = key
  BY <1>1 DEF Frame
<1>5. row.measure = m /\ row.age = 0 /\ row.older = DOMAIN db.data
  OBVIOUS
<1>6. result.data = Insert(db.data, key, row) /\ result.measure = db.measure /\ result.client = db.client
  BY <1>1, Fields DEF Tables
<1>7. \/ Consistent(result) /\ db' = result /\ Goto(Reader, "setLast", f)
      \/ ~Consistent(result) /\ db' = db /\ Goto(Reader, "failed", frame[Reader])
  BY <1>2 DEF Execute
<1>8. m \in DOMAIN db.measure => Consistent(result)
  BY <1>5, StorageSucceeds
<1> HIDE DEF fresh, row, result, f
<1>9. CASE ~Consistent(result) /\ db' = db /\ Goto(Reader, "failed", frame[Reader])
  <2>1. Ends(Reader, "failed", frame[Reader])
    BY <1>1, <1>9, GotoEnds DEF Sound
  <2>2. disturbed
    BY <1>1, <1>8, <1>9 DEF ValuesOK, TelegramSafe
  <2>3. TelegramSafe'
    BY <2>1, <2>2 DEF Ends, Record, TelegramSafe
  <2>4. \A k : ClientsOf(k)' = ClientsOf(k)
    BY <1>9 DEF ClientsOf
  <2>5. ShrinksOwn(Reader)
    BY <1>1, <2>4, ReaderAssumption DEF ShrinksOwn, PurgeDue
  <2>6. RemovesOwn(Reader)' /\ KnowsClients(Reader)' /\ Works(Reader)'
    BY <2>1 DEF Ends, RemovesOwn, Removal, KnowsClients, Works
  <2> QED
    BY <1>1, <1>9, <2>1, <2>3, <2>5, <2>6, CalmValues DEF DeletesNone, Ends
<1>10. CASE Consistent(result) /\ db' = result /\ Goto(Reader, "setLast", f)
  <2>1. Ends(Reader, "setLast", f)
    BY <1>1, <1>10, GotoEnds DEF Sound
  <2>2. /\ db'.measure = db.measure /\ db'.client = db.client /\ DOMAIN db'.data = DOMAIN db.data \cup {key}
        /\ db'.data[key] = row /\ \A r \in DOMAIN db.data : db'.data[r] = db.data[r]
    BY <1>3, <1>6, <1>10 DEF Insert
  <2>3. /\ \A r \in DOMAIN db.data : db.data[r].older \subseteq DOMAIN db.data
        /\ \A r \in DOMAIN db.data : db.data[r].age >= 0
    BY TablesAssumption DEF ValuesOK, Ordered, Sound, TypeOK, Tables, Table, DataRow, Ages
  <2>4. Ordered'
    <3>1. \A r \in DOMAIN db'.data : db'.data[r].older \subseteq DOMAIN db'.data \ {r}
      BY <1>3, <1>5, <2>2 DEF ValuesOK, Ordered
    <3>2. ASSUME NEW r \in DOMAIN db'.data, NEW q \in DOMAIN db'.data
          PROVE  /\ r # q => (r \in db'.data[q].older <=> q \notin db'.data[r].older)
                 /\ r \in db'.data[q].older => db'.data[r].age >= db'.data[q].age
      BY <1>3, <1>5, <2>2, <2>3 DEF ValuesOK, Ordered
    <3> QED
      BY <3>1, <3>2 DEF Ordered
  <2>5. \A r : Storing(r)' <=> r = key
    BY <1>4, <2>1 DEF Ends, Storing
  <2>6. StoredIsNewest'
    BY <1>4, <1>5, <2>1, <2>2, <2>5 DEF Ends, StoredIsNewest
  <2>7. \A k : /\ ClientsOf(k)' = ClientsOf(k) /\ (k # m => RowsOf(k)' = RowsOf(k))
               /\ RowsOf(k)' \subseteq RowsOf(k) \cup {key} /\ RowsOf(k) \subseteq RowsOf(k)'
    BY <1>5, <2>2 DEF ClientsOf, RowsOf
  <2>8. LastAmongOwn'
    <3> SUFFICES ASSUME NEW k \in DOMAIN db'.measure
                 PROVE  LET last == db'.measure[k].last
                        IN  /\ last = None => \A q \in RowsOf(k)' :
                                    Storing(q)' \/ \E u \in Threads : pc'[u] = "deleteRows" /\ frame'[u].measure = k
                            /\ last # None => /\ last \in RowsOf(k)'
                                              /\ \A q \in RowsOf(k)' \ {last} : q \in db'.data[last].older \/ Storing(q)'
      BY DEF LastAmongOwn
    <3> DEFINE last == db.measure[k].last
    <3>1. \A q : ~Storing(q)
      BY <1>1 DEF Storing
    <3>2. CASE last = None
      <4>1. ASSUME NEW q \in RowsOf(k)
            PROVE  \E u \in Threads : pc'[u] = "deleteRows" /\ frame'[u].measure = k
        BY <1>1, <2>1, <2>2, <3>1, <3>2 DEF ValuesOK, LastAmongOwn, Ends, Acts
      <4> QED
        BY <2>2, <2>5, <2>7, <3>2, <4>1
    <3>3. CASE last # None
      <4>1. last \in DOMAIN db.data /\ last \in RowsOf(k) /\ \A q \in RowsOf(k) \ {last} : q \in db.data[last].older
        BY <2>2, <3>1, <3>3 DEF ValuesOK, LastAmongOwn, RowsOf
      <4> QED
        BY <2>2, <2>5, <2>7, <3>3, <4>1
    <3> QED
      BY <3>2, <3>3
  <2>9. RemovesOwn(Reader)' /\ KnowsClients(Reader)' /\ Works(Reader)'
    BY <1>3, <1>4, <2>1 DEF Ends, RemovesOwn, Removal, KnowsClients, Works
  <2>10. AllRemoveOwn' /\ PurgesKnowClients' /\ Working'
    BY <1>1, <2>1, <2>2, <2>9, OthersRemoveOwn, OthersKnowClients, OthersWork DEF Ends, ValuesOK
  <2>11. Shrunk'
    <3>1. PurgeDue(Reader, m)'
      BY <1>4, <2>1, <2>2 DEF PurgeDue, Ends
    <3>2. \A k \in DOMAIN db'.measure : ~PurgeDue(Reader, k)
      BY <1>1 DEF PurgeDue
    <3>3. \A k \in DOMAIN db'.measure : \A u \in Threads \ {Reader} : PurgeDue(u, k) => PurgeDue(u, k)'
      BY <1>1, <2>1, <2>2, OthersDue DEF Ends
    <3> QED
      BY <1>1, <2>1, <2>2, <2>7, <3>1, <3>2, <3>3, OthersShrink DEF Ends, ValuesOK
  <2>12. TelegramSafe'
    <3>1. disturbed => disturbed'
      BY <2>1 DEF Ends, Record
    <3>2. ~disturbed => frame[Reader].measures \subseteq DOMAIN db.measure
      BY <1>1 DEF ValuesOK, TelegramSafe
    <3> QED
      BY <1>4, <1>5, <2>1, <2>2, <3>1, <3>2 DEF Ends, TelegramSafe
  <2> QED
    BY <2>4, <2>6, <2>8, <2>10, <2>11, <2>12 DEF ValuesOK
<1> QED
  BY <1>7, <1>9, <1>10

-----------------------------------------------------------------------------
(* All of this holds of every step. *)

LEMMA PurgeValues ==
    ASSUME Sound, Sound', ValuesOK, Record, NEW t \in Threads, Purge(t) \/ GiveUp(t)
    PROVE  ValuesOK'
BY CheckClientsValues, DeleteDataValues, SelectMaxDaysValues, ShrinkDataValues, GiveUpValues DEF Purge

LEMMA ClientCallValues ==
    ASSUME Sound, Sound', ValuesOK, Record, NEW t \in ClientThreads, ClientCall(t)
    PROVE  ValuesOK'
<1>1. t \in Threads \ {Reader}
  BY MeasureThreads
<1>2. CASE (\E m \in Measures, days \in Days : FindClient(t, m, days)) \/ UpdateClient(t) \/ InsertClient(t)
  BY <1>1, <1>2, QuietClientCalls, QuietStep
<1>3. CASE \E m \in Measures : RemoveClient(t, m)
  BY <1>1, <1>3, RemoveClientValues
<1>4. CASE Purge(t) \/ GiveUp(t)
  BY <1>1, <1>4, PurgeValues
<1> QED
  BY <1>2, <1>3, <1>4 DEF ClientCall

LEMMA TelegramValues ==
    ASSUME Sound, Sound', ValuesOK, Record, Telegram
    PROVE  ValuesOK'
<1>1. Reader \in Threads
  BY MeasureThreads
<1> QED
  BY <1>1, ReceiveTelegramValues, AddStorageValues, SetLastValues, PurgeValues DEF Telegram

LEMMA AdminCallValues ==
    ASSUME Sound, Sound', ValuesOK, Record, NEW t \in AdminThreads, AdminCall(t)
    PROVE  ValuesOK'
<1>1. t \in Threads \ {Reader} /\ TypeOK /\ Working
  BY AdminAssumption, ReaderAssumption DEF Sound, ValuesOK
<1>2. CASE \/ \E g \in Groups : AddGroup(t, g) \/ DeleteGroup(t, g)
           \/ \E g \in Groups, s \in Sensors : AddSensorToGroup(t, g, s) \/ DeleteSensor(t, g, s)
           \/ LinkNewSensor(t) \/ NextSensor(t) \/ DeleteGroupRow(t)
  BY <1>1, <1>2, QuietGroupCalls, QuietStep
<1>3. CASE \/ \E a \in Addresses, g \in Groups, l \in Locations, shortcuts \in SUBSET Shortcuts :
                AddSensor(t, a, g, l, shortcuts)
           \/ \E s \in Sensors, a \in Addresses, l \in Locations, shortcuts \in SUBSET Shortcuts :
                UpdateSensor(t, s, a, l, shortcuts)
           \/ \E l \in Locations : DeleteLocation(t, l)
           \/ CountGroups(t) \/ ReadLocation(t) \/ DeleteSensorRow(t) \/ CompareMeasures(t)
           \/ CountSensors(t) \/ CountChildren(t) \/ DeleteLocationRow(t)
  BY <1>1, <1>3, QuietSensorCalls, QuietStep
<1>4. CASE InsertMeasure(t) \/ ListMeasures(t) \/ RemoveMeasure(t) \/ DeleteClients(t) \/ FindObsolete(t)
  BY <1>1, <1>4, InsertMeasureValues, ListMeasuresValues, RemoveMeasureValues, DeleteClientsValues, FindObsoleteValues
<1>5. CASE ClearLast(t) \/ DeleteRows(t) \/ DeleteMeasure(t) \/ GiveUp(t)
  BY <1>1, <1>5, ClearLastValues, DeleteRowsValues, DeleteMeasureValues, GiveUpValues
<1> QED
  BY <1>2, <1>3, <1>4, <1>5 DEF AdminCall

LEMMA LocationCallValues ==
    ASSUME Sound, Sound', ValuesOK, Record, NEW t \in LocationThreads, LocationCall(t)
    PROVE  ValuesOK'
<1>1. t \in Threads \ {Reader} /\ TypeOK
  BY LocationAssumption, ReaderAssumption DEF Sound
<1> QED
  BY <1>1, QuietLocationCalls, QuietStep, GiveUpValues

LEMMA ValuesStep ==
    ASSUME Sound, ValuesOK, [Next]_<<vars, history>>
    PROVE  Sound' /\ ValuesOK'
<1>1. Sound'
  BY SoundStep
<1>2. CASE Next
  BY <1>1, <1>2, ClientCallValues, TelegramValues, MidnightValues, AdminCallValues, LocationCallValues DEF Next
<1>3. CASE UNCHANGED <<vars, history>>
  <2>1. db' = db /\ pc' = pc /\ frame' = frame /\ overtaken' = overtaken /\ disturbed' = disturbed /\ broken' = broken
    BY <1>3 DEF vars, history
  <2>2. \A m : RowsOf(m)' = RowsOf(m) /\ ClientsOf(m)' = ClientsOf(m)
    BY <2>1 DEF RowsOf, ClientsOf
  <2>3. Ordered' /\ StoredIsNewest' /\ LastAmongOwn'
    BY <2>1, <2>2 DEF ValuesOK, Ordered, StoredIsNewest, Storing, LastAmongOwn
  <2>4. AllRemoveOwn' /\ Working' /\ PurgesKnowClients' /\ TelegramSafe'
    BY <2>1, <2>2
    DEF ValuesOK, AllRemoveOwn, RemovesOwn, Working, Works, PurgesKnowClients, KnowsClients, TelegramSafe
  <2>5. Shrunk'
    BY <2>1, <2>2 DEF ValuesOK, Shrunk, PurgeDue
  <2> QED
    BY <1>1, <2>3, <2>4, <2>5 DEF ValuesOK
<1> QED
  BY <1>2, <1>3

LEMMA ValuesInit == Init => Sound /\ ValuesOK
<1> SUFFICES ASSUME Init
             PROVE  ValuesOK
  BY SoundInit
<1>1. Settled(db) /\ disturbed = FALSE
  BY ScenariosAssumption DEF Init
<1>2. Reader \in Threads
  BY MeasureThreads
<1>3. \A t \in Threads : pc[t] = "idle"
  BY DEF Init
<1>4. \A r : ~Storing(r)
  BY <1>2, <1>3 DEF Storing
<1>5. Ordered
  BY <1>1 DEF Settled, Ordered
<1>6. LastAmongOwn
  BY <1>1 DEF Settled, LastAmongOwn, RowsOf
<1>7. Shrunk
  <2> SUFFICES ASSUME NEW m \in DOMAIN db.measure, ClientsOf(m) = {}
               PROVE  \A r, q \in RowsOf(m) : r = q
    BY DEF Shrunk
  <2>1. \A c \in DOMAIN db.client : db.client[c].measure # m
    BY DEF ClientsOf
  <2>2. RowsOf(m) \subseteq {db.measure[m].last}
    BY <1>1, <2>1 DEF Settled, RowsOf
  <2> QED
    BY <2>2
<1>8. StoredIsNewest /\ AllRemoveOwn /\ TelegramSafe /\ PurgesKnowClients /\ Working
  BY <1>2, <1>3, <1>4
  DEF StoredIsNewest, AllRemoveOwn, RemovesOwn, Removal, TelegramSafe, PurgesKnowClients, KnowsClients, Working, Works
<1> QED
  BY <1>5, <1>6, <1>7, <1>8 DEF ValuesOK

LEMMA ValuesAlways == Spec => [](Sound /\ ValuesOK)
BY ValuesInit, ValuesStep, PTL DEF Spec

\* A measure points to the newest of its values, whatever registrations, removals and telegrams are
\* under way: each of the deletions spares the last one or takes the measure with it.
THEOREM LastNewest == Spec => []LastIsNewest
<1>1. ASSUME Sound, ValuesOK
      PROVE  LastIsNewest
  BY <1>1 DEF ValuesOK, LastAmongOwn, StoredIsNewest, Storing, LastIsNewest, LastOf, RowsOf
<1> QED
  BY <1>1, ValuesAlways, PTL

\* A measure without clients keeps its last value only, once no call is at it, unless a call has
\* failed on its sensor (removeClient, deleteDataMeasure).
THEOREM OnlyLastKept == Spec => []OnlyLastWithoutClients
<1>1. ASSUME Shrunk
      PROVE  OnlyLastWithoutClients
  <2> SUFFICES ASSUME NEW m \in DOMAIN db.measure, ClientsOf(m) = {}, db.measure[m].sensor \notin broken,
                      \A t \in Threads : frame[t].measure # m
               PROVE  Cardinality(RowsOf(m)) <= 1
    BY DEF OnlyLastWithoutClients
  <2>1. \A r, q \in RowsOf(m) : r = q
    BY <1>1 DEF Shrunk, PurgeDue
  <2>2. RowsOf(m) = {} \/ \E r : RowsOf(m) = {r}
    BY <2>1
  <2>3. CASE RowsOf(m) = {}
    <3>1. Cardinality({}) = 0
      BY FS_EmptySet
    <3> QED
      BY <2>3, <3>1
  <2>4. CASE \E r : RowsOf(m) = {r}
    <3>1. Cardinality(RowsOf(m)) = 1
      BY <2>4, FS_Singleton
    <3> QED
      BY <3>1
  <2> QED
    BY <2>2, <2>3, <2>4
<1>2. ValuesOK => Shrunk
  BY DEF ValuesOK
<1> QED
  BY <1>1, <1>2, ValuesAlways, PTL

\* A telegram is given up, with the measures that are still to be stored, only when something was
\* deleted under its hands or midnight passed (radioTelegram).
THEOREM TelegramLost == Spec => []LostOnlyDisturbed
<1>1. ValuesOK => LostOnlyDisturbed
  BY DEF ValuesOK, TelegramSafe, LostOnlyDisturbed
<1> QED
  BY <1>1, ValuesAlways, PTL

-----------------------------------------------------------------------------
(* Which steps delete values. *)

Spares == DOMAIN db.data \subseteq DOMAIN db'.data

\* A value that a client of its measure still asks for, and the deletions that may take it.
Wanted(r) == \E c \in ClientsOf(db.data[r].measure) : db.client[c].days >= db.data[r].age
Allowed(t) == (t \in overtaken /\ pc[t] # pc'[t]) \/ (pc[t] = "deleteRows" /\ pc'[t] = "deleteMeasure")
SparesWanted == \A r \in DOMAIN db.data \ DOMAIN db'.data : Wanted(r) => \E t \in Threads : Allowed(t)

LEMMA PurgeSparesWanted ==
    ASSUME Sound, ValuesOK, NEW t \in Threads, Purge(t) \/ GiveUp(t)
    PROVE  SparesWanted
<1> DEFINE m == frame[t].measure
<1>1. CASE CheckClients(t) \/ SelectMaxDays(t) \/ GiveUp(t)
  BY <1>1 DEF CheckClients, SelectMaxDays, GiveUp, SparesWanted
<1>2. ASSUME NEW keys, keys \subseteq RowsOf(m), pc[t] \in {"deleteData", "shrink"},
             Execute(t, Without(keys), AfterPurge(t), FrameAfterPurge(t)),
             ASSUME NEW r \in keys, KnowsClients(t) PROVE ~Wanted(r)
      PROVE  SparesWanted
  <2>1. CASE db' = db
    BY <2>1 DEF SparesWanted
  <2>2. CASE db' = Without(keys) /\ Goto(t, AfterPurge(t), FrameAfterPurge(t))
    <3>1. DOMAIN db.data \ DOMAIN db'.data \subseteq keys
      BY <2>2, FewerValues DEF Sound, Fewer
    <3>2. pc'[t] # pc[t]
      BY <1>2, <2>2, GotoEnds DEF Sound, Ends, AfterPurge
    <3>3. t \in overtaken \/ KnowsClients(t)
      BY DEF ValuesOK, PurgesKnowClients
    <3> QED
      BY <1>2, <3>1, <3>2, <3>3 DEF SparesWanted, Allowed
  <2> QED
    BY <1>2, <2>1, <2>2 DEF Execute
<1>3. CASE DeleteData(t)
  <2>1. pc[t] = "deleteData" /\ Outdated(m) \subseteq RowsOf(m)
    BY <1>3 DEF DeleteData, Outdated
  <2>2. ASSUME NEW r \in Outdated(m), KnowsClients(t)
        PROVE  ~Wanted(r)
    BY <2>1, <2>2 DEF KnowsClients, Wanted, RowsOf
  <2> QED
    BY <1>2, <1>3, <2>1, <2>2 DEF DeleteData
<1>4. CASE ShrinkData(t)
  <2>1. pc[t] = "shrink" /\ Expired(m, frame[t].days) \subseteq RowsOf(m) /\ frame[t] \in Frame /\ Tables(db)
    BY <1>4 DEF ShrinkData, Expired, Sound, TypeOK
  <2>2. ASSUME NEW r \in Expired(m, frame[t].days), KnowsClients(t)
        PROVE  ~Wanted(r)
    <3> SUFFICES ASSUME NEW c \in ClientsOf(m), db.client[c].days >= db.data[r].age
                 PROVE  FALSE
      BY <2>1 DEF Wanted, RowsOf
    <3>1. db.client[c].days =< frame[t].days /\ db.data[r].age > frame[t].days
      BY <2>1, <2>2 DEF KnowsClients, Expired
    <3>2. db.client[c].days \in Int /\ frame[t].days \in Int /\ db.data[r].age \in Int
      BY <2>1, TablesAssumption
      DEF Tables, Table, ClientsOf, ClientRow, Days, Frame, Expired, RowsOf, DataRow, Ages
    <3> QED
      BY <3>1, <3>2
  <2> QED
    BY <1>2, <1>4, <2>1, <2>2 DEF ShrinkData
<1> QED
  BY <1>1, <1>3, <1>4 DEF Purge

LEMMA StepSparesWanted ==
    ASSUME Sound, ValuesOK, Step
    PROVE  SparesWanted
<1>1. Spares => SparesWanted
  BY DEF Spares, SparesWanted
<1>2. Tables(db) /\ TypeOK /\ Working
  BY DEF Sound, ValuesOK, TypeOK
<1>3. \A t : Quiet(t) => Spares
  BY DEF Quiet, Spares
<1>4. db'.data = db.data => Spares
  BY DEF Spares
<1>5. \A x : db' = [db EXCEPT !.client = x] \/ db' = [db EXCEPT !.measure = x] \/ db' = db => Spares
  BY <1>2, <1>4, Fields DEF Tables
<1>6. \A m, r : r \in Rows \cup {None} /\ db' = WithLast(m, r) => Spares
  BY <1>4, LastSet
<1>7. ASSUME NEW t \in ClientThreads, ClientCall(t)
      PROVE  SparesWanted
  <2>1. t \in Threads \ {Reader}
    BY MeasureThreads
  <2>2. CASE (\E m \in Measures, days \in Days : FindClient(t, m, days)) \/ UpdateClient(t) \/ InsertClient(t)
    BY <1>1, <1>3, <2>1, <2>2, QuietClientCalls
  <2>3. CASE \E m \in Measures : RemoveClient(t, m)
    BY <1>1, <1>5, <2>3 DEF RemoveClient
  <2> QED
    BY <1>7, <2>1, <2>2, <2>3, PurgeSparesWanted DEF ClientCall
<1>8. CASE Telegram
  <2>1. Reader \in Threads /\ frame[Reader].row \in Rows \cup {None}
    BY <1>2, MeasureThreads DEF TypeOK, Frame
  <2>2. CASE \E a \in Addresses : ReceiveTelegram(a)
    BY <1>1, <1>5, <2>2 DEF ReceiveTelegram
  <2>3. CASE AddStorage
    <3>1. PICK key, row : db' = [db EXCEPT !.data = Insert(db.data, key, row)] \/ db' = db
      BY <1>2, <2>3 DEF AddStorage, Execute, Tables
    <3>2. DOMAIN db.data \subseteq DOMAIN Insert(db.data, key, row)
      BY DEF Insert
    <3> QED
      BY <1>1, <1>2, <3>1, <3>2, Fields DEF Tables, Spares
  <2>4. CASE SetLastMeasureData
    BY <1>1, <1>5, <1>6, <2>1, <2>4 DEF SetLastMeasureData, Execute
  <2> QED
    BY <1>8, <2>1, <2>2, <2>3, <2>4, PurgeSparesWanted DEF Telegram
<1>9. CASE Midnight
  BY <1>1, <1>2, <1>9, FewerMidnight DEF Spares, Fewer
<1>10. ASSUME NEW t \in AdminThreads, AdminCall(t)
       PROVE  SparesWanted
  <2>1. t \in Threads \ {Reader}
    BY AdminAssumption, ReaderAssumption
  <2>2. CASE \/ \E g \in Groups : AddGroup(t, g) \/ DeleteGroup(t, g)
             \/ \E g \in Groups, s \in Sensors : AddSensorToGroup(t, g, s) \/ DeleteSensor(t, g, s)
             \/ LinkNewSensor(t) \/ NextSensor(t) \/ DeleteGroupRow(t)
    BY <1>1, <1>2, <1>3, <2>1, <2>2, QuietGroupCalls
  <2>3. CASE \/ \E a \in Addresses, g \in Groups, l \in Locations, shortcuts \in SUBSET Shortcuts :
                  AddSensor(t, a, g, l, shortcuts)
             \/ \E s \in Sensors, a \in Addresses, l \in Locations, shortcuts \in SUBSET Shortcuts :
                UpdateSensor(t, s, a, l, shortcuts)
             \/ \E l \in Locations : DeleteLocation(t, l)
             \/ CountGroups(t) \/ ReadLocation(t) \/ DeleteSensorRow(t) \/ CompareMeasures(t)
             \/ CountSensors(t) \/ CountChildren(t) \/ DeleteLocationRow(t)
    BY <1>1, <1>2, <1>3, <2>1, <2>3, QuietSensorCalls
  <2>4. CASE InsertMeasure(t) \/ ListMeasures(t) \/ RemoveMeasure(t) \/ DeleteClients(t) \/ FindObsolete(t)
    BY <1>1, <1>5, <2>4 DEF InsertMeasure, Execute, ListMeasures, RemoveMeasure, DeleteClients, FindObsolete
  <2>5. CASE ClearLast(t) \/ DeleteMeasure(t) \/ GiveUp(t)
    BY <1>1, <1>5, <1>6, <2>5 DEF ClearLast, DeleteMeasure, Execute, GiveUp
  <2>6. CASE DeleteRows(t)
    <3>1. CASE db' = db
      BY <1>1, <1>5, <3>1
    <3>2. CASE Goto(t, "deleteMeasure", frame[t])
      BY <1>2, <2>1, <2>6, <3>2, GotoEnds DEF Ends, DeleteRows, SparesWanted, Allowed
    <3> QED
      BY <2>6, <3>1, <3>2 DEF DeleteRows, Execute
  <2> QED
    BY <1>10, <2>2, <2>3, <2>4, <2>5, <2>6 DEF AdminCall
<1>11. ASSUME NEW t \in LocationThreads, LocationCall(t)
       PROVE  SparesWanted
  <2>1. t \in Threads \ {Reader}
    BY LocationAssumption, ReaderAssumption
  <2> QED
    BY <1>1, <1>2, <1>3, <1>5, <1>11, <2>1, QuietLocationCalls DEF GiveUp
<1> QED
  BY <1>7, <1>8, <1>9, <1>10, <1>11 DEF Step

\* A value that a client still asks for is deleted only by a purge that a registration has overtaken
\* between its look at the clients and its deletion, or with its measure (deleteDataMeasure).
THEOREM WantedValuesKept == Spec => KeptForClients
<1>1. ASSUME Sound, ValuesOK, [Next]_<<vars, history>>
      PROVE  [\A r \in DOMAIN db.data \ DOMAIN db'.data :
                (\E c \in ClientsOf(db.data[r].measure) : db.client[c].days >= db.data[r].age)
                => \E t \in Threads : \/ t \in overtaken /\ pc[t] # pc'[t]
                                      \/ pc[t] = "deleteRows" /\ pc'[t] = "deleteMeasure"]_vars
  <2>1. CASE Next
    <3>1. SparesWanted
      BY <1>1, <2>1, StepSparesWanted DEF Next, Step
    <3> QED
      BY <3>1 DEF SparesWanted, Wanted, Allowed
  <2> QED
    BY <1>1, <2>1
<1> QED
  BY <1>1, ValuesAlways, PTL DEF Spec, KeptForClients

-----------------------------------------------------------------------------
(* Sensors without a group. *)

\* Thread t is going to link sensor s to a group, to remove it, or to give up a call on it.
Chain == {"countGroups", "listMeasures", "removeMeasure", "clearLast", "deleteRows", "deleteMeasure", "deleteSensor"}
UngroupedDue(t, s) ==
    /\ frame[t].sensor = s
    /\ \/ pc[t] \in {"insertLink", "failed"}
       \/ pc[t] \in Chain /\ frame[t].op \in {"deleteSensor", "deleteGroup"}

Grouped ==
    \A s \in DOMAIN db.sensor : GroupsOf(s) = {} => s \in broken \/ \E t \in AdminThreads : UngroupedDue(t, s)

\* Thread t makes the step; no other one turns away from a sensor.
LEMMA OthersGroup ==
    ASSUME Sound', Grouped, Record, NEW t \in Threads, Acts(t),
           \A s \in DOMAIN db'.sensor :
                \/ GroupsOf(s)' # {} \/ (t \in AdminThreads /\ UngroupedDue(t, s)')
                \/ /\ s \in DOMAIN db.sensor /\ GroupsOf(s) = {}
                   /\ t \in AdminThreads /\ UngroupedDue(t, s) => s \in broken'
    PROVE  Grouped'
<1> SUFFICES ASSUME NEW s \in DOMAIN db'.sensor, GroupsOf(s)' = {}, s \notin broken'
             PROVE  \E u \in AdminThreads : UngroupedDue(u, s)'
  BY DEF Grouped
<1>1. CASE t \in AdminThreads /\ UngroupedDue(t, s)'
  BY <1>1
<1>2. CASE s \in DOMAIN db.sensor /\ GroupsOf(s) = {} /\ (t \in AdminThreads /\ UngroupedDue(t, s) => s \in broken')
  <2>1. s \notin broken
    BY BrokenStay
  <2>2. PICK u \in AdminThreads : UngroupedDue(u, s)
    BY <1>2, <2>1 DEF Grouped
  <2>3. u \in Threads \ {t}
    BY <1>2, <2>2, AdminAssumption
  <2> QED
    BY <2>2, <2>3 DEF UngroupedDue, Acts
<1> QED
  BY <1>1, <1>2

\* A statement that takes no sensor out of a group and adds none.
LinksKept(d) ==
    db.group \subseteq d.group /\ db.groupSensor \subseteq d.groupSensor /\ DOMAIN d.sensor \subseteq DOMAIN db.sensor

LEMMA LinksStay ==
    ASSUME Tables(db), NEW x
    PROVE  /\ LinksKept([db EXCEPT !.client = x]) /\ LinksKept([db EXCEPT !.measure = x])
           /\ LinksKept([db EXCEPT !.data = x]) /\ LinksKept([db EXCEPT !.location = x]) /\ LinksKept(db)
           /\ DOMAIN x \subseteq DOMAIN db.sensor => LinksKept([db EXCEPT !.sensor = x])
           /\ db.group \subseteq x => LinksKept([db EXCEPT !.group = x])
           /\ db.groupSensor \subseteq x => LinksKept([db EXCEPT !.groupSensor = x])
BY DEF LinksKept, Tables

\* What such a step leaves to do.
DueOn(t) == \A s : UngroupedDue(t, s) => UngroupedDue(t, s)' \/ GroupsOf(s)' # {} \/ s \in broken' \/ s \notin DOMAIN db'.sensor

LEMMA GroupedOn ==
    ASSUME Sound', Grouped, Record, NEW t \in Threads, Acts(t), LinksKept(db'), t \in AdminThreads => DueOn(t)
    PROVE  Grouped'
<1>1. \A s : GroupsOf(s) \subseteq GroupsOf(s)'
  BY DEF GroupsOf, LinksKept
<1> QED
  BY <1>1, OthersGroup DEF LinksKept, DueOn

NotDue == {"idle", "insertClient", "updateClient", "checkClients", "deleteData", "maxDays", "shrink", "insertMeasures",
           "nextSensor", "deleteClients", "compareMeasures", "findObsolete", "countSensors", "countChildren",
           "deleteLocation"} \cup LocationLabels

LEMMA GroupedAside ==
    ASSUME Sound', Grouped, Record, NEW t \in Threads, Acts(t), LinksKept(db'), pc[t] \in NotDue
    PROVE  Grouped'
<1>1. DueOn(t)
  BY DEF DueOn, UngroupedDue, Chain, NotDue, LocationLabels
<1> QED
  BY <1>1, GroupedOn

LEMMA GiveUpGrouped ==
    ASSUME Sound, Sound', Grouped, Record, NEW t \in Threads, GiveUp(t)
    PROVE  Grouped'
<1>1. Ends(t, "idle", NoFrame) /\ pc[t] = "failed" /\ LinksKept(db')
  BY GotoEnds, LinksStay DEF GiveUp, End, Sound, TypeOK
<1>2. t \in AdminThreads => DueOn(t)
  BY <1>1, BrokenStay DEF DueOn, UngroupedDue, Chain
<1> QED
  BY <1>1, <1>2, GroupedOn DEF Ends

LEMMA PurgeGrouped ==
    ASSUME Sound, Sound', Grouped, Record, NEW t \in Threads, Purge(t)
    PROVE  Grouped'
<1>1. Acts(t) /\ Tables(db)
  BY PurgeGoes, Going DEF Sound, TypeOK
<1>2. LinksKept(db') /\ pc[t] \in {"checkClients", "deleteData", "maxDays", "shrink"}
  BY <1>1, LinksStay DEF Purge, CheckClients, DeleteData, SelectMaxDays, ShrinkData, Execute, Without
<1> QED
  BY <1>1, <1>2, GroupedAside DEF NotDue

LEMMA ClientCallGrouped ==
    ASSUME Sound, Sound', Grouped, Record, NEW t \in Threads, ClientCall(t)
    PROVE  Grouped'
<1>1. Acts(t) /\ Tables(db)
  BY ClientCallGoes, Going DEF Sound, TypeOK
<1>2. {"idle", "insertClient", "updateClient"} \subseteq NotDue
  BY DEF NotDue
<1>3. ASSUME NEW m, NEW days, FindClient(t, m, days)
      PROVE  Grouped'
  BY <1>1, <1>2, <1>3, LinksStay, GroupedAside DEF FindClient, Starts
<1>4. CASE UpdateClient(t)
  <2>1. PICK x : db' = [db EXCEPT !.client = x] \/ db' = db
    BY <1>1, <1>4 DEF UpdateClient, Tables
  <2> QED
    BY <1>1, <1>2, <1>4, <2>1, LinksStay, GroupedAside DEF UpdateClient
<1>5. CASE InsertClient(t)
  <2>1. PICK x : db' = [db EXCEPT !.client = x] \/ db' = db
    BY <1>5 DEF InsertClient, Execute
  <2> QED
    BY <1>1, <1>2, <1>5, <2>1, LinksStay, GroupedAside DEF InsertClient
<1>6. ASSUME NEW m, RemoveClient(t, m)
      PROVE  Grouped'
  BY <1>1, <1>2, <1>6, LinksStay, GroupedAside DEF RemoveClient, Starts
<1> QED
  BY <1>3, <1>4, <1>5, <1>6, PurgeGrouped, GiveUpGrouped DEF ClientCall

LEMMA TelegramGrouped ==
    ASSUME Sound, Sound', Grouped, Record, Telegram
    PROVE  Grouped'
<1>1. Reader \in Threads \ AdminThreads
  BY MeasureThreads, ReaderAssumption
<1>2. Acts(Reader) /\ Tables(db)
  BY <1>1, TelegramGoes, Going DEF Sound, TypeOK
<1>3. ASSUME NEW a, ReceiveTelegram(a)
      PROVE  Grouped'
  BY <1>1, <1>2, <1>3, LinksStay, GroupedOn DEF ReceiveTelegram
<1>4. CASE AddStorage
  <2>1. PICK x : db' = [db EXCEPT !.data = x] \/ db' = db
    BY <1>4 DEF AddStorage, Execute
  <2> QED
    BY <1>1, <1>2, <2>1, LinksStay, GroupedOn
<1>5. CASE SetLastMeasureData
  <2>1. PICK x : db' = [db EXCEPT !.measure = x] \/ db' = db
    BY <1>2, <1>5 DEF SetLastMeasureData, WithLast, Execute, Tables
  <2> QED
    BY <1>1, <1>2, <2>1, LinksStay, GroupedOn
<1> QED
  BY <1>1, <1>3, <1>4, <1>5, PurgeGrouped, GiveUpGrouped DEF Telegram

LEMMA MidnightGrouped ==
    ASSUME Sound, Sound', Grouped, Record, Midnight
    PROVE  Grouped'
<1>1. Reader \in Threads \ AdminThreads /\ Acts(Reader) /\ Tables(db)
  BY MeasureThreads, ReaderAssumption DEF Midnight, Acts, Sound, TypeOK
<1>2. PICK x : db' = [db EXCEPT !.data = x]
  BY DEF Midnight
<1> QED
  BY <1>1, <1>2, LinksStay, GroupedOn

LEMMA LocationCallGrouped ==
    ASSUME Sound, Sound', Grouped, Record, NEW t \in Threads, LocationCall(t)
    PROVE  Grouped'
<1>1. Tables(db) /\ Acts(t)
  <2>1. UNCHANGED <<pc, frame>> => Acts(t)
    BY DEF Acts
  <2> QED
    BY <2>1, LocationCallGoes, Going DEF Sound, TypeOK
<1>2. {"idle", "listChildren", "findPath", "readName", "writePath"} \subseteq NotDue
  BY DEF NotDue, LocationLabels
<1>3. ASSUME NEW x, db' = [db EXCEPT !.location = x] \/ db' = db, pc[t] \in NotDue
      PROVE  Grouped'
  BY <1>1, <1>3, LinksStay, GroupedAside
<1>4. ASSUME NEW parent, NEW name, AddLocation(t, parent, name)
      PROVE  Grouped'
  <2>1. PICK x : db' = [db EXCEPT !.location = x] \/ db' = db
    BY <1>4 DEF AddLocation, Execute
  <2> QED
    BY <1>2, <1>3, <1>4, <2>1 DEF AddLocation, Starts
<1>5. ASSUME NEW name, AddRoot(t, name)
      PROVE  Grouped'
  BY <1>2, <1>3, <1>5 DEF AddRoot, Starts
<1>6. ASSUME NEW l, NEW name, UpdateLocation(t, l, name)
      PROVE  Grouped'
  <2>1. PICK x : db' = [db EXCEPT !.location = x]
    BY <1>1, <1>6 DEF UpdateLocation, Tables
  <2> QED
    BY <1>2, <1>3, <1>6, <2>1 DEF UpdateLocation, Starts
<1>7. CASE ListChildren(t) \/ SelectParent(t) \/ ReadName(t)
  BY <1>2, <1>3, <1>7 DEF ListChildren, SelectParent, ReadName
<1>8. CASE WritePath(t)
  <2>1. PICK x : db' = [db EXCEPT !.location = x] \/ db' = db
    BY <1>1, <1>8 DEF WritePath, Tables
  <2> QED
    BY <1>2, <1>3, <1>8, <2>1 DEF WritePath
<1> QED
  BY <1>4, <1>5, <1>6, <1>7, <1>8, GiveUpGrouped DEF LocationCall

\* Thread t takes sensor s out of group g, and is at its removal then.
LEMMA LinkDeleted ==
    ASSUME Sound, Sound', Grouped, Record, NEW t \in AdminThreads, NEW g, NEW s, NEW f, db' = DeleteLink(g, s),
           Goto(t, "countGroups", f), f.sensor = s, f.op \in {"deleteSensor", "deleteGroup"}, pc[t] \in NotDue
    PROVE  Grouped'
<1>1. t \in Threads /\ Tables(db)
  BY AdminAssumption DEF Sound, TypeOK
<1>2. Ends(t, "countGroups", f)
  BY <1>1, GotoEnds DEF Sound
<1>3. db'.group = db.group /\ db'.sensor = db.sensor /\ db'.groupSensor = db.groupSensor \ {<<g, s>>}
  BY <1>1, Fields DEF DeleteLink, Tables
<1>4. UngroupedDue(t, s)'
  BY <1>2 DEF UngroupedDue, Ends, Chain
<1>5. \A x : x # s => GroupsOf(x)' = GroupsOf(x)
  BY <1>3 DEF GroupsOf
<1>6. \A x : ~UngroupedDue(t, x)
  BY DEF UngroupedDue, NotDue, Chain, LocationLabels
<1> QED
  BY <1>1, <1>2, <1>3, <1>4, <1>5, <1>6, OthersGroup DEF Ends

\* A statement on the way to the removal of a sensor.
LEMMA ChainGoesOn ==
    ASSUME Sound, Sound', Grouped, Record, NEW t \in Threads, NEW label, NEW f, Goto(t, label, f), LinksKept(db'),
           f.sensor = frame[t].sensor, f.op = frame[t].op, pc[t] \in Chain \cup {"insertLink"},
           label = "failed" \/ (pc[t] \in Chain /\ (label \in Chain \/ f.op = "updateSensor"))
    PROVE  Grouped'
<1>1. Ends(t, label, f)
  BY GotoEnds DEF Sound
<1>2. DueOn(t)
  BY <1>1 DEF DueOn, UngroupedDue, Ends, Chain
<1> QED
  BY <1>1, <1>2, GroupedOn DEF Ends

LEMMA ChainGrouped ==
    ASSUME Sound, Sound', Grouped, Record, NEW t \in Threads,
           \/ CountGroups(t) \/ ListMeasures(t) \/ RemoveMeasure(t) \/ ClearLast(t) \/ DeleteRows(t)
           \/ DeleteMeasure(t) \/ ReadLocation(t) \/ DeleteSensorRow(t)
    PROVE  Grouped'
<1>1. Tables(db) /\ frame[t] \in Frame
  BY DEF Sound, TypeOK
<1>2. \A label \in {"countGroups", "listMeasures", "removeMeasure", "clearLast", "deleteRows", "deleteMeasure",
                    "deleteSensor"} : label \in Chain
  BY DEF Chain
<1>3. LinksKept(db) /\ \A x : LinksKept([db EXCEPT !.client = x]) /\ LinksKept([db EXCEPT !.data = x])
                              /\ LinksKept([db EXCEPT !.measure = x])
  BY <1>1, LinksStay
<1>4. CASE CountGroups(t)
  <2>1. pc[t] = "countGroups" /\ db' = db
    BY <1>4 DEF CountGroups
  <2>2. CASE Goto(t, "listMeasures", frame[t])
    BY <1>2, <1>3, <2>1, <2>2, ChainGoesOn
  <2>3. CASE GroupsOf(frame[t].sensor) # {} /\ SensorDone(t)
    <3>1. Acts(t)
      BY <2>3, Going DEF Sound
    <3>2. \A s : GroupsOf(s)' = GroupsOf(s)
      BY <2>1 DEF GroupsOf
    <3>3. DueOn(t)
      BY <2>3, <3>2 DEF DueOn, UngroupedDue
    <3> QED
      BY <1>3, <2>1, <3>1, <3>3, GroupedOn
  <2> QED
    BY <1>4, <2>2, <2>3 DEF CountGroups
<1>5. CASE ListMeasures(t)
  <2> DEFINE f == [frame[t] EXCEPT !.measures = MeasuresOf(frame[t].sensor)]
  <2>1. f.sensor = frame[t].sensor /\ f.op = frame[t].op
    BY <1>1 DEF Frame
  <2>2. Goto(t, "removeMeasure", f) /\ pc[t] = "listMeasures" /\ db' = db
    BY <1>5 DEF ListMeasures
  <2> HIDE DEF f
  <2> QED
    BY <1>2, <1>3, <2>1, <2>2, ChainGoesOn
<1>6. CASE RemoveMeasure(t)
  <2>1. PICK m \in frame[t].measures : Goto(t, "clearLast", [frame[t] EXCEPT !.measure = m, !.measures = @ \ {m}])
    BY <1>6 DEF RemoveMeasure
  <2> DEFINE f == [frame[t] EXCEPT !.measure = m, !.measures = @ \ {m}]
  <2>2. f.sensor = frame[t].sensor /\ f.op = frame[t].op
    BY <1>1 DEF Frame
  <2>3. Goto(t, "clearLast", f) /\ pc[t] = "removeMeasure" /\ LinksKept(db')
    BY <1>3, <1>6, <2>1 DEF RemoveMeasure
  <2> HIDE DEF f
  <2> QED
    BY <1>2, <2>2, <2>3, ChainGoesOn
<1>7. CASE ClearLast(t)
  <2>1. PICK x : db' = [db EXCEPT !.measure = x] \/ db' = db
    BY <1>1, <1>7 DEF ClearLast, WithLast, Tables
  <2> QED
    BY <1>2, <1>3, <1>7, <2>1, ChainGoesOn DEF ClearLast
<1>8. CASE DeleteRows(t)
  BY <1>2, <1>3, <1>8, ChainGoesOn DEF DeleteRows, Execute
<1>9. CASE DeleteMeasure(t)
  <2>1. pc[t] = "deleteMeasure" /\ LinksKept(db')
    BY <1>3, <1>9 DEF DeleteMeasure, Execute
  <2>2. \/ Goto(t, "failed", frame[t]) \/ Goto(t, "removeMeasure", frame[t])
        \/ frame[t].op = "updateSensor" /\ Goto(t, "findObsolete", frame[t])
    BY <1>9 DEF DeleteMeasure, Execute
  <2> QED
    BY <1>2, <2>1, <2>2, ChainGoesOn
<1>10. CASE ReadLocation(t)
  <2>1. PICK l : Goto(t, "deleteSensor", [frame[t] EXCEPT !.location = l])
    BY <1>10 DEF ReadLocation
  <2> DEFINE f == [frame[t] EXCEPT !.location = l]
  <2>2. f.sensor = frame[t].sensor /\ f.op = frame[t].op
    BY <1>1 DEF Frame
  <2>3. Goto(t, "deleteSensor", f) /\ pc[t] = "removeMeasure" /\ db' = db
    BY <1>10, <2>1 DEF ReadLocation
  <2> HIDE DEF f
  <2> QED
    BY <1>2, <1>3, <2>2, <2>3, ChainGoesOn
<1>11. CASE DeleteSensorRow(t)
  <2>1. pc[t] = "deleteSensor"
    BY <1>11 DEF DeleteSensorRow
  <2>2. CASE db' = db /\ Goto(t, "failed", frame[t])
    BY <1>2, <1>3, <2>1, <2>2, ChainGoesOn
  <2>3. CASE db' = [db EXCEPT !.sensor = Delete(@, {frame[t].sensor})] /\ Goto(t, "countSensors", frame[t])
    <3>1. db'.sensor = Delete(db.sensor, {frame[t].sensor}) /\ db'.group = db.group /\ db'.groupSensor = db.groupSensor
      BY <1>1, <2>3 DEF Tables
    <3>2. DOMAIN db'.sensor = DOMAIN db.sensor \ {frame[t].sensor}
      BY <3>1 DEF Delete
    <3>3. Acts(t)
      BY <2>3, GotoEnds DEF Sound, Ends
    <3>4. LinksKept(db') /\ DueOn(t)
      BY <3>1, <3>2 DEF LinksKept, DueOn, UngroupedDue
    <3> QED
      BY <3>3, <3>4, GroupedOn
  <2> QED
    BY <1>11, <2>2, <2>3 DEF DeleteSensorRow, Execute
<1> QED
  BY <1>4, <1>5, <1>6, <1>7, <1>8, <1>9, <1>10, <1>11

\* A link that is not refused: the sensor is in a group then.
LEMMA InsertLinkGrouped ==
    ASSUME Sound, Sound', Grouped, Record, NEW t \in Threads, Acts(t), NEW g, NEW s, NEW label, NEW f,
           InsertLink(t, g, s, label, f), pc[t] \in NotDue \/ (pc[t] = "insertLink" /\ frame[t].sensor = s)
    PROVE  Grouped'
<1>1. Tables(db)
  BY DEF Sound, TypeOK
<1>2. LinksKept(db) /\ LinksKept([db EXCEPT !.groupSensor = @ \cup {<<g, s>>}])
  BY <1>1, LinksStay
<1>3. CASE pc[t] \in NotDue
  BY <1>2, <1>3, GroupedAside DEF InsertLink, Execute
<1>4. CASE pc[t] = "insertLink" /\ frame[t].sensor = s
  <2>1. CASE db' = db /\ Goto(t, "failed", frame[t])
    BY <1>2, <1>4, <2>1, ChainGoesOn
  <2>2. CASE db' = [db EXCEPT !.groupSensor = @ \cup {<<g, s>>}]
    <3>1. <<g, s>> \in db'.groupSensor
      BY <1>1, <2>2 DEF Tables
    <3>2. GroupsOf(s)' # {}
      BY <3>1 DEF GroupsOf, Sound, Consistent
    <3>3. DueOn(t)
      BY <1>4, <3>2 DEF DueOn, UngroupedDue
    <3> QED
      BY <1>2, <2>2, <3>3, GroupedOn
  <2> QED
    BY <2>1, <2>2 DEF InsertLink, Execute
<1> QED
  BY <1>3, <1>4

LEMMA AdminCallGrouped ==
    ASSUME Sound, Sound', Grouped, Working, Record, NEW t \in AdminThreads, AdminCall(t)
    PROVE  Grouped'
<1>1. t \in Threads /\ Tables(db) /\ frame[t] \in Frame
  BY AdminAssumption DEF Sound, TypeOK
<1>2. Acts(t)
  <2>1. UNCHANGED <<pc, frame>> => Acts(t)
    BY DEF Acts
  <2> QED
    BY <1>1, <2>1, AdminCallGoes, Going DEF Sound
<1>3. {"idle", "nextSensor", "insertMeasures", "deleteClients", "compareMeasures", "findObsolete", "countSensors",
       "countChildren", "deleteLocation"} \subseteq NotDue
  BY DEF NotDue
<1>4. ASSUME LinksKept(db'), pc[t] \in NotDue
      PROVE  Grouped'
  BY <1>1, <1>2, <1>4, GroupedAside
<1>5. ASSUME NEW g, AddGroup(t, g) \/ DeleteGroup(t, g)
      PROVE  Grouped'
  BY <1>1, <1>3, <1>4, <1>5, LinksStay DEF AddGroup, DeleteGroup, Starts
<1>6. ASSUME NEW a, NEW g, NEW l, NEW shortcuts, AddSensor(t, a, g, l, shortcuts)
      PROVE  Grouped'
  <2>0. PICK key : key = NewKey(FreshKeys(Sensors, db.sensor, HeldSensors))
    OBVIOUS
  <2> DEFINE row == [address |-> a, location |-> l]
             f == [Begin(t, "addSensor", g, key) EXCEPT !.shortcuts = shortcuts]
             result == [db EXCEPT !.sensor = Insert(db.sensor, key, row)]
  <2>1. pc[t] = "idle"
    BY <1>6 DEF AddSensor, Starts
  <2>2. (db' = result /\ Goto(t, "insertLink", f)) \/ db' = db
    BY <1>1, <1>6, <2>0 DEF AddSensor, Execute, Tables
  <2>3. f.sensor = key
    BY DEF Begin, NoFrame
  <2>4. result.group = db.group /\ result.groupSensor = db.groupSensor /\ result.sensor = Insert(db.sensor, key, row)
    BY <1>1, Fields DEF Tables
  <2> HIDE DEF row, f, result
  <2>5. CASE db' = db
    BY <1>1, <1>3, <1>4, <2>1, <2>5, LinksStay
  <2>6. CASE db' = result /\ Goto(t, "insertLink", f)
    <3>1. Ends(t, "insertLink", f)
      BY <1>1, <2>6, GotoEnds DEF Sound
    <3>2. UngroupedDue(t, key)'
      BY <2>3, <3>1 DEF UngroupedDue, Ends
    <3>3. DOMAIN db'.sensor = DOMAIN db.sensor \cup {key} /\ \A s : GroupsOf(s)' = GroupsOf(s)
      BY <2>4, <2>6 DEF Insert, GroupsOf
    <3>4. \A s : ~UngroupedDue(t, s)
      BY <2>1 DEF UngroupedDue, Chain
    <3> QED
      BY <1>1, <1>2, <3>2, <3>3, <3>4, OthersGroup
  <2> QED
    BY <2>2, <2>5, <2>6
<1>7. ASSUME NEW g, NEW s, AddSensorToGroup(t, g, s)
      PROVE  Grouped'
  BY <1>1, <1>2, <1>3, <1>7, InsertLinkGrouped DEF AddSensorToGroup, Starts
<1>8. ASSUME NEW g, NEW s, DeleteSensor(t, g, s)
      PROVE  Grouped'
  <2>1. Begin(t, "deleteSensor", g, s).sensor = s /\ Begin(t, "deleteSensor", g, s).op = "deleteSensor"
    BY DEF Begin, NoFrame
  <2> QED
    BY <1>3, <1>8, <2>1, LinkDeleted DEF DeleteSensor, Starts
<1>9. CASE NextSensor(t)
  <2>1. PICK s \in frame[t].sensors :
            /\ db' = DeleteLink(frame[t].group, s)
            /\ Goto(t, "countGroups", [frame[t] EXCEPT !.sensor = s, !.sensors = @ \ {s}, !.location = None])
    BY <1>9 DEF NextSensor
  <2> DEFINE f == [frame[t] EXCEPT !.sensor = s, !.sensors = @ \ {s}, !.location = None]
  <2>2. pc[t] = "nextSensor" /\ frame[t].op = "deleteGroup"
    BY <1>1, <1>9 DEF NextSensor, Working, Works
  <2>3. f.sensor = s /\ f.op = "deleteGroup"
    BY <1>1, <2>2 DEF Frame
  <2> HIDE DEF f
  <2> QED
    BY <1>3, <2>1, <2>2, <2>3, LinkDeleted DEF f
<1>10. CASE DeleteGroupRow(t)
  <2>1. pc[t] = "nextSensor"
    BY <1>10 DEF DeleteGroupRow
  <2>2. CASE db' = db
    BY <1>1, <1>3, <1>4, <2>1, <2>2, LinksStay
  <2>3. CASE db' = [db EXCEPT !.group = @ \ {frame[t].group}]
    <3>1. db'.group = db.group \ {frame[t].group} /\ db'.groupSensor = db.groupSensor /\ db'.sensor = db.sensor
      BY <1>1, <2>3, Fields DEF Tables
    <3>2. \A s : GroupsOf(s)' = GroupsOf(s)
      BY <3>1 DEF GroupsOf, Sound, Consistent
    <3>3. \A s : ~UngroupedDue(t, s)
      BY <2>1 DEF UngroupedDue, Chain
    <3> QED
      BY <1>1, <1>2, <3>1, <3>2, <3>3, OthersGroup
  <2> QED
    BY <1>10, <2>2, <2>3 DEF DeleteGroupRow, Execute
<1>11. ASSUME NEW s, NEW a, NEW l, NEW shortcuts, UpdateSensor(t, s, a, l, shortcuts)
       PROVE  Grouped'
  <2>1. PICK x : (DOMAIN x = DOMAIN db.sensor /\ db' = [db EXCEPT !.sensor = x]) \/ db' = db
    BY <1>1, <1>11 DEF UpdateSensor, Execute, Tables
  <2> QED
    BY <1>1, <1>3, <1>4, <1>11, <2>1, LinksStay DEF UpdateSensor, Starts
<1>12. ASSUME NEW l, DeleteLocation(t, l)
       PROVE  Grouped'
  BY <1>1, <1>3, <1>4, <1>12, LinksStay DEF DeleteLocation, Starts
<1>13. CASE LinkNewSensor(t)
  BY <1>1, <1>2, <1>13, InsertLinkGrouped DEF LinkNewSensor
<1>14. CASE InsertMeasure(t)
  <2>1. PICK x : db' = [db EXCEPT !.measure = x] \/ db' = db
    BY <1>14 DEF InsertMeasure, Execute
  <2> QED
    BY <1>1, <1>3, <1>4, <1>14, <2>1, LinksStay DEF InsertMeasure
<1>15. CASE DeleteClients(t) \/ CompareMeasures(t) \/ FindObsolete(t) \/ CountSensors(t) \/ CountChildren(t)
  BY <1>1, <1>3, <1>4, <1>15, LinksStay DEF DeleteClients, CompareMeasures, FindObsolete, CountSensors, CountChildren
<1>16. CASE DeleteLocationRow(t)
  <2>1. PICK x : db' = [db EXCEPT !.location = x] \/ db' = db
    BY <1>16 DEF DeleteLocationRow
  <2> QED
    BY <1>1, <1>3, <1>4, <1>16, <2>1, LinksStay DEF DeleteLocationRow
<1> QED
  BY <1>1, <1>5, <1>6, <1>7, <1>8, <1>9, <1>10, <1>11, <1>12, <1>13, <1>14, <1>15, <1>16, ChainGrouped, GiveUpGrouped
  DEF AdminCall

LEMMA GroupedStep ==
    ASSUME Sound, ValuesOK, Grouped, [Next]_<<vars, history>>
    PROVE  Grouped'
<1>1. Sound' /\ Working
  BY SoundStep DEF ValuesOK
<1>2. CASE Next
  BY <1>1, <1>2, MeasureThreads, LocationAssumption, ClientCallGrouped, TelegramGrouped, MidnightGrouped,
     AdminCallGrouped, LocationCallGrouped DEF Next
<1>3. CASE UNCHANGED <<vars, history>>
  BY <1>3 DEF vars, history, Grouped, GroupsOf, UngroupedDue
<1> QED
  BY <1>2, <1>3

\* A sensor that no group shows is being removed or added, or a call on it has failed half-way: none
\* is forgotten otherwise, whatever groups are deleted meanwhile (deleteSensor, deleteGroup).
THEOREM UngroupedFailed == Spec => []UngroupedOnlyBroken
<1>1. Init => Grouped
  BY ScenariosAssumption DEF Init, Settled, Grouped, GroupsOf
<1>2. ASSUME Sound /\ ValuesOK, Grouped, [Next]_<<vars, history>>
      PROVE  Grouped'
  BY <1>2, GroupedStep
<1>3. Grouped => UngroupedOnlyBroken
  BY DEF Grouped, UngroupedOnlyBroken, UngroupedDue
<1> QED
  BY <1>1, <1>2, <1>3, ValuesAlways, PTL DEF Spec

-----------------------------------------------------------------------------
(* The paths of locations.  T is the content of the table of locations. *)

Tree(T) == Table(T, Locations, LocationRow) /\ \A l \in DOMAIN T : T[l].parent \in {None} \cup DOMAIN T

\* A set of rows that contains the parents of its rows.
UpClosed(T, V) == V \subseteq DOMAIN T /\ \A l \in V : T[l].parent \in V \cup {None}

\* The names from l to the root, if G has those from the parent of l.
Named(T, G, l) == IF l = None THEN <<>> ELSE <<T[l].name>> \o G[l]

\* G has the paths of the rows of U.
PathsUpTo(T, U, G) ==
    UpClosed(T, U) /\ \A l \in U : G[l] \in Seq(Names) /\ G[l] = Named(T, G, T[l].parent)

Stored(T) == [l \in DOMAIN T |-> IF T[l].parent = None THEN <<>> ELSE T[l].path]

LEMMA TreeOfLocations == ASSUME NEW d, Tables(d), Consistent(d) PROVE Tree(d.location)
BY DEF Tables, Consistent, Tree

LEMMA RowType ==
    ASSUME NEW T, Tree(T), NEW l \in DOMAIN T
    PROVE  /\ l \in Locations /\ l # None /\ T[l] \in LocationRow /\ T[l].name \in Names
           /\ T[l].parent \in {None} \cup DOMAIN T /\ T[l].path \in Seq(Names) \cup {None}
<1>1. l \in Locations /\ T[l] \in LocationRow
  BY DEF Tree, Table
<1> QED
  BY <1>1, TablesAssumption DEF Tree, LocationRow

LEMMA NamedType ==
    ASSUME NEW T, Tree(T), NEW U, NEW G, PathsUpTo(T, U, G), NEW l \in U \cup {None}
    PROVE  Named(T, G, l) \in Seq(Names)
<1>1. CASE l = None
  BY <1>1, EmptySeq DEF Named
<1>2. CASE l # None
  <2>1. G[l] \in Seq(Names) /\ T[l].name \in Names
    BY <1>2, RowType DEF PathsUpTo, UpClosed
  <2>2. <<T[l].name>> \in Seq(Names)
    BY <2>1
  <2>3. <<T[l].name>> \o G[l] \in Seq(Names)
    BY <2>1, <2>2, ConcatProperties
  <2> QED
    BY <1>2, <2>3 DEF Named
<1> QED
  BY <1>1, <1>2

\* The stored paths are those of the tree, as far as they are current.
LEMMA StoredCurrent ==
    ASSUME NEW T, Tree(T), NEW l \in DOMAIN T
    PROVE  PathCurrent(T, l) <=> Stored(T)[l] = Named(T, Stored(T), T[l].parent)
<1>1. T[l].parent \in {None} \cup DOMAIN T
  BY DEF Tree
<1>2. CASE T[l].parent = None
  BY <1>2 DEF PathCurrent, Stored, Named
<1>3. CASE T[l].parent \in DOMAIN T
  <2>1. T[l].parent # None
    BY <1>3, RowType
  <2> QED
    BY <1>3, <2>1 DEF PathCurrent, Stored, Named
<1> QED
  BY <1>1, <1>2, <1>3

LEMMA StoredPaths ==
    ASSUME NEW T, Tree(T), PathsOf(T), \A l \in DOMAIN T : T[l].parent # None => T[l].path # None
    PROVE  PathsUpTo(T, DOMAIN T, Stored(T))
<1>1. UpClosed(T, DOMAIN T)
  BY DEF UpClosed, Tree
<1>2. ASSUME NEW l \in DOMAIN T
      PROVE  Stored(T)[l] \in Seq(Names) /\ Stored(T)[l] = Named(T, Stored(T), T[l].parent)
  BY EmptySeq, RowType, StoredCurrent DEF PathsOf, Stored
<1> QED
  BY <1>1, <1>2 DEF PathsUpTo

-----------------------------------------------------------------------------
(* The walk to the root. *)

\* Whoever goes up from h comes to l.
Leads(T, h, l) == \A V : UpClosed(T, V) /\ T[h].parent \in V \cup {None} => l \in V \cup {None}

\* What a thread has read of the path of the row in work, and has yet to read.
Walk(T, G, label, f) ==
    LET h == Head(f.pending)
    IN  h \in DOMAIN T =>
            /\ label = "readName" =>
                    /\ Leads(T, h, f.location)
                    /\ f.path \o Named(T, G, f.location) = Named(T, G, T[h].parent)
            /\ label = "writePath" => f.path = Named(T, G, T[h].parent)

\* The names to come begin with the next one.
LEMMA NextName ==
    ASSUME NEW path \in Seq(Names), NEW name \in Names, NEW rest \in Seq(Names)
    PROVE  path \o (<<name>> \o rest) = Append(path, name) \o rest
<1>1. <<name>> \in Seq(Names)
  OBVIOUS
<1>2. path \o (<<name>> \o rest) = (path \o <<name>>) \o rest
  BY <1>1, ConcatAssociative
<1>3. Append(path, name) = path \o <<name>>
  OBVIOUS
<1> QED
  BY <1>2, <1>3

LEMMA WalkBegins ==
    ASSUME NEW T, Tree(T), NEW U, NEW G, PathsUpTo(T, U, G), NEW f,
           Head(f.pending) \in DOMAIN T =>
                /\ T[Head(f.pending)].parent \in U \cup {None}
                /\ f.location = T[Head(f.pending)].parent /\ f.path = <<>>
    PROVE  Walk(T, G, "readName", f)
<1> DEFINE h == Head(f.pending)
<1> SUFFICES ASSUME h \in DOMAIN T
             PROVE  Leads(T, h, f.location) /\ f.path \o Named(T, G, f.location) = Named(T, G, T[h].parent)
  BY DEF Walk
<1>1. Named(T, G, T[h].parent) \in Seq(Names)
  BY NamedType
<1>2. <<>> \o Named(T, G, T[h].parent) = Named(T, G, T[h].parent)
  BY <1>1, ConcatEmptySeq
<1> QED
  BY <1>2 DEF Leads

LEMMA WalkGoesOn ==
    ASSUME NEW T, Tree(T), NEW U, NEW G, PathsUpTo(T, U, G), NEW f, f.path \in Seq(Names),
           Head(f.pending) \in DOMAIN T => T[Head(f.pending)].parent \in U \cup {None},
           Walk(T, G, "readName", f), f.location \in DOMAIN T,
           NEW g, g.pending = f.pending, g.location = T[f.location].parent,
           g.path = Append(f.path, T[f.location].name)
    PROVE  Walk(T, G, "readName", g)
<1> DEFINE h == Head(f.pending)
<1> SUFFICES ASSUME h \in DOMAIN T
             PROVE  Leads(T, h, g.location) /\ g.path \o Named(T, G, g.location) = Named(T, G, T[h].parent)
  BY DEF Walk
<1>1. Leads(T, h, f.location) /\ f.path \o Named(T, G, f.location) = Named(T, G, T[h].parent)
  BY DEF Walk
<1>2. f.location # None /\ T[f.location].name \in Names
  BY RowType
<1>3. f.location \in U
  BY <1>1, <1>2 DEF Leads, PathsUpTo
<1>4. Leads(T, h, g.location)
  BY <1>1, <1>2 DEF Leads, UpClosed
<1>5. Named(T, G, f.location) = <<T[f.location].name>> \o G[f.location]
  BY <1>2 DEF Named
<1>6. G[f.location] = Named(T, G, g.location) /\ G[f.location] \in Seq(Names)
  BY <1>3 DEF PathsUpTo
<1>7. f.path \o (<<T[f.location].name>> \o G[f.location]) = Append(f.path, T[f.location].name) \o G[f.location]
  BY <1>2, <1>6, NextName
<1> QED
  BY <1>1, <1>4, <1>5, <1>6, <1>7

\* At the root the path is complete.
LEMMA WalkEnds ==
    ASSUME NEW T, Tree(T), NEW U, NEW G, PathsUpTo(T, U, G), NEW f, f.path \in Seq(Names),
           Walk(T, G, "readName", f), f.location \notin DOMAIN T
    PROVE  Walk(T, G, "writePath", f)
<1> DEFINE h == Head(f.pending)
<1> SUFFICES ASSUME h \in DOMAIN T
             PROVE  f.path = Named(T, G, T[h].parent)
  BY DEF Walk
<1>1. Leads(T, h, f.location) /\ f.path \o Named(T, G, f.location) = Named(T, G, T[h].parent)
  BY DEF Walk
<1>2. UpClosed(T, DOMAIN T) /\ T[h].parent \in DOMAIN T \cup {None}
  BY DEF UpClosed, Tree
<1>3. f.location = None
  BY <1>1, <1>2 DEF Leads
<1>4. f.path \o <<>> = f.path
  BY ConcatEmptySeq
<1> QED
  BY <1>1, <1>3, <1>4 DEF Named

-----------------------------------------------------------------------------
(* Insertions and deletions, which leave the other rows as they are. *)

SameRows(T, T2) == Tree(T) /\ Tree(T2) /\ \A l \in DOMAIN T \cap DOMAIN T2 : T2[l] = T[l]

LEMMA SameParents ==
    ASSUME NEW T, NEW T2, SameRows(T, T2), NEW l \in DOMAIN T \cap DOMAIN T2
    PROVE  T2[l].parent = T[l].parent /\ T[l].parent \in {None} \cup (DOMAIN T \cap DOMAIN T2)
BY DEF SameRows, Tree

LEMMA SameClosed ==
    ASSUME NEW T, NEW T2, SameRows(T, T2)
    PROVE  /\ \A V : UpClosed(T, V) => UpClosed(T2, V \cap DOMAIN T2)
           /\ \A V : UpClosed(T2, V) => UpClosed(T, V \cap DOMAIN T)
BY SameParents DEF UpClosed

\* G and H have the same paths of the rows that stay.
Agree(T, T2, G, H) == \A l \in DOMAIN T \cap DOMAIN T2 : H[l] = G[l]

LEMMA SameNamed ==
    ASSUME NEW T, NEW T2, SameRows(T, T2), NEW G, NEW H, Agree(T, T2, G, H),
           NEW l \in {None} \cup (DOMAIN T \cap DOMAIN T2)
    PROVE  Named(T2, H, l) = Named(T, G, l)
BY DEF SameRows, Agree, Named

LEMMA SamePaths ==
    ASSUME NEW T, NEW T2, SameRows(T, T2), NEW G, NEW H, Agree(T, T2, G, H), NEW U, PathsUpTo(T, U, G)
    PROVE  PathsUpTo(T2, U \cap DOMAIN T2, H)
<1>1. UpClosed(T2, U \cap DOMAIN T2)
  BY SameClosed DEF PathsUpTo
<1>2. ASSUME NEW l \in U \cap DOMAIN T2
      PROVE  H[l] \in Seq(Names) /\ H[l] = Named(T2, H, T2[l].parent)
  <2>1. l \in DOMAIN T \cap DOMAIN T2 /\ G[l] \in Seq(Names) /\ G[l] = Named(T, G, T[l].parent)
    BY DEF PathsUpTo, UpClosed
  <2>2. T2[l].parent = T[l].parent /\ T[l].parent \in {None} \cup (DOMAIN T \cap DOMAIN T2)
    BY <2>1, SameParents
  <2>3. Named(T2, H, T2[l].parent) = Named(T, G, T[l].parent)
    BY <2>2, SameNamed
  <2> QED
    BY <2>1, <2>3 DEF Agree
<1> QED
  BY <1>1, <1>2 DEF PathsUpTo

LEMMA SameLeads ==
    ASSUME NEW T, NEW T2, SameRows(T, T2), NEW h \in DOMAIN T \cap DOMAIN T2, NEW l, Leads(T, h, l)
    PROVE  Leads(T2, h, l) /\ l \in {None} \cup (DOMAIN T \cap DOMAIN T2)
<1>1. T2[h].parent = T[h].parent /\ T[h].parent \in {None} \cup (DOMAIN T \cap DOMAIN T2)
  BY SameParents
<1>2. ASSUME NEW V, UpClosed(T2, V), T2[h].parent \in V \cup {None}
      PROVE  l \in (V \cap DOMAIN T) \cup {None}
  <2>1. UpClosed(T, V \cap DOMAIN T) /\ T[h].parent \in (V \cap DOMAIN T) \cup {None}
    BY <1>1, <1>2, SameClosed
  <2> QED
    BY <2>1 DEF Leads
<1>3. UpClosed(T2, DOMAIN T2) /\ T2[h].parent \in DOMAIN T2 \cup {None}
  BY DEF SameRows, Tree, UpClosed
<1> QED
  BY <1>2, <1>3 DEF Leads

LEMMA SameWalk ==
    ASSUME NEW T, NEW T2, SameRows(T, T2), NEW G, NEW H, Agree(T, T2, G, H), NEW label, NEW f,
           Head(f.pending) \in DOMAIN T2 => Head(f.pending) \in DOMAIN T,
           Walk(T, G, label, f)
    PROVE  Walk(T2, H, label, f)
<1> DEFINE h == Head(f.pending)
<1> SUFFICES ASSUME h \in DOMAIN T2
             PROVE  /\ label = "readName" => /\ Leads(T2, h, f.location)
                                             /\ f.path \o Named(T2, H, f.location) = Named(T2, H, T2[h].parent)
                    /\ label = "writePath" => f.path = Named(T2, H, T2[h].parent)
  BY DEF Walk
<1> HIDE DEF h
<1>1. h \in DOMAIN T \cap DOMAIN T2
  BY DEF h
<1>2. T2[h].parent = T[h].parent /\ Named(T2, H, T[h].parent) = Named(T, G, T[h].parent)
  BY <1>1, SameParents, SameNamed
<1>3. CASE label = "readName"
  <2>1. Leads(T, h, f.location) /\ f.path \o Named(T, G, f.location) = Named(T, G, T[h].parent)
    BY <1>1, <1>3 DEF Walk, h
  <2>2. Leads(T2, h, f.location) /\ Named(T2, H, f.location) = Named(T, G, f.location)
    BY <1>1, <2>1, SameLeads, SameNamed
  <2> QED
    BY <1>2, <1>3, <2>1, <2>2
<1>4. CASE label = "writePath"
  BY <1>1, <1>2, <1>4 DEF Walk, h
<1> QED
  BY <1>3, <1>4

LEMMA SameStored ==
    ASSUME NEW T, NEW T2, SameRows(T, T2)
    PROVE  /\ Agree(T, T2, Stored(T), Stored(T2))
           /\ \A l \in DOMAIN T \cap DOMAIN T2 : PathCurrent(T2, l) <=> PathCurrent(T, l)
<1>1. Agree(T, T2, Stored(T), Stored(T2))
  BY DEF Agree, Stored, SameRows
<1>2. ASSUME NEW l \in DOMAIN T \cap DOMAIN T2
      PROVE  PathCurrent(T2, l) <=> PathCurrent(T, l)
  <2>1. T2[l].parent = T[l].parent /\ T[l].parent \in {None} \cup (DOMAIN T \cap DOMAIN T2)
    BY SameParents
  <2>2. Named(T2, Stored(T2), T[l].parent) = Named(T, Stored(T), T[l].parent)
    BY <1>1, <2>1, SameNamed
  <2>3. Stored(T2)[l] = Stored(T)[l]
    BY <1>1 DEF Agree
  <2>4. Tree(T) /\ Tree(T2)
    BY DEF SameRows
  <2> QED
    BY <2>1, <2>2, <2>3, <2>4, StoredCurrent
<1> QED
  BY <1>1, <1>2

-----------------------------------------------------------------------------
(* The rows whose path is still to be written. *)

LEMMA RangeOfConcat ==
    ASSUME NEW S, NEW a \in Seq(S), NEW b \in Seq(S)
    PROVE  /\ Range(a \o b) = Range(a) \cup Range(b)
           /\ IsInjective(a) /\ IsInjective(b) /\ Range(a) \cap Range(b) = {} => IsInjective(a \o b)
<1> DEFINE c == a \o b
<1>1. /\ c \in Seq(S) /\ Len(c) = Len(a) + Len(b)
      /\ \A i \in 1..(Len(a) + Len(b)) : c[i] = IF i <= Len(a) THEN a[i] ELSE b[i - Len(a)]
  BY ConcatProperties
<1>2. /\ Len(a) \in Nat /\ Len(b) \in Nat
      /\ DOMAIN a = 1..Len(a) /\ DOMAIN b = 1..Len(b) /\ DOMAIN c = 1..(Len(a) + Len(b))
  BY <1>1, LenProperties
<1> HIDE DEF c
<1>3. Range(c) \subseteq Range(a) \cup Range(b)
  <2>1. ASSUME NEW i \in DOMAIN c
        PROVE  c[i] \in Range(a) \cup Range(b)
    <3>1. CASE i <= Len(a)
      BY <1>1, <1>2, <3>1 DEF Range
    <3>2. CASE ~(i <= Len(a))
      <4>1. i - Len(a) \in 1..Len(b) /\ c[i] = b[i - Len(a)]
        BY <1>1, <1>2, <3>2
      <4> QED
        BY <1>2, <4>1 DEF Range
    <3> QED
      BY <3>1, <3>2
  <2> QED
    BY <2>1 DEF Range
<1>4. Range(a) \subseteq Range(c)
  <2>1. \A i \in DOMAIN a : i \in DOMAIN c /\ c[i] = a[i]
    BY <1>1, <1>2
  <2> QED
    BY <2>1 DEF Range
<1>5. Range(b) \subseteq Range(c)
  <2>1. \A i \in DOMAIN b : i + Len(a) \in DOMAIN c /\ c[i + Len(a)] = b[i]
    BY <1>1, <1>2
  <2> QED
    BY <2>1 DEF Range
<1>6. ASSUME IsInjective(a), IsInjective(b), Range(a) \cap Range(b) = {}
      PROVE  IsInjective(c)
  <2> SUFFICES ASSUME NEW i \in DOMAIN c, NEW j \in DOMAIN c, c[i] = c[j]
               PROVE  i = j
    BY DEF IsInjective
  <2>1. \A k \in DOMAIN c : \/ k \in DOMAIN a /\ c[k] = a[k]
                            \/ k - Len(a) \in DOMAIN b /\ c[k] = b[k - Len(a)]
    BY <1>1, <1>2
  <2>2. CASE i \in DOMAIN a /\ j \in DOMAIN a /\ c[i] = a[i] /\ c[j] = a[j]
    BY <1>6, <2>2 DEF IsInjective
  <2>3. CASE i - Len(a) \in DOMAIN b /\ j - Len(a) \in DOMAIN b /\ c[i] = b[i - Len(a)] /\ c[j] = b[j - Len(a)]
    <3>1. i - Len(a) = j - Len(a)
      BY <1>6, <2>3 DEF IsInjective
    <3> QED
      BY <1>2, <3>1
  <2>4. \A k, n : k \in DOMAIN a /\ n \in DOMAIN b => a[k] # b[n]
    BY <1>6 DEF Range
  <2> QED
    BY <2>1, <2>2, <2>3, <2>4
<1> QED
  BY <1>3, <1>4, <1>5, <1>6 DEF c

LEMMA RangeOfTail ==
    ASSUME NEW S, NEW a \in Seq(S), a # <<>>
    PROVE  /\ Range(a) = {Head(a)} \cup Range(Tail(a)) /\ Tail(a) \in Seq(S)
           /\ IsInjective(a) => IsInjective(Tail(a)) /\ Head(a) \notin Range(Tail(a))
           /\ Len(a) =< 1 => Range(a) = {Head(a)}
<1>1. /\ Len(a) \in Nat \ {0} /\ DOMAIN a = 1..Len(a)
      /\ Tail(a) \in Seq(S) /\ Len(Tail(a)) = Len(a) - 1 /\ Head(a) = a[1]
  BY EmptySeq, LenProperties, HeadTailProperties
<1>2. DOMAIN Tail(a) = 1..(Len(a) - 1) /\ \A i \in 1..(Len(a) - 1) : Tail(a)[i] = a[i + 1]
  BY <1>1, LenProperties
<1>3. \A i \in DOMAIN Tail(a) : i + 1 \in DOMAIN a /\ Tail(a)[i] = a[i + 1] /\ i + 1 # 1
  BY <1>1, <1>2
<1>4. \A i \in DOMAIN a : i = 1 \/ (i - 1 \in DOMAIN Tail(a) /\ Tail(a)[i - 1] = a[i])
  BY <1>1, <1>2
<1>5. 1 \in DOMAIN a
  BY <1>1
<1>6. Range(Tail(a)) \subseteq Range(a) /\ Head(a) \in Range(a)
  BY <1>1, <1>3, <1>5 DEF Range
<1>7. Range(a) \subseteq {Head(a)} \cup Range(Tail(a))
  <2>1. ASSUME NEW i \in DOMAIN a
        PROVE  a[i] \in {Head(a)} \cup Range(Tail(a))
    <3>1. CASE i = 1
      BY <1>1, <3>1
    <3>2. CASE i - 1 \in DOMAIN Tail(a) /\ Tail(a)[i - 1] = a[i]
      BY <3>2 DEF Range
    <3> QED
      BY <1>4, <3>1, <3>2
  <2> QED
    BY <2>1 DEF Range
<1>8. ASSUME IsInjective(a)
      PROVE  IsInjective(Tail(a)) /\ Head(a) \notin Range(Tail(a))
  <2>1. ASSUME NEW i \in DOMAIN Tail(a), NEW j \in DOMAIN Tail(a), Tail(a)[i] = Tail(a)[j]
        PROVE  i = j
    <3>1. i + 1 = j + 1
      BY <1>3, <1>8, <2>1 DEF IsInjective
    <3>2. i \in Int /\ j \in Int
      BY <1>1, <1>2
    <3> QED
      BY <3>1, <3>2
  <2>2. \A i \in DOMAIN Tail(a) : Tail(a)[i] # a[1]
    BY <1>3, <1>5, <1>8 DEF IsInjective
  <2> QED
    BY <1>1, <2>1, <2>2 DEF IsInjective, Range
<1>9. ASSUME Len(a) =< 1
      PROVE  Range(a) = {Head(a)}
  <2>1. DOMAIN a = {1}
    BY <1>1, <1>9
  <2> QED
    BY <1>1, <2>1 DEF Range
<1> QED
  BY <1>1, <1>6, <1>7, <1>8, <1>9

Below(T, l) == {k \in DOMAIN T : T[k].parent = l}

\* updateChildsPath visits every child, and each of them once.
LEMMA AllListed ==
    ASSUME NEW S, S \subseteq Locations
    PROVE  /\ SetToSeq(S) \in Seq(Locations)
           /\ Range(SetToSeq(S)) = S /\ IsInjective(SetToSeq(S))
<1> DEFINE n == Cardinality(S)
           s == SetToSeq(S)
<1>1. IsFiniteSet(S)
  BY LocationAssumption, FS_Subset
<1>2. n \in Nat /\ ExistsBijection(1..n, S)
  BY <1>1, FS_CardinalityType
<1>3. \E f \in [1..n -> S] : IsInjective(f)
  BY <1>2 DEF ExistsBijection, Bijection, Injection, IsInjective
<1>4. s \in [1..n -> S] /\ IsInjective(s)
  BY <1>3 DEF SetToSeq
<1> HIDE DEF s
<1>5. s \in Injection(1..n, S)
  BY <1>4 DEF Injection
<1>6. IsFiniteSet(1..n) /\ Cardinality(1..n) = n
  BY <1>2, FS_Interval
<1>7. s \in Surjection(1..n, S)
  <2>1. Cardinality(1..n) = Cardinality(S)
    BY <1>6
  <2> HIDE DEF n
  <2> QED
    BY <1>1, <1>5, <2>1, FS_Injection
<1>8. Range(s) = S
  BY <1>4, <1>7 DEF Surjection, Range
<1>9. s \in Seq(Locations)
  BY <1>2, <1>4
<1> QED
  BY <1>4, <1>8, <1>9 DEF s

-----------------------------------------------------------------------------
(* A renaming that has the locations to itself. *)

\* The rows that may be wrong are those still to be written and the children still to be listed;
\* all rows above them, which are in U, are right.
RenamesBelow(T, U, label, f) ==
    /\ PathsUpTo(T, U, Stored(T))
    /\ \A q \in Range(f.pending) : q \notin U /\ (q \in DOMAIN T => T[q].parent \in U)
    /\ IsInjective(f.pending)
    /\ \A l \in DOMAIN T : PathCurrent(T, l) \/ l \in Range(f.pending) \/ (label = "listChildren" /\ T[l].parent = f.location)
    /\ label = "listChildren" =>
            /\ f.location # None /\ (f.location \in DOMAIN T => f.location \in U)
            /\ \A l \in Below(T, f.location) : l \notin U /\ l \notin Range(f.pending)
    /\ label \in {"readName", "writePath"} => Walk(T, Stored(T), label, f)

Renaming(T, label, f) == \E U : RenamesBelow(T, U, label, f)

Searches(label, f) == f.pending \in Seq(Locations) /\ (label \in {"readName", "writePath"} => f.pending # <<>>)

LEMMA HeadPending ==
    ASSUME NEW f, f.pending \in Seq(Locations), f.pending # <<>>
    PROVE  Head(f.pending) \in Range(f.pending) /\ Head(f.pending) \in Locations
BY RangeOfTail, HeadTailProperties

\* Roots may come and leaves may go meanwhile.
LEMMA SameRenaming ==
    ASSUME NEW T, NEW T2, SameRows(T, T2), \A l \in DOMAIN T2 \ DOMAIN T : T2[l].parent = None,
           NEW label, NEW f, Searches(label, f),
           \A q \in Range(f.pending) \cup {f.location} : q \in DOMAIN T2 => q \in DOMAIN T,
           Renaming(T, label, f)
    PROVE  Renaming(T2, label, f)
<1>1. PICK U : RenamesBelow(T, U, label, f)
  BY DEF Renaming
<1> DEFINE W == U \cap DOMAIN T2
<1>2. Agree(T, T2, Stored(T), Stored(T2)) /\ \A l \in DOMAIN T \cap DOMAIN T2 : PathCurrent(T2, l) <=> PathCurrent(T, l)
  BY SameStored
<1>3. PathsUpTo(T2, W, Stored(T2))
  BY <1>1, <1>2, SamePaths DEF RenamesBelow
<1>4. \A l \in DOMAIN T \cap DOMAIN T2 : T2[l].parent = T[l].parent /\ T[l].parent \in {None} \cup (DOMAIN T \cap DOMAIN T2)
  BY SameParents
<1>5. ASSUME NEW q \in Range(f.pending)
      PROVE  q \notin W /\ (q \in DOMAIN T2 => T2[q].parent \in W)
  <2>1. q \notin U /\ (q \in DOMAIN T => T[q].parent \in U)
    BY <1>1 DEF RenamesBelow
  <2>2. None \notin U
    BY <1>1, RowType DEF RenamesBelow, PathsUpTo, UpClosed, SameRows
  <2> QED
    BY <1>4, <2>1, <2>2
<1>6. ASSUME NEW l \in DOMAIN T2
      PROVE  PathCurrent(T2, l) \/ l \in Range(f.pending) \/ (label = "listChildren" /\ T2[l].parent = f.location)
  <2>1. CASE l \in DOMAIN T
    BY <1>1, <1>2, <1>4, <2>1 DEF RenamesBelow
  <2>2. CASE l \notin DOMAIN T
    BY <2>2 DEF PathCurrent
  <2> QED
    BY <2>1, <2>2
<1>7. ASSUME label = "listChildren"
      PROVE  /\ f.location # None /\ (f.location \in DOMAIN T2 => f.location \in W)
             /\ \A l \in Below(T2, f.location) : l \notin W /\ l \notin Range(f.pending)
  <2>1. /\ f.location # None /\ (f.location \in DOMAIN T => f.location \in U)
        /\ \A l \in Below(T, f.location) : l \notin U /\ l \notin Range(f.pending)
    BY <1>1, <1>7 DEF RenamesBelow
  <2>2. Below(T2, f.location) \subseteq Below(T, f.location)
    BY <1>4, <2>1 DEF Below
  <2> QED
    BY <2>1, <2>2
<1>8. ASSUME label \in {"readName", "writePath"}
      PROVE  Walk(T2, Stored(T2), label, f)
  BY <1>1, <1>2, <1>8, HeadPending, SameWalk DEF RenamesBelow, Searches
<1>9. IsInjective(f.pending)
  BY <1>1 DEF RenamesBelow
<1> HIDE DEF W
<1> QED
  BY <1>3, <1>5, <1>6, <1>7, <1>8, <1>9 DEF RenamesBelow, Renaming

\* A name changes: of all rows that are not deeper in the tree none has it in its path.
LEMMA RenamingBegins ==
    ASSUME NEW T, Tree(T), PathsUpTo(T, DOMAIN T, Stored(T)), NEW l \in DOMAIN T, NEW name \in Names,
           NEW f, f.location = l, f.pending = <<>>
    PROVE  Renaming([T EXCEPT ![l].name = name], "listChildren", f)
<1> DEFINE S == Stored(T)
           T2 == [T EXCEPT ![l].name = name]
           U == {k \in DOMAIN T : Len(S[k]) =< Len(S[l])}
<1>1. /\ DOMAIN T2 = DOMAIN T
      /\ \A k \in DOMAIN T : /\ T2[k].parent = T[k].parent /\ T2[k].path = T[k].path
                             /\ k # l => T2[k].name = T[k].name
  BY RowType DEF LocationRow
<1>2. Stored(T2) = S
  BY <1>1 DEF Stored
<1>3. ASSUME NEW k \in DOMAIN T
      PROVE  /\ S[k] \in Seq(Names) /\ Len(S[k]) \in Nat /\ S[k] = Named(T, S, T[k].parent)
             /\ T[k].parent # None => T[k].parent \in DOMAIN T /\ Len(S[k]) = Len(S[T[k].parent]) + 1
  <2>1. S[k] \in Seq(Names) /\ S[k] = Named(T, S, T[k].parent)
    BY DEF PathsUpTo
  <2>2. ASSUME NEW p \in DOMAIN T, p = T[k].parent, p # None
        PROVE  Len(S[k]) = Len(S[p]) + 1
    <3>1. S[p] \in Seq(Names) /\ T[p].name \in Names /\ S[k] = <<T[p].name>> \o S[p]
      BY <2>1, <2>2, RowType DEF PathsUpTo, Named
    <3>2. <<T[p].name>> \in Seq(Names) /\ Len(<<T[p].name>>) = 1
      BY <3>1
    <3>3. Len(S[k]) = 1 + Len(S[p])
      BY <3>1, <3>2, ConcatProperties
    <3> QED
      BY <3>1, <3>3, LenProperties
  <2>3. T[k].parent \in {None} \cup DOMAIN T
    BY DEF Tree
  <2> QED
    BY <2>1, <2>2, <2>3, LenProperties
<1>4. UpClosed(T2, U) /\ l \in U
  <2>1. \A k \in U : T[k].parent # None => T[k].parent \in U
    BY <1>3
  <2> QED
    BY <1>1, <1>3, <2>1 DEF UpClosed
<1>5. \A k \in DOMAIN T : T[k].parent = l => k \notin U
  BY <1>3, RowType
<1>6. ASSUME NEW k \in DOMAIN T, T[k].parent # l
      PROVE  S[k] = Named(T2, S, T2[k].parent)
  <2> DEFINE p == T[k].parent
  <2>1. T2[k].parent = p /\ S[k] = Named(T, S, p) /\ (p = None \/ p \in DOMAIN T)
    BY <1>1, <1>3
  <2> HIDE DEF T2, S, p
  <2>2. p # None => T2[p].name = T[p].name
    BY <1>1, <1>6, <2>1 DEF p
  <2> QED
    BY <2>1, <2>2 DEF Named
<1>7. PathsUpTo(T2, U, S)
  BY <1>3, <1>4, <1>5, <1>6 DEF PathsUpTo
<1>8. Tree(T2)
  <2>1. \A k \in DOMAIN T : T2[k] \in LocationRow /\ k \in Locations
    BY RowType DEF LocationRow
  <2> QED
    BY <1>1, <2>1 DEF Tree, Table
<1>9. \A k \in DOMAIN T2 : PathCurrent(T2, k) \/ T2[k].parent = l
  <2> HIDE DEF T2, S
  <2>1. \A k \in DOMAIN T2 : PathCurrent(T2, k) <=> S[k] = Named(T2, S, T2[k].parent)
    BY <1>2, <1>8, StoredCurrent
  <2> QED
    BY <1>1, <1>6, <2>1
<1>10. Range(f.pending) = {} /\ IsInjective(f.pending)
  BY DEF Range, IsInjective
<1>11. l # None
  BY RowType
<1>12. RenamesBelow(T2, U, "listChildren", f)
  <2> HIDE DEF T2, U, S
  <2> QED
    BY <1>1, <1>2, <1>4, <1>5, <1>7, <1>9, <1>10, <1>11 DEF RenamesBelow, Below
<1> QED
  BY <1>12 DEF Renaming

LEMMA RenamingLists ==
    ASSUME NEW T, Tree(T), NEW f, f.pending \in Seq(Locations), Renaming(T, "listChildren", f),
           NEW g, g.pending = SetToSeq(Below(T, f.location)) \o f.pending
    PROVE  Renaming(T, "findPath", g)
<1>1. PICK U : RenamesBelow(T, U, "listChildren", f)
  BY DEF Renaming
<1> DEFINE children == Below(T, f.location)
<1>2. children \subseteq Locations
  BY RowType DEF Below
<1>3. SetToSeq(children) \in Seq(Locations) /\ Range(SetToSeq(children)) = children /\ IsInjective(SetToSeq(children))
  BY <1>2, AllListed
<1>4. /\ f.location # None /\ (f.location \in DOMAIN T => f.location \in U)
      /\ \A l \in children : l \notin U /\ l \notin Range(f.pending)
      /\ IsInjective(f.pending)
  BY <1>1 DEF RenamesBelow
<1>5. Range(g.pending) = children \cup Range(f.pending) /\ IsInjective(g.pending)
  <2>1. children \cap Range(f.pending) = {}
    BY <1>4
  <2> HIDE DEF children
  <2> QED
    BY <1>3, <1>4, <2>1, RangeOfConcat DEF children
<1>6. \A l \in children : T[l].parent = f.location /\ f.location \in U
  BY <1>4, RowType DEF Below
<1>7. \A q \in Range(f.pending) : q \notin U /\ (q \in DOMAIN T => T[q].parent \in U)
  BY <1>1 DEF RenamesBelow
<1>8. \A l \in DOMAIN T : PathCurrent(T, l) \/ l \in Range(f.pending) \/ l \in children
  BY <1>1 DEF RenamesBelow, Below
<1>9. PathsUpTo(T, U, Stored(T))
  BY <1>1 DEF RenamesBelow
<1> HIDE DEF children
<1>10. RenamesBelow(T, U, "findPath", g)
  BY <1>4, <1>5, <1>6, <1>7, <1>8, <1>9 DEF RenamesBelow
<1> QED
  BY <1>10 DEF Renaming

LEMMA RenamingFinds ==
    ASSUME NEW T, Tree(T), NEW f, f.pending \in Seq(Locations), f.pending # <<>>, Renaming(T, "findPath", f),
           NEW g, g.pending = f.pending, g.path = <<>>,
           g.location = IF Head(f.pending) \in DOMAIN T THEN T[Head(f.pending)].parent ELSE None
    PROVE  Renaming(T, "readName", g)
<1>1. PICK U : RenamesBelow(T, U, "findPath", f)
  BY DEF Renaming
<1>2. Head(f.pending) \in DOMAIN T => T[Head(f.pending)].parent \in U
  BY <1>1, HeadPending DEF RenamesBelow
<1>3. Walk(T, Stored(T), "readName", g)
  BY <1>1, <1>2, WalkBegins DEF RenamesBelow
<1>4. RenamesBelow(T, U, "readName", g)
  BY <1>1, <1>3 DEF RenamesBelow
<1> QED
  BY <1>4 DEF Renaming

LEMMA RenamingReads ==
    ASSUME NEW T, Tree(T), NEW f, f.pending \in Seq(Locations), f.pending # <<>>, f.path \in Seq(Names),
           Renaming(T, "readName", f), f.location \in DOMAIN T,
           NEW g, g.pending = f.pending, g.location = T[f.location].parent,
           g.path = Append(f.path, T[f.location].name)
    PROVE  Renaming(T, "readName", g)
<1>1. PICK U : RenamesBelow(T, U, "readName", f)
  BY DEF Renaming
<1>2. /\ Head(f.pending) \in DOMAIN T => T[Head(f.pending)].parent \in U
      /\ PathsUpTo(T, U, Stored(T)) /\ Walk(T, Stored(T), "readName", f)
  BY <1>1, HeadPending DEF RenamesBelow
<1>3. Walk(T, Stored(T), "readName", g)
  BY <1>2, WalkGoesOn
<1>4. RenamesBelow(T, U, "readName", g)
  BY <1>1, <1>3 DEF RenamesBelow
<1> QED
  BY <1>4 DEF Renaming

LEMMA RenamingAtRoot ==
    ASSUME NEW T, Tree(T), NEW f, f.path \in Seq(Names), Renaming(T, "readName", f), f.location \notin DOMAIN T
    PROVE  Renaming(T, "writePath", f)
<1>1. PICK U : RenamesBelow(T, U, "readName", f)
  BY DEF Renaming
<1>2. Walk(T, Stored(T), "writePath", f)
  BY <1>1, WalkEnds DEF RenamesBelow
<1>3. RenamesBelow(T, U, "writePath", f)
  BY <1>1, <1>2 DEF RenamesBelow
<1> QED
  BY <1>3 DEF Renaming

LEMMA RenamingEnds ==
    ASSUME NEW T, NEW f, f.pending = <<>>, Renaming(T, "findPath", f)
    PROVE  PathsOf(T)
<1>1. Range(f.pending) = {}
  BY DEF Range
<1> QED
  BY <1>1 DEF Renaming, RenamesBelow, PathsOf

\* What writing the path of k changes.
HasPath(T, T2, k, path) ==
    /\ DOMAIN T2 = DOMAIN T /\ Tree(T2) /\ T2[k].path = path
    /\ \A l \in DOMAIN T : /\ T2[l].parent = T[l].parent /\ T2[l].name = T[l].name
                           /\ l # k => T2[l].path = T[l].path

LEMMA PathWritten ==
    ASSUME NEW T, Tree(T), NEW k \in DOMAIN T, NEW path \in Seq(Names), NEW T2, T2 = [T EXCEPT ![k].path = path]
    PROVE  HasPath(T, T2, k, path)
<1>1. DOMAIN T2 = DOMAIN T /\ \A l \in DOMAIN T : T2[l] = IF l = k THEN [T[k] EXCEPT !.path = path] ELSE T[l]
  OBVIOUS
<1>2. T[k] \in LocationRow
  BY RowType
<1>3. /\ [T[k] EXCEPT !.path = path] \in LocationRow
      /\ [T[k] EXCEPT !.path = path].path = path
      /\ [T[k] EXCEPT !.path = path].parent = T[k].parent /\ [T[k] EXCEPT !.path = path].name = T[k].name
  BY <1>2 DEF LocationRow
<1>4. \A l \in DOMAIN T : /\ T2[l].parent = T[l].parent /\ T2[l].name = T[l].name /\ T2[l] \in LocationRow
                          /\ l \in Locations
                          /\ T2[l].path = IF l = k THEN path ELSE T[l].path
  BY <1>1, <1>3, RowType
<1>5. Tree(T2)
  BY <1>1, <1>4 DEF Tree, Table
<1> QED
  BY <1>1, <1>4, <1>5 DEF HasPath

\* The row written is right, and its children are next.
LEMMA RenamingWrites ==
    ASSUME NEW T, Tree(T), NEW f, f.pending \in Seq(Locations), f.pending # <<>>, f.path \in Seq(Names),
           Renaming(T, "writePath", f), NEW k, k = Head(f.pending),
           NEW T2, IF k \in DOMAIN T THEN HasPath(T, T2, k, f.path) ELSE T2 = T,
           NEW g, g.pending = Tail(f.pending), g.location = k
    PROVE  Renaming(T2, "listChildren", g)
<1>1. PICK U : RenamesBelow(T, U, "writePath", f)
  BY DEF Renaming
<1>2. /\ PathsUpTo(T, U, Stored(T)) /\ Walk(T, Stored(T), "writePath", f)
      /\ \A q \in Range(f.pending) : q \notin U /\ (q \in DOMAIN T => T[q].parent \in U)
      /\ IsInjective(f.pending)
      /\ \A l \in DOMAIN T : PathCurrent(T, l) \/ l \in Range(f.pending)
  BY <1>1 DEF RenamesBelow
<1>3. /\ Range(f.pending) = {k} \cup Range(g.pending) /\ IsInjective(g.pending) /\ k \notin Range(g.pending)
      /\ k \in Locations /\ k # None
  BY <1>2, RangeOfTail, HeadPending, TablesAssumption
<1>4. UpClosed(T, U)
  BY <1>2 DEF PathsUpTo
<1>5. CASE k \notin DOMAIN T
  <2>1. Below(T, k) = {} /\ T2 = T
    BY <1>3, <1>5 DEF Below, Tree
  <2>2. RenamesBelow(T, U, "listChildren", g)
    BY <1>2, <1>3, <1>5, <2>1 DEF RenamesBelow
  <2> QED
    BY <2>1, <2>2 DEF Renaming
<1>6. CASE k \in DOMAIN T
  <2> DEFINE W == U \cup {k}
  <2>1. /\ DOMAIN T2 = DOMAIN T /\ Tree(T2) /\ T2[k].path = f.path
        /\ \A l \in DOMAIN T : /\ T2[l].parent = T[l].parent /\ T2[l].name = T[l].name
                               /\ l # k => T2[l].path = T[l].path
    BY <1>6 DEF HasPath
  <2>2. k \notin U /\ T[k].parent \in U /\ T[k].parent \in DOMAIN T /\ T[k].parent # None /\ T[k].parent # k
    <3>1. k \in Range(f.pending)
      BY <1>3
    <3>2. k \notin U /\ T[k].parent \in U
      BY <1>2, <1>6, <3>1
    <3>3. T[k].parent \in DOMAIN T
      BY <1>4, <3>2 DEF UpClosed
    <3> QED
      BY <3>2, <3>3, RowType
  <2>3. \A l \in DOMAIN T : l # k => Stored(T2)[l] = Stored(T)[l]
    BY <2>1 DEF Stored
  <2>4. Stored(T2)[k] = f.path
    BY <1>6, <2>1, <2>2 DEF Stored
  <2>5. \A l \in DOMAIN T \cup {None} : l # k => Named(T2, Stored(T2), l) = Named(T, Stored(T), l)
    BY <2>1, <2>3 DEF Named
  <2>6. f.path = Named(T, Stored(T), T[k].parent)
    BY <1>2, <1>6 DEF Walk
  <2>7. Stored(T2)[k] = Named(T2, Stored(T2), T2[k].parent)
    <3>1. Named(T2, Stored(T2), T[k].parent) = Named(T, Stored(T), T[k].parent)
      BY <2>2, <2>5
    <3>2. T2[k].parent = T[k].parent
      BY <1>6, <2>1
    <3> QED
      BY <2>4, <2>6, <3>1, <3>2
  <2>8. PathsUpTo(T2, W, Stored(T2))
    <3>1. UpClosed(T2, W)
      BY <1>4, <1>6, <2>1, <2>2 DEF UpClosed
    <3>2. ASSUME NEW l \in U
          PROVE  Stored(T2)[l] \in Seq(Names) /\ Stored(T2)[l] = Named(T2, Stored(T2), T2[l].parent)
      <4>1. l \in DOMAIN T /\ l # k /\ T[l].parent \in U \cup {None} /\ T[l].parent # k
        BY <1>3, <1>4, <2>2 DEF UpClosed
      <4>2. Stored(T)[l] \in Seq(Names) /\ Stored(T)[l] = Named(T, Stored(T), T[l].parent)
        BY <1>2 DEF PathsUpTo
      <4>3. T[l].parent \in DOMAIN T \cup {None} /\ T2[l].parent = T[l].parent
        BY <2>1, <4>1 DEF Tree
      <4> QED
        BY <2>3, <2>5, <4>1, <4>2, <4>3
    <3> QED
      BY <2>4, <2>7, <3>1, <3>2 DEF PathsUpTo
  <2>9. ASSUME NEW l \in DOMAIN T2
        PROVE  PathCurrent(T2, l) \/ l \in Range(g.pending) \/ T2[l].parent = k
    <3>1. CASE l = k
      BY <2>1, <2>7, <3>1, StoredCurrent
    <3>2. CASE l # k /\ T[l].parent # k /\ PathCurrent(T, l)
      <4>1. T[l].parent \in {None} \cup DOMAIN T
        BY <2>1 DEF Tree
      <4>2. Stored(T)[l] = Named(T, Stored(T), T[l].parent)
        BY <2>1, <3>2, StoredCurrent
      <4> QED
        BY <2>1, <2>3, <2>5, <3>2, <4>1, <4>2, StoredCurrent
    <3> QED
      BY <1>2, <1>3, <2>1, <3>1, <3>2
  <2>10. \A q \in Range(g.pending) : q \notin W /\ (q \in DOMAIN T2 => T2[q].parent \in W)
    BY <1>2, <1>3, <2>1
  <2>11. ASSUME NEW l \in Below(T2, k)
         PROVE  l \notin W /\ l \notin Range(g.pending)
    <3>1. l \in DOMAIN T /\ T[l].parent = k
      BY <2>1 DEF Below
    <3>2. l \notin U /\ l # k
      BY <1>3, <1>4, <2>2, <3>1 DEF UpClosed
    <3>3. l \notin Range(g.pending)
      BY <1>2, <1>3, <2>2, <3>1
    <3> QED
      BY <3>2, <3>3
  <2>12. RenamesBelow(T2, W, "listChildren", g)
    <3>1. k \in W
      OBVIOUS
    <3> HIDE DEF W
    <3> QED
      BY <1>3, <2>8, <2>9, <2>10, <2>11, <3>1 DEF RenamesBelow
  <2> QED
    BY <2>12 DEF Renaming
<1> QED
  BY <1>5, <1>6

-----------------------------------------------------------------------------
(* Threads that only add locations.  G has the paths of the tree, which the rows get in time. *)

AddsUpTo(T, G, labels, frames) ==
    /\ PathsUpTo(T, DOMAIN T, G)
    /\ \A l \in DOMAIN T : T[l].parent # None /\ T[l].path # G[l]
                               => \E t \in InLocations(labels) : l \in Range(frames[t].pending)
    /\ \A t \in InLocations(labels) : Walk(T, G, labels[t], frames[t])

Adding(T, labels, frames) ==
    /\ \A t \in InLocations(labels) : frames[t].op # "updateLocation"
    /\ \E G : AddsUpTo(T, G, labels, frames)

\* Whoever has the locations to itself while it renames one.
RenamingAlone(T, labels, frames) ==
    \E t \in InLocations(labels) :
        InLocations(labels) = {t} /\ frames[t].op = "updateLocation" /\ Renaming(T, labels[t], frames[t])

Known(T, labels, frames) == RenamingAlone(T, labels, frames) \/ Adding(T, labels, frames)

\* A row that comes below one that is there, or as a root, has a path as well.
LEMMA PathsGrow ==
    ASSUME NEW T, NEW T2, SameRows(T, T2), NEW G, PathsUpTo(T, DOMAIN T, G),
           \A l \in DOMAIN T2 \ DOMAIN T : T2[l].parent \in {None} \cup DOMAIN T
    PROVE  \E H : PathsUpTo(T2, DOMAIN T2, H) /\ Agree(T, T2, G, H)
<1> DEFINE H == [l \in DOMAIN T2 |-> IF l \in DOMAIN T THEN G[l] ELSE Named(T, G, T2[l].parent)]
<1>1. Agree(T, T2, G, H)
  BY DEF Agree
<1>2. Tree(T) /\ Tree(T2)
  BY DEF SameRows
<1>3. PathsUpTo(T2, DOMAIN T \cap DOMAIN T2, H)
  BY <1>1, SamePaths
<1>4. UpClosed(T2, DOMAIN T2)
  BY <1>2 DEF UpClosed, Tree
<1>5. ASSUME NEW l \in DOMAIN T2 \ DOMAIN T
      PROVE  H[l] \in Seq(Names) /\ H[l] = Named(T2, H, T2[l].parent)
  <2>1. H[l] = Named(T, G, T2[l].parent)
    OBVIOUS
  <2>2. T2[l].parent \in {None} \cup (DOMAIN T \cap DOMAIN T2)
    BY <1>2 DEF Tree
  <2> HIDE DEF H
  <2>3. Named(T2, H, T2[l].parent) = Named(T, G, T2[l].parent)
    BY <1>1, <2>2, SameNamed
  <2>4. Named(T, G, T2[l].parent) \in Seq(Names)
    BY <1>2, <2>2, NamedType
  <2> QED
    BY <2>1, <2>3, <2>4
<1> HIDE DEF H
<1>6. PathsUpTo(T2, DOMAIN T2, H)
  BY <1>3, <1>4, <1>5 DEF PathsUpTo
<1> QED
  BY <1>1, <1>6

\* Rows may come and go; a thread that begins has yet to find the path of its row.
LEMMA AddingGoesOn ==
    ASSUME NEW T, NEW T2, SameRows(T, T2), NEW labels, NEW frames, NEW labels2, NEW frames2,
           \A l \in DOMAIN T2 \ DOMAIN T : T2[l].parent \in {None} \cup DOMAIN T,
           \A l \in DOMAIN T2 \ DOMAIN T :
                T2[l].parent # None => \E t \in InLocations(labels2) : l \in Range(frames2[t].pending),
           \A t \in InLocations(labels) :
                t \in InLocations(labels2) /\ labels2[t] = labels[t] /\ frames2[t] = frames[t],
           \A t \in InLocations(labels2) \ InLocations(labels) :
                labels2[t] = "findPath" /\ frames2[t].op # "updateLocation",
           \A t \in InLocations(labels) :
                /\ Searches(labels[t], frames[t])
                /\ \A q \in Range(frames[t].pending) : q \in DOMAIN T2 => q \in DOMAIN T,
           Adding(T, labels, frames)
    PROVE  Adding(T2, labels2, frames2)
<1>1. PICK G : AddsUpTo(T, G, labels, frames)
  BY DEF Adding
<1>2. PathsUpTo(T, DOMAIN T, G)
  BY <1>1 DEF AddsUpTo
<1>3. PICK H : PathsUpTo(T2, DOMAIN T2, H) /\ Agree(T, T2, G, H)
  BY <1>2, PathsGrow
<1>4. ASSUME NEW l \in DOMAIN T2, T2[l].parent # None, T2[l].path # H[l]
      PROVE  \E t \in InLocations(labels2) : l \in Range(frames2[t].pending)
  <2>1. CASE l \in DOMAIN T
    <3>1. T2[l] = T[l] /\ H[l] = G[l]
      BY <1>3, <2>1 DEF SameRows, Agree
    <3>2. PICK t \in InLocations(labels) : l \in Range(frames[t].pending)
      BY <1>1, <1>4, <2>1, <3>1 DEF AddsUpTo
    <3> QED
      BY <3>2
  <2> QED
    BY <1>4, <2>1
<1>5. ASSUME NEW t \in InLocations(labels2)
      PROVE  Walk(T2, H, labels2[t], frames2[t])
  <2>1. CASE t \in InLocations(labels) /\ labels[t] \in {"readName", "writePath"}
    <3>1. labels2[t] = labels[t] /\ frames2[t] = frames[t] /\ Walk(T, G, labels[t], frames[t])
      BY <1>1, <2>1 DEF AddsUpTo
    <3>2. Head(frames[t].pending) \in Range(frames[t].pending)
      BY <2>1, HeadPending DEF Searches
    <3>3. Head(frames[t].pending) \in DOMAIN T2 => Head(frames[t].pending) \in DOMAIN T
      BY <2>1, <3>2
    <3> QED
      BY <1>3, <3>1, <3>3, SameWalk
  <2>2. CASE ~(t \in InLocations(labels) /\ labels[t] \in {"readName", "writePath"})
    <3>1. labels2[t] \notin {"readName", "writePath"}
      BY <2>2
    <3> QED
      BY <3>1 DEF Walk
  <2> QED
    BY <2>1, <2>2
<1>6. \A t \in InLocations(labels2) : frames2[t].op # "updateLocation"
  BY DEF Adding
<1>7. AddsUpTo(T2, H, labels2, frames2)
  BY <1>3, <1>4, <1>5 DEF AddsUpTo
<1> QED
  BY <1>6, <1>7 DEF Adding

Others(labels, frames, labels2, frames2, t) ==
    \A u \in InLocations(labels) \ {t} : labels2[u] = labels[u] /\ frames2[u] = frames[u]

\* A thread goes on towards the root.
LEMMA AddingMoves ==
    ASSUME NEW T, NEW labels, NEW frames, NEW labels2, NEW frames2, NEW t \in InLocations(labels),
           InLocations(labels2) = InLocations(labels), Others(labels, frames, labels2, frames2, t),
           frames2[t].pending = frames[t].pending, frames2[t].op = frames[t].op,
           \A G : PathsUpTo(T, DOMAIN T, G) /\ Walk(T, G, labels[t], frames[t]) => Walk(T, G, labels2[t], frames2[t]),
           Adding(T, labels, frames)
    PROVE  Adding(T, labels2, frames2)
<1>1. PICK G : AddsUpTo(T, G, labels, frames)
  BY DEF Adding
<1>2. \A u \in InLocations(labels) : frames2[u].pending = frames[u].pending /\ frames2[u].op = frames[u].op
  BY DEF Others
<1>3. \A u \in InLocations(labels) : Walk(T, G, labels2[u], frames2[u])
  BY <1>1 DEF AddsUpTo, Others
<1>4. AddsUpTo(T, G, labels2, frames2)
  BY <1>1, <1>2, <1>3 DEF AddsUpTo
<1> QED
  BY <1>2, <1>4 DEF Adding

LEMMA AddingLeaves ==
    ASSUME NEW T, NEW labels, NEW frames, NEW labels2, NEW frames2, NEW t \in InLocations(labels),
           InLocations(labels2) = InLocations(labels) \ {t}, Others(labels, frames, labels2, frames2, t),
           frames[t].pending = <<>>, Adding(T, labels, frames)
    PROVE  Adding(T, labels2, frames2)
<1>1. PICK G : AddsUpTo(T, G, labels, frames)
  BY DEF Adding
<1>2. Range(frames[t].pending) = {}
  BY DEF Range
<1>3. AddsUpTo(T, G, labels2, frames2)
  BY <1>1, <1>2 DEF AddsUpTo, Others
<1> QED
  BY <1>3 DEF Adding, Others

\* Nobody's way to the root depends on what is written.
LEMMA SameTree ==
    ASSUME NEW T, Tree(T), NEW T2, NEW k \in DOMAIN T, NEW path, HasPath(T, T2, k, path), NEW G
    PROVE  /\ \A V : UpClosed(T2, V) <=> UpClosed(T, V)
           /\ \A l \in {None} \cup DOMAIN T : Named(T2, G, l) = Named(T, G, l)
           /\ PathsUpTo(T, DOMAIN T, G) => PathsUpTo(T2, DOMAIN T2, G)
           /\ \A label, f : Walk(T, G, label, f) => Walk(T2, G, label, f)
<1>1. \A V : UpClosed(T2, V) <=> UpClosed(T, V)
  <2>1. ASSUME NEW V, V \subseteq DOMAIN T
        PROVE  (\A l \in V : T2[l].parent \in V \cup {None}) <=> (\A l \in V : T[l].parent \in V \cup {None})
    BY <2>1 DEF HasPath
  <2>2. DOMAIN T2 = DOMAIN T
    BY DEF HasPath
  <2> QED
    BY <2>1, <2>2 DEF UpClosed
<1>2. \A l \in {None} \cup DOMAIN T : Named(T2, G, l) = Named(T, G, l)
  BY DEF HasPath, Named
<1>3. \A l \in DOMAIN T : T2[l].parent = T[l].parent /\ T[l].parent \in {None} \cup DOMAIN T
  BY DEF HasPath, Tree
<1>4. DOMAIN T2 = DOMAIN T
  BY DEF HasPath
<1>5. PathsUpTo(T, DOMAIN T, G) => PathsUpTo(T2, DOMAIN T2, G)
  BY <1>1, <1>2, <1>3, <1>4 DEF PathsUpTo
<1>6. ASSUME NEW label, NEW f, Walk(T, G, label, f)
      PROVE  Walk(T2, G, label, f)
  <2> DEFINE h == Head(f.pending)
  <2> SUFFICES ASSUME h \in DOMAIN T
               PROVE  /\ label = "readName" => /\ Leads(T2, h, f.location)
                                               /\ f.path \o Named(T2, G, f.location) = Named(T2, G, T2[h].parent)
                      /\ label = "writePath" => f.path = Named(T2, G, T2[h].parent)
    BY <1>4 DEF Walk
  <2>1. Named(T2, G, T2[h].parent) = Named(T, G, T[h].parent)
    BY <1>2, <1>3
  <2>2. ASSUME label = "readName"
        PROVE  Leads(T2, h, f.location) /\ f.path \o Named(T2, G, f.location) = Named(T2, G, T2[h].parent)
    <3>1. Leads(T, h, f.location) /\ f.path \o Named(T, G, f.location) = Named(T, G, T[h].parent)
      BY <1>6, <2>2 DEF Walk
    <3>2. Leads(T2, h, f.location)
      BY <1>1, <1>3, <3>1 DEF Leads
    <3>3. UpClosed(T, DOMAIN T) /\ T[h].parent \in DOMAIN T \cup {None}
      BY <1>3 DEF UpClosed
    <3>4. f.location \in DOMAIN T \cup {None}
      BY <3>1, <3>3 DEF Leads
    <3> QED
      BY <1>2, <2>1, <3>1, <3>2, <3>4
  <2>3. ASSUME label = "writePath"
        PROVE  f.path = Named(T2, G, T2[h].parent)
    BY <1>6, <2>1, <2>3 DEF Walk
  <2> QED
    BY <2>2, <2>3
<1> QED
  BY <1>1, <1>2, <1>5, <1>6

LEMMA AddingWrites ==
    ASSUME NEW T, Tree(T), NEW labels, NEW frames, NEW labels2, NEW frames2, NEW t \in InLocations(labels),
           InLocations(labels2) = InLocations(labels) \ {t}, Others(labels, frames, labels2, frames2, t),
           labels[t] = "writePath", NEW k, k = Head(frames[t].pending), Range(frames[t].pending) = {k},
           NEW T2, IF k \in DOMAIN T THEN HasPath(T, T2, k, frames[t].path) ELSE T2 = T,
           Adding(T, labels, frames)
    PROVE  Adding(T2, labels2, frames2)
<1>1. PICK G : AddsUpTo(T, G, labels, frames)
  BY DEF Adding
<1>2. /\ PathsUpTo(T, DOMAIN T, G)
      /\ \A l \in DOMAIN T : T[l].parent # None /\ T[l].path # G[l]
                                => \E u \in InLocations(labels) : l \in Range(frames[u].pending)
      /\ \A u \in InLocations(labels) : Walk(T, G, labels[u], frames[u])
  BY <1>1 DEF AddsUpTo
<1>3. AddsUpTo(T2, G, labels2, frames2)
  <2>1. CASE k \notin DOMAIN T
    <3>1. T2 = T
      BY <2>1
    <3>2. \A l \in DOMAIN T : l # k
      BY <2>1
    <3> QED
      BY <1>2, <3>1, <3>2 DEF AddsUpTo, Others
  <2>2. CASE k \in DOMAIN T
    <3>1. HasPath(T, T2, k, frames[t].path)
      BY <2>2
    <3>2. PathsUpTo(T2, DOMAIN T2, G) /\ \A label, f : Walk(T, G, label, f) => Walk(T2, G, label, f)
      BY <1>2, <2>2, <3>1, SameTree
    <3>3. DOMAIN T2 = DOMAIN T /\ \A l \in DOMAIN T : T2[l].parent = T[l].parent /\ (l # k => T2[l].path = T[l].path)
      BY <3>1 DEF HasPath
    <3>4. T2[k].path = G[k]
      <4>1. frames[t].path = Named(T, G, T[k].parent)
        BY <1>2, <2>2 DEF Walk
      <4>2. G[k] = Named(T, G, T[k].parent)
        BY <1>2, <2>2 DEF PathsUpTo
      <4> QED
        BY <3>1, <4>1, <4>2 DEF HasPath
    <3>5. ASSUME NEW l \in DOMAIN T2, T2[l].parent # None, T2[l].path # G[l]
          PROVE  \E u \in InLocations(labels2) : l \in Range(frames2[u].pending)
      <4>1. l # k /\ l \in DOMAIN T /\ T[l].parent # None /\ T[l].path # G[l]
        BY <3>3, <3>4, <3>5
      <4>2. PICK u \in InLocations(labels) : l \in Range(frames[u].pending)
        BY <1>2, <4>1
      <4>3. u # t
        BY <4>1, <4>2
      <4> QED
        BY <4>2, <4>3 DEF Others
    <3>6. \A u \in InLocations(labels2) : Walk(T2, G, labels2[u], frames2[u])
      BY <1>2, <3>2 DEF Others
    <3> QED
      BY <3>2, <3>5, <3>6 DEF AddsUpTo
  <2> QED
    BY <2>1, <2>2
<1> QED
  BY <1>3 DEF Adding, Others

\* When all have written their paths, the stored ones are those of the tree.
LEMMA AddingEnds ==
    ASSUME NEW T, Tree(T), NEW labels, NEW frames, InLocations(labels) = {}, Adding(T, labels, frames)
    PROVE  PathsUpTo(T, DOMAIN T, Stored(T)) /\ PathsOf(T)
<1>1. PICK G : AddsUpTo(T, G, labels, frames)
  BY DEF Adding
<1>2. PathsUpTo(T, DOMAIN T, G) /\ \A l \in DOMAIN T : T[l].parent # None => T[l].path = G[l]
  BY <1>1 DEF AddsUpTo
<1>3. \A l \in DOMAIN T : Stored(T)[l] = G[l]
  BY <1>2 DEF Stored, PathsUpTo, Named
<1>4. SameRows(T, T) /\ Agree(T, T, G, Stored(T))
  BY <1>3 DEF SameRows, Agree
<1>5. PathsUpTo(T, DOMAIN T, Stored(T))
  BY <1>2, <1>4, SamePaths
<1>6. \A l \in DOMAIN T : PathCurrent(T, l)
  BY <1>5, StoredCurrent DEF PathsUpTo
<1> QED
  BY <1>5, <1>6 DEF PathsOf

\* All paths are written and right: nobody has anything left to add.
LEMMA AddingBegins ==
    ASSUME NEW T, Tree(T), PathsOf(T), \A l \in DOMAIN T : T[l].parent # None => T[l].path # None,
           NEW labels, NEW frames, InLocations(labels) = {}
    PROVE  Adding(T, labels, frames)
<1>1. PathsUpTo(T, DOMAIN T, Stored(T))
  BY StoredPaths
<1>2. \A l \in DOMAIN T : T[l].parent # None => T[l].path = Stored(T)[l]
  BY DEF Stored
<1>3. AddsUpTo(T, Stored(T), labels, frames)
  BY <1>1, <1>2 DEF AddsUpTo
<1> QED
  BY <1>3 DEF Adding

-----------------------------------------------------------------------------
(* The threads at the locations. *)

\* A location that is not a root has a path, or a thread that is going to write its first one.
Written ==
    \A l \in DOMAIN db.location :
        db.location[l].parent # None /\ db.location[l].path = None
            => \E t \in InLocations(pc) : frame[t].op # "updateLocation" /\ l \in Range(frame[t].pending)

\* Whoever adds a location has only that one in work.
AddsOne ==
    \A t \in InLocations(pc) :
        frame[t].op # "updateLocation" => pc[t] # "listChildren" /\ Len(frame[t].pending) =< 1

Places ==
    /\ IsFiniteSet(InLocations(pc)) /\ Written /\ AddsOne
    /\ ~overlapped => Known(db.location, pc, frame)

LEMMA SearchTypes ==
    ASSUME Sound, NEW t \in InLocations(pc)
    PROVE  /\ t \in Threads /\ frame[t] \in Frame /\ Searches(pc[t], frame[t])
           /\ frame[t].pending \in Seq(Locations) /\ frame[t].path \in Seq(Names)
           /\ Range(frame[t].pending) \cup {frame[t].location} \subseteq HeldLocations
<1>1. t \in Threads
  BY LocationAssumption DEF InLocations
<1>2. frame[t] \in Frame
  BY <1>1 DEF Sound, TypeOK
<1>3. frame[t].pending \in Seq(Locations) /\ frame[t].path \in Seq(Names)
  BY <1>2 DEF Frame
<1>4. Searches(pc[t], frame[t])
  BY <1>1, <1>3 DEF Sound, PendingRow, Searches
<1>5. Range(frame[t].pending) \subseteq HeldLocations /\ frame[t].location \in HeldLocations
  BY <1>1 DEF HeldLocations, HeldKeys
<1> QED
  BY <1>1, <1>2, <1>3, <1>4, <1>5

\* What the history records of a step.
Remembered == ~overlapped' => ~overlapped \/ (InLocations(pc') = {} /\ PathsOf(db'.location))

LEMMA RecordsOverlap ==
    ASSUME Record
    PROVE  /\ Remembered
           /\ InLocations(pc') # {} /\ ~overlapped' => ~overlapped
           /\ \A u \in InLocations(pc') :
                ~overlapped' /\ IsFiniteSet(InLocations(pc')) /\ u \in Threads /\ frame'[u].op = "updateLocation"
                    => InLocations(pc') = {u}
<1> DEFINE S == InLocations(pc')
<1>1. overlapped' = IF S = {} THEN overlapped /\ ~PathsOf(db'.location)
                    ELSE overlapped \/ (Cardinality(S) > 1 /\ \E t \in Threads : frame'[t].op = "updateLocation")
  BY DEF Record
<1> HIDE DEF S
<1>2. ASSUME NEW u \in S, ~overlapped', IsFiniteSet(S), u \in Threads, frame'[u].op = "updateLocation"
      PROVE  S = {u}
  <2>1. ~(Cardinality(S) > 1)
    BY <1>1, <1>2
  <2>2. Cardinality(S) \in Nat /\ Cardinality(S \ {u}) = Cardinality(S) - 1 /\ IsFiniteSet(S \ {u})
    BY <1>2, FS_CardinalityType, FS_RemoveElement
  <2>3. Cardinality(S \ {u}) \in Nat
    BY <2>2, FS_CardinalityType
  <2>4. Cardinality(S \ {u}) = 0
    BY <2>1, <2>2, <2>3
  <2>5. S \ {u} = {}
    BY <2>2, <2>4, FS_EmptySet
  <2> QED
    BY <2>5
<1>3. Remembered /\ (S # {} /\ ~overlapped' => ~overlapped)
  BY <1>1 DEF Remembered, S
<1> QED
  BY <1>2, <1>3 DEF S

\* Nobody at the locations moves; a root may be inserted, or a leaf deleted.
Away ==
    /\ InLocations(pc') = InLocations(pc)
    /\ \A t \in InLocations(pc) : pc'[t] = pc[t] /\ frame'[t] = frame[t]
    /\ \A l \in DOMAIN db.location \cap DOMAIN db'.location : db'.location[l] = db.location[l]
    /\ \A l \in DOMAIN db'.location \ DOMAIN db.location : db'.location[l].parent = None /\ l \notin HeldLocations

LEMMA Trees == (Sound => Tree(db.location)) /\ (Sound' => Tree(db'.location))
BY TreeOfLocations DEF Sound, TypeOK

\* Nobody is at the locations and the paths are right: what happened before makes no difference.
LEMMA StartsAgain ==
    ASSUME Sound', Written', InLocations(pc') = {}, PathsOf(db'.location)
    PROVE  Known(db'.location, pc', frame')
<1>1. Tree(db'.location)
  BY Trees
<1>2. \A l \in DOMAIN db'.location : db'.location[l].parent # None => db'.location[l].path # None
  BY DEF Written
<1> QED
  BY <1>1, <1>2, AddingBegins DEF Known

LEMMA AwayKeeps ==
    ASSUME Sound, Sound', Places, Away, Remembered
    PROVE  Places'
<1> DEFINE T == db.location
           T2 == db'.location
<1>1. SameRows(T, T2)
  <2>1. Tree(T) /\ Tree(T2)
    BY Trees
  <2> QED
    BY <2>1 DEF SameRows, Away
<1>2. IsFiniteSet(InLocations(pc'))
  BY DEF Places, Away
<1>3. Written'
  <2> SUFFICES ASSUME NEW l \in DOMAIN T2, T2[l].parent # None, T2[l].path = None
               PROVE  \E t \in InLocations(pc') : frame'[t].op # "updateLocation" /\ l \in Range(frame'[t].pending)
    BY DEF Written
  <2>1. l \in DOMAIN T /\ T[l] = T2[l]
    BY DEF Away
  <2>2. PICK t \in InLocations(pc) : frame[t].op # "updateLocation" /\ l \in Range(frame[t].pending)
    BY <2>1 DEF Places, Written
  <2> QED
    BY <2>2 DEF Away
<1>4. AddsOne'
  BY DEF AddsOne, Places, Away
<1>5. \A t \in InLocations(pc) : \A q \in Range(frame[t].pending) \cup {frame[t].location} : q \in DOMAIN T2 => q \in DOMAIN T
  BY SearchTypes DEF Away
<1>6. \A l \in DOMAIN T2 \ DOMAIN T : T2[l].parent = None
  BY DEF Away
<1> HIDE DEF T, T2
<1>7. ASSUME Known(T, pc, frame)
      PROVE  Known(T2, pc', frame')
  <2>1. CASE RenamingAlone(T, pc, frame)
    <3>1. PICK t \in InLocations(pc) :
                InLocations(pc) = {t} /\ frame[t].op = "updateLocation" /\ Renaming(T, pc[t], frame[t])
      BY <2>1 DEF RenamingAlone
    <3>2. Renaming(T2, pc[t], frame[t])
      BY <1>1, <1>5, <1>6, <3>1, SearchTypes, SameRenaming
    <3>3. RenamingAlone(T2, pc', frame')
      BY <3>1, <3>2 DEF RenamingAlone, Away
    <3> QED
      BY <3>3 DEF Known
  <2>2. CASE Adding(T, pc, frame)
    <3>1. \A t \in InLocations(pc) : t \in InLocations(pc') /\ pc'[t] = pc[t] /\ frame'[t] = frame[t]
      BY DEF Away
    <3>2. InLocations(pc') \ InLocations(pc) = {}
      BY DEF Away
    <3>3. Adding(T2, pc', frame')
      BY <1>1, <1>5, <1>6, <2>2, <3>1, <3>2, SearchTypes, AddingGoesOn
    <3> QED
      BY <3>3 DEF Known
  <2> QED
    BY <1>7, <2>1, <2>2 DEF Known
<1>8. ~overlapped' => Known(T2, pc', frame')
  <2>1. CASE ~overlapped
    BY <1>7, <2>1 DEF Places, T
  <2>2. CASE InLocations(pc') = {} /\ PathsOf(T2)
    BY <1>3, <2>2, StartsAgain DEF T2
  <2> QED
    BY <2>1, <2>2 DEF Remembered, T2
<1> QED
  BY <1>2, <1>3, <1>4, <1>8 DEF Places, T2

-----------------------------------------------------------------------------
(* The calls that are not at the locations. *)

Elsewhere(label) == label \notin LocationLabels

LEMMA OtherLocations ==
    ASSUME Tables(db)
    PROVE  /\ \A x : [db EXCEPT !.group = x].location = db.location
           /\ \A x : [db EXCEPT !.sensor = x].location = db.location
           /\ \A x : [db EXCEPT !.groupSensor = x].location = db.location
           /\ \A x : [db EXCEPT !.measure = x].location = db.location
           /\ \A x : [db EXCEPT !.client = x].location = db.location
           /\ \A x : [db EXCEPT !.data = x].location = db.location
BY DEF Tables

LEMMA ExecuteLocations ==
    \A t, result, label, f : Execute(t, result, label, f) /\ result.location = db.location => db'.location = db.location
BY DEF Execute

LEMMA PurgeElsewhere ==
    ASSUME TypeOK, NEW t \in Threads, Purge(t) \/ GiveUp(t)
    PROVE  db'.location = db.location /\ Elsewhere(pc[t])
<1>1. Tables(db)
  BY DEF TypeOK
<1>2. \A rows : Without(rows).location = db.location
  BY <1>1, OtherLocations DEF Without
<1>3. CASE CheckClients(t) \/ SelectMaxDays(t) \/ GiveUp(t)
  BY <1>3 DEF CheckClients, SelectMaxDays, GiveUp, Elsewhere, LocationLabels
<1>4. CASE DeleteData(t) \/ ShrinkData(t)
  BY <1>2, <1>4, ExecuteLocations DEF DeleteData, ShrinkData, Elsewhere, LocationLabels
<1> QED
  BY <1>3, <1>4 DEF Purge

LEMMA ClientCallElsewhere ==
    ASSUME TypeOK, NEW t \in Threads, ClientCall(t)
    PROVE  db'.location = db.location /\ Elsewhere(pc[t])
<1>1. Tables(db)
  BY DEF TypeOK
<1>2. ASSUME NEW m, NEW days, FindClient(t, m, days)
      PROVE  db'.location = db.location /\ Elsewhere(pc[t])
  BY <1>2 DEF FindClient, Starts, Elsewhere, LocationLabels
<1>3. CASE UpdateClient(t)
  <2>1. db' = db \/ \E x : db' = [db EXCEPT !.client = x]
    BY <1>3 DEF UpdateClient
  <2> QED
    BY <1>1, <1>3, <2>1, OtherLocations DEF UpdateClient, Elsewhere, LocationLabels
<1>4. CASE InsertClient(t)
  <2>1. \E x, label, f : Execute(t, [db EXCEPT !.client = x], label, f)
    BY <1>4 DEF InsertClient
  <2> QED
    BY <1>1, <1>4, <2>1, OtherLocations, ExecuteLocations DEF InsertClient, Elsewhere, LocationLabels
<1>5. ASSUME NEW m, RemoveClient(t, m)
      PROVE  db'.location = db.location /\ Elsewhere(pc[t])
  <2>1. \E x : db' = [db EXCEPT !.client = x]
    BY <1>5 DEF RemoveClient
  <2> QED
    BY <1>1, <1>5, <2>1, OtherLocations DEF RemoveClient, Starts, Elsewhere, LocationLabels
<1> QED
  BY <1>2, <1>3, <1>4, <1>5, PurgeElsewhere DEF ClientCall

LEMMA TelegramElsewhere ==
    ASSUME TypeOK, Telegram
    PROVE  db'.location = db.location /\ Elsewhere(pc[Reader])
<1>1. Tables(db) /\ Reader \in Threads
  BY MeasureThreads DEF TypeOK
<1>2. ASSUME NEW a, ReceiveTelegram(a)
      PROVE  db'.location = db.location /\ Elsewhere(pc[Reader])
  BY <1>2 DEF ReceiveTelegram, Starts, Elsewhere, LocationLabels
<1>3. CASE AddStorage
  <2>1. \E x, label, f : Execute(Reader, [db EXCEPT !.data = x], label, f)
    BY <1>3 DEF AddStorage
  <2> QED
    BY <1>1, <1>3, <2>1, OtherLocations, ExecuteLocations DEF AddStorage, Elsewhere, LocationLabels
<1>4. CASE SetLastMeasureData
  <2>1. \E x, label, f : Execute(Reader, db, label, f) \/ Execute(Reader, [db EXCEPT !.measure = x], label, f)
    BY <1>4 DEF SetLastMeasureData, WithLast
  <2> QED
    BY <1>1, <1>4, <2>1, OtherLocations, ExecuteLocations DEF SetLastMeasureData, Elsewhere, LocationLabels
<1> QED
  BY <1>1, <1>2, <1>3, <1>4, PurgeElsewhere DEF Telegram

LEMMA AdminCallElsewhere ==
    ASSUME TypeOK, NEW t \in Threads, AdminCall(t)
    PROVE  Elsewhere(pc[t]) /\ (db'.location = db.location \/ \E l : db'.location = Delete(db.location, {l}))
<1> DEFINE P == Elsewhere(pc[t]) /\ db'.location = db.location
<1>1. Tables(db)
  BY DEF TypeOK
<1>2. \A x, y : DeleteLink(x, y).location = db.location
  BY <1>1, OtherLocations DEF DeleteLink
<1>3. \A label : pc[t] = label /\ label \in AdminLabels => Elsewhere(pc[t])
  BY DEF AdminLabels, Elsewhere, LocationLabels
<1>4. \A x, y, label, f : InsertLink(t, x, y, label, f) => db'.location = db.location
  BY <1>1, OtherLocations, ExecuteLocations DEF InsertLink
<1>5. ASSUME NEW g, NEW s, AddGroup(t, g) \/ DeleteGroup(t, g) \/ AddSensorToGroup(t, g, s) \/ DeleteSensor(t, g, s)
      PROVE  P
  <2>1. pc[t] = "idle"
    BY <1>5 DEF AddGroup, DeleteGroup, AddSensorToGroup, DeleteSensor, Starts
  <2>2. AddGroup(t, g) => db' = [db EXCEPT !.group = db.group \cup {g}]
    BY <1>1 DEF AddGroup, Tables
  <2>3. db'.location = db.location
    <3>1. CASE AddGroup(t, g)
      BY <1>1, <2>2, <3>1, OtherLocations
    <3>2. CASE DeleteGroup(t, g) \/ DeleteSensor(t, g, s)
      BY <1>2, <3>2 DEF DeleteGroup, DeleteSensor
    <3>3. CASE AddSensorToGroup(t, g, s)
      BY <1>4, <3>3 DEF AddSensorToGroup
    <3> QED
      BY <1>5, <3>1, <3>2, <3>3
  <2> QED
    BY <1>3, <2>1, <2>3 DEF AdminLabels
<1>6. ASSUME NEW a, NEW g, NEW l, NEW shortcuts, AddSensor(t, a, g, l, shortcuts)
      PROVE  P
  <2>1. \E x, label, f : Execute(t, [db EXCEPT !.sensor = x], label, f)
    BY <1>6 DEF AddSensor
  <2> QED
    BY <1>1, <1>3, <1>6, <2>1, OtherLocations, ExecuteLocations DEF AddSensor, Starts, AdminLabels
<1>7. ASSUME NEW s, NEW a, NEW l, NEW shortcuts, UpdateSensor(t, s, a, l, shortcuts)
      PROVE  P
  <2>1. \E x, label, f : Execute(t, db, label, f) \/ Execute(t, [db EXCEPT !.sensor = x], label, f)
    BY <1>7 DEF UpdateSensor
  <2> QED
    BY <1>1, <1>3, <1>7, <2>1, OtherLocations, ExecuteLocations DEF UpdateSensor, Starts, AdminLabels
<1>8. ASSUME NEW l, DeleteLocation(t, l)
      PROVE  P
  BY <1>3, <1>8 DEF DeleteLocation, Starts, AdminLabels
<1>9. ASSUME LinkNewSensor(t) \/ NextSensor(t)
      PROVE  P
  BY <1>2, <1>3, <1>4, <1>9 DEF LinkNewSensor, NextSensor, AdminLabels
<1>10. ASSUME DeleteGroupRow(t) \/ DeleteRows(t) \/ DeleteMeasure(t) \/ DeleteSensorRow(t)
       PROVE  P
  <2>1. \E x, label, f : \/ Execute(t, [db EXCEPT !.group = x], label, f) \/ Execute(t, [db EXCEPT !.data = x], label, f)
                         \/ Execute(t, [db EXCEPT !.measure = x], label, f) \/ Execute(t, [db EXCEPT !.sensor = x], label, f)
    BY <1>10 DEF DeleteGroupRow, DeleteRows, DeleteMeasure, DeleteSensorRow
  <2>2. db'.location = db.location
    BY <1>1, <2>1, OtherLocations, ExecuteLocations
  <2> QED
    BY <1>3, <1>10, <2>2 DEF DeleteGroupRow, DeleteRows, DeleteMeasure, DeleteSensorRow, AdminLabels
<1>11. ASSUME InsertMeasure(t)
       PROVE  P
  <2>1. db' = db \/ \E x, label, f : Execute(t, [db EXCEPT !.measure = x], label, f)
    BY <1>11 DEF InsertMeasure
  <2>2. db'.location = db.location
    BY <1>1, <2>1, OtherLocations, ExecuteLocations
  <2> QED
    BY <1>3, <1>11, <2>2 DEF InsertMeasure, AdminLabels
<1>12. ASSUME RemoveMeasure(t) \/ DeleteClients(t)
       PROVE  P
  <2>1. \E x : db' = [db EXCEPT !.client = x]
    BY <1>12 DEF RemoveMeasure, DeleteClients
  <2> QED
    BY <1>1, <1>3, <1>12, <2>1, OtherLocations DEF RemoveMeasure, DeleteClients, AdminLabels
<1>13. ASSUME ClearLast(t)
       PROVE  P
  <2>1. db' = db \/ \E x : db' = [db EXCEPT !.measure = x]
    BY <1>13 DEF ClearLast, WithLast
  <2> QED
    BY <1>1, <1>3, <1>13, <2>1, OtherLocations DEF ClearLast, AdminLabels
<1>14. ASSUME CountGroups(t) \/ ListMeasures(t) \/ ReadLocation(t) \/ CompareMeasures(t) \/ FindObsolete(t)
       PROVE  P
  BY <1>3, <1>14 DEF CountGroups, ListMeasures, ReadLocation, CompareMeasures, FindObsolete, AdminLabels
<1>15. ASSUME CountSensors(t) \/ CountChildren(t) \/ GiveUp(t)
       PROVE  P
  BY <1>3, <1>15 DEF CountSensors, CountChildren, GiveUp, AdminLabels
<1>16. CASE DeleteLocationRow(t)
  <2> DEFINE x == Delete(db.location, {frame[t].location})
  <2>1. db' = db \/ db' = [db EXCEPT !.location = x]
    BY <1>1, <1>16 DEF DeleteLocationRow, Tables
  <2>2. [db EXCEPT !.location = x].location = x
    BY <1>1 DEF Tables
  <2> QED
    BY <1>3, <1>16, <2>1, <2>2 DEF DeleteLocationRow, AdminLabels
<1> DEFINE Q == Elsewhere(pc[t]) /\ (db'.location = db.location \/ \E l : db'.location = Delete(db.location, {l}))
<1>17. (P => Q) /\ (DeleteLocationRow(t) => Q)
  BY <1>16
<1> HIDE DEF P, Q
<1>18. Q
  BY <1>5, <1>6, <1>7, <1>8, <1>9, <1>10, <1>11, <1>12, <1>13, <1>14, <1>15, <1>17 DEF AdminCall
<1> QED
  BY <1>18 DEF Q

LEMMA Unmoved ==
    ASSUME TypeOK, NEW t \in Threads, Acts(t), Elsewhere(pc[t]), Elsewhere(pc'[t])
    PROVE  InLocations(pc') = InLocations(pc) /\ \A u \in InLocations(pc) : pc'[u] = pc[u] /\ frame'[u] = frame[u]
BY LocationAssumption DEF Acts, Elsewhere, InLocations

LEMMA LeavesAway ==
    ASSUME TypeOK, NEW t \in Threads, Acts(t), Elsewhere(pc[t]), Elsewhere(pc'[t]),
           db'.location = db.location \/ \E l : db'.location = Delete(db.location, {l})
    PROVE  Away
<1>1. /\ \A l \in DOMAIN db.location \cap DOMAIN db'.location : db'.location[l] = db.location[l]
      /\ DOMAIN db'.location \subseteq DOMAIN db.location
  <2>1. CASE db'.location = db.location
    BY <2>1
  <2>2. ASSUME NEW l, db'.location = Delete(db.location, {l})
        PROVE  /\ \A k \in DOMAIN db.location \cap DOMAIN db'.location : db'.location[k] = db.location[k]
               /\ DOMAIN db'.location \subseteq DOMAIN db.location
    BY <2>2 DEF Delete
  <2> QED
    BY <2>1, <2>2
<1> QED
  BY <1>1, Unmoved DEF Away

LEMMA OthersAway ==
    ASSUME Sound, \/ \E t \in ClientThreads : ClientCall(t)
                  \/ Telegram \/ Midnight
                  \/ \E t \in AdminThreads : AdminCall(t)
    PROVE  Away
<1>1. TypeOK
  BY DEF Sound
<1>2. \A label \in ClientLabels \cup AdminLabels : Elsewhere(label)
  BY DEF ClientLabels, AdminLabels, LocationLabels, Elsewhere
<1>3. ASSUME NEW t \in ClientThreads, ClientCall(t)
      PROVE  Away
  <2>1. t \in Threads
    BY MeasureThreads
  <2>2. Acts(t) /\ pc'[t] \in ClientLabels
    BY <1>1, <1>3, <2>1, ClientCallGoes, Going
  <2> QED
    BY <1>1, <1>2, <1>3, <2>1, <2>2, ClientCallElsewhere, LeavesAway
<1>4. CASE Telegram
  <2>1. Reader \in Threads
    BY MeasureThreads
  <2>2. Acts(Reader) /\ pc'[Reader] \in ClientLabels
    BY <1>1, <1>4, <2>1, TelegramGoes, Going
  <2> QED
    BY <1>1, <1>2, <1>4, <2>1, <2>2, TelegramElsewhere, LeavesAway
<1>5. CASE Midnight
  <2>1. PICK x : db' = [db EXCEPT !.data = x]
    BY <1>5 DEF Midnight
  <2>2. db'.location = db.location
    BY <1>1, <2>1, OtherLocations DEF TypeOK
  <2> QED
    BY <1>5, <2>2 DEF Midnight, Away, InLocations
<1>6. ASSUME NEW t \in AdminThreads, AdminCall(t)
      PROVE  Away
  <2>1. t \in Threads
    BY AdminAssumption
  <2>2. Elsewhere(pc[t]) /\ (db'.location = db.location \/ \E l : db'.location = Delete(db.location, {l}))
    BY <1>1, <1>6, <2>1, AdminCallElsewhere
  <2>3. Acts(t) /\ Elsewhere(pc'[t])
    <3>1. CASE GoesTo(t, AdminLabels)
      BY <1>1, <1>2, <2>1, <3>1, Going
    <3>2. CASE UNCHANGED <<pc, frame>>
      BY <2>2, <3>2 DEF Acts
    <3> QED
      BY <1>1, <1>6, <2>1, <3>1, <3>2, AdminCallGoes
  <2> QED
    BY <1>1, <2>1, <2>2, <2>3, LeavesAway
<1> QED
  BY <1>3, <1>4, <1>5, <1>6

-----------------------------------------------------------------------------
(* The calls at the locations. *)

Place(t, label, f) == Acts(t) /\ pc'[t] = label /\ frame'[t] = f

LEMMA GotoPlace ==
    ASSUME TypeOK, NEW t \in Threads, NEW label, NEW f, Goto(t, label, f)
    PROVE  Place(t, label, f)
BY GotoMoves DEF Place, Moves, Acts

LEMMA MovesAlone ==
    ASSUME TypeOK, NEW t \in LocationThreads, Acts(t)
    PROVE  /\ \A u \in InLocations(pc) \ {t} : u \in InLocations(pc') /\ pc'[u] = pc[u] /\ frame'[u] = frame[u]
           /\ pc'[t] \in LocationLabels => InLocations(pc') = InLocations(pc) \cup {t}
           /\ pc'[t] \notin LocationLabels => InLocations(pc') = InLocations(pc) \ {t}
           /\ IsFiniteSet(InLocations(pc)) => IsFiniteSet(InLocations(pc'))
           /\ Others(pc, frame, pc', frame', t)
<1>1. \A u \in LocationThreads \ {t} : pc'[u] = pc[u] /\ frame'[u] = frame[u]
  BY LocationAssumption DEF Acts
<1>2. /\ pc'[t] \in LocationLabels => InLocations(pc') = InLocations(pc) \cup {t}
      /\ pc'[t] \notin LocationLabels => InLocations(pc') = InLocations(pc) \ {t}
  BY <1>1 DEF InLocations
<1>3. IsFiniteSet(InLocations(pc)) => IsFiniteSet(InLocations(pc'))
  <2> HIDE DEF InLocations
  <2> QED
    BY <1>2, FS_AddElement, FS_RemoveElement
<1>4. \A u \in InLocations(pc) \ {t} : u \in InLocations(pc') /\ pc'[u] = pc[u] /\ frame'[u] = frame[u]
  BY <1>1 DEF InLocations
<1> QED
  BY <1>2, <1>3, <1>4 DEF Others

LEMMA StaysAway ==
    ASSUME Sound, NEW t \in LocationThreads,
           \/ \E name \in Names : AddRoot(t, name)
           \/ GiveUp(t)
           \/ pc[t] = "idle" /\ db' = db /\ Goto(t, "failed", frame[t])
    PROVE  Away
<1>1. t \in Threads /\ TypeOK
  BY LocationAssumption DEF Sound
<1>2. ASSUME NEW name \in Names, AddRoot(t, name)
      PROVE  Away
  <2> DEFINE fresh == FreshKeys(Locations, db.location, HeldLocations)
             row == [parent |-> None, name |-> name, path |-> None]
  <2>1. /\ db' = [db EXCEPT !.location = Insert(db.location, NewKey(fresh), row)]
        /\ NewKey(fresh) \notin DOMAIN db.location \cup HeldLocations /\ UNCHANGED <<pc, frame>>
    BY <1>1, <1>2, NewKeyType DEF AddRoot, FreshKeys, TypeOK, Tables
  <2> HIDE DEF fresh
  <2>2. db'.location = Insert(db.location, NewKey(fresh), row) /\ row.parent = None
    BY <1>1, <2>1 DEF TypeOK, Tables
  <2> HIDE DEF row
  <2>3. /\ DOMAIN db'.location = DOMAIN db.location \cup {NewKey(fresh)}
        /\ \A l \in DOMAIN db.location : db'.location[l] = db.location[l]
        /\ db'.location[NewKey(fresh)].parent = None
    BY <2>1, <2>2 DEF Insert
  <2> QED
    BY <2>1, <2>3 DEF Away, InLocations
<1>3. ASSUME NEW label \in {"idle", "failed"}, NEW f, Goto(t, label, f), Elsewhere(pc[t]), db' = db
      PROVE  Away
  <2>1. Acts(t) /\ pc'[t] = label
    BY <1>1, <1>3, GotoPlace DEF Place
  <2> QED
    BY <1>1, <1>3, <2>1, LeavesAway DEF Elsewhere, LocationLabels
<1>4. CASE GiveUp(t)
  BY <1>3, <1>4 DEF GiveUp, End, Elsewhere, LocationLabels
<1>5. CASE pc[t] = "idle" /\ db' = db /\ Goto(t, "failed", frame[t])
  BY <1>3, <1>5 DEF Elsewhere, LocationLabels
<1> QED
  BY <1>2, <1>4, <1>5

\* Records: what the history of the step tells of the threads at the locations.
AloneRenames ==
    \A u \in InLocations(pc') :
        frame'[u].op = "updateLocation" /\ ~overlapped' => InLocations(pc') = {u}

LEMMA RenamesAlone ==
    ASSUME Record, IsFiniteSet(InLocations(pc'))
    PROVE  Remembered /\ AloneRenames /\ (InLocations(pc') # {} /\ ~overlapped' => ~overlapped)
BY RecordsOverlap, LocationAssumption DEF AloneRenames, InLocations

LEMMA AddLocationKeeps ==
    ASSUME Sound, Sound', Places, Record, NEW t \in LocationThreads, pc[t] = "idle",
           NEW n \in Locations, n \notin DOMAIN db.location \cup HeldLocations,
           NEW row, row.parent \in Locations \ {n},
           db' = [db EXCEPT !.location = Insert(db.location, n, row)],
           NEW f, Goto(t, "findPath", f), f.op = "addLocation", f.pending = <<n>>
    PROVE  Places'
<1> DEFINE T == db.location
           T2 == db'.location
<1>1. t \in Threads /\ TypeOK /\ Place(t, "findPath", f) /\ t \notin InLocations(pc)
  BY GotoPlace, LocationAssumption DEF Sound, InLocations, LocationLabels
<1>2. T2 = Insert(T, n, row)
  BY <1>1 DEF TypeOK, Tables
<1>3. /\ DOMAIN T2 = DOMAIN T \cup {n} /\ T2[n] = row /\ \A l \in DOMAIN T : T2[l] = T[l]
  BY <1>2 DEF Insert
<1>4. SameRows(T, T2)
  BY <1>3, Trees DEF SameRows
<1>5. /\ InLocations(pc') = InLocations(pc) \cup {t} /\ IsFiniteSet(InLocations(pc'))
      /\ \A u \in InLocations(pc) : u # t /\ u \in InLocations(pc') /\ pc'[u] = pc[u] /\ frame'[u] = frame[u]
  BY <1>1, MovesAlone DEF Place, LocationLabels, Places
<1>6. Remembered /\ AloneRenames /\ (~overlapped' => ~overlapped)
  BY <1>5, RenamesAlone
<1>7. Range(f.pending) = {n} /\ Len(f.pending) =< 1
  BY DEF Range
<1>8. pc'[t] = "findPath" /\ frame'[t] = f
  BY <1>1 DEF Place
<1>9. Written'
  <2> SUFFICES ASSUME NEW l \in DOMAIN T2, T2[l].parent # None, T2[l].path = None
               PROVE  \E u \in InLocations(pc') : frame'[u].op # "updateLocation" /\ l \in Range(frame'[u].pending)
    BY DEF Written
  <2>1. CASE l = n
    BY <1>5, <1>7, <1>8, <2>1
  <2>2. CASE l # n
    <3>1. l \in DOMAIN T /\ T[l].parent # None /\ T[l].path = None
      BY <1>3, <2>2
    <3>2. PICK u \in InLocations(pc) : frame[u].op # "updateLocation" /\ l \in Range(frame[u].pending)
      BY <3>1 DEF Places, Written
    <3> QED
      BY <1>5, <3>2
  <2> QED
    BY <2>1, <2>2
<1>10. AddsOne'
  <2>1. ASSUME NEW u \in InLocations(pc'), frame'[u].op # "updateLocation"
        PROVE  pc'[u] # "listChildren" /\ Len(frame'[u].pending) =< 1
    <3>1. CASE u = t
      BY <1>7, <1>8, <3>1
    <3>2. CASE u # t
      <4>1. u \in InLocations(pc) /\ pc'[u] = pc[u] /\ frame'[u] = frame[u]
        BY <1>5, <3>2
      <4>2. AddsOne
        BY DEF Places
      <4>3. pc[u] # "listChildren" /\ Len(frame[u].pending) =< 1
        BY <2>1, <4>1, <4>2 DEF AddsOne
      <4> QED
        BY <4>1, <4>3
    <3> QED
      BY <3>1, <3>2
  <2> QED
    BY <2>1 DEF AddsOne
<1>11. \A l \in DOMAIN T2 \ DOMAIN T : l = n /\ T2[l].parent \in DOMAIN T
  <2>1. T2[n].parent \in {None} \cup DOMAIN T2 /\ T2[n].parent # None /\ T2[n].parent # n
    BY <1>3, <1>4, TablesAssumption DEF SameRows, Tree
  <2> QED
    BY <1>3, <2>1
<1>12. \A u \in InLocations(pc) : \A q \in Range(frame[u].pending) : q \in DOMAIN T2 => q \in DOMAIN T
  BY <1>3, SearchTypes
<1> HIDE DEF T, T2
<1>13. ASSUME ~overlapped'
       PROVE  Adding(T2, pc', frame')
  <2>1. Known(T, pc, frame)
    BY <1>6, <1>13 DEF Places, T
  <2>2. ~RenamingAlone(T, pc, frame)
    <3> SUFFICES ASSUME NEW u \in InLocations(pc), frame[u].op = "updateLocation"
                 PROVE  FALSE
      BY DEF RenamingAlone
    <3>1. InLocations(pc') = {u}
      BY <1>5, <1>6, <1>13 DEF AloneRenames
    <3> QED
      BY <1>5, <3>1
  <2>3. Adding(T, pc, frame)
    BY <2>1, <2>2 DEF Known
  <2>4. \A u \in InLocations(pc') \ InLocations(pc) : pc'[u] = "findPath" /\ frame'[u].op # "updateLocation"
    BY <1>5, <1>8
  <2>5. \A l \in DOMAIN T2 \ DOMAIN T : \E u \in InLocations(pc') : l \in Range(frame'[u].pending)
    BY <1>5, <1>7, <1>8, <1>11
  <2> QED
    BY <1>4, <1>5, <1>11, <1>12, <2>3, <2>4, <2>5, SearchTypes, AddingGoesOn
<1> QED
  BY <1>5, <1>9, <1>10, <1>13 DEF Places, Known, T2

\* Rows without a path are still in the hands of those who have added them.
LEMMA WrittenStays ==
    ASSUME Written,
           \A l \in DOMAIN db'.location : db'.location[l].parent # None /\ db'.location[l].path = None
                => l \in DOMAIN db.location /\ db.location[l].parent # None /\ db.location[l].path = None,
           \A u \in InLocations(pc) :
                \/ frame[u].op = "updateLocation" \/ frame[u].pending = <<>>
                \/ u \in InLocations(pc') /\ frame'[u].op = frame[u].op /\ frame'[u].pending = frame[u].pending
    PROVE  Written'
<1> SUFFICES ASSUME NEW l \in DOMAIN db'.location, db'.location[l].parent # None, db'.location[l].path = None
             PROVE  \E u \in InLocations(pc') : frame'[u].op # "updateLocation" /\ l \in Range(frame'[u].pending)
  BY DEF Written
<1>1. PICK u \in InLocations(pc) : frame[u].op # "updateLocation" /\ l \in Range(frame[u].pending)
  BY DEF Written
<1>2. frame[u].pending # <<>>
  BY <1>1 DEF Range
<1> QED
  BY <1>1, <1>2

LEMMA UpdateLocationKeeps ==
    ASSUME Sound, Sound', Places, Record, NEW t \in LocationThreads, NEW l \in Locations, NEW name \in Names,
           UpdateLocation(t, l, name)
    PROVE  Places'
<1> DEFINE T == db.location
           T2 == db'.location
           f == [NoFrame EXCEPT !.op = "updateLocation", !.location = l]
<1>1. t \in Threads /\ TypeOK /\ pc[t] = "idle" /\ l \in DOMAIN T /\ t \notin InLocations(pc)
  BY LocationAssumption DEF Sound, UpdateLocation, Starts, InLocations, LocationLabels
<1>2. Place(t, "listChildren", f) /\ f.op = "updateLocation" /\ f.location = l /\ f.pending = <<>>
  BY <1>1, GotoPlace DEF UpdateLocation, NoFrame
<1>3. db' = [db EXCEPT !.location[l].name = name] /\ T2 = [T EXCEPT ![l].name = name]
  BY <1>1 DEF UpdateLocation, TypeOK, Tables
<1>4. Tree(T) /\ Tree(T2)
  BY Trees
<1>5. /\ DOMAIN T2 = DOMAIN T
      /\ \A k \in DOMAIN T : T2[k].parent = T[k].parent /\ T2[k].path = T[k].path
  BY <1>1, <1>3, <1>4, RowType DEF LocationRow
<1> HIDE DEF f, T, T2
<1>6. /\ InLocations(pc') = InLocations(pc) \cup {t} /\ IsFiniteSet(InLocations(pc'))
      /\ \A u \in InLocations(pc) : u # t /\ u \in InLocations(pc') /\ pc'[u] = pc[u] /\ frame'[u] = frame[u]
      /\ pc'[t] = "listChildren" /\ frame'[t] = f
  BY <1>1, <1>2, MovesAlone DEF Place, LocationLabels, Places
<1>7. Remembered /\ AloneRenames /\ (~overlapped' => ~overlapped)
  BY <1>6, RenamesAlone
<1>8. Written'
  BY <1>5, <1>6, WrittenStays DEF Places, T, T2
<1>9. AddsOne'
  <2>1. ASSUME NEW u \in InLocations(pc'), frame'[u].op # "updateLocation"
        PROVE  pc'[u] # "listChildren" /\ Len(frame'[u].pending) =< 1
    <3>1. u \in InLocations(pc) /\ pc'[u] = pc[u] /\ frame'[u] = frame[u]
      BY <1>2, <1>6, <2>1
    <3>2. AddsOne
      BY DEF Places
    <3>3. pc[u] # "listChildren" /\ Len(frame[u].pending) =< 1
      BY <2>1, <3>1, <3>2 DEF AddsOne
    <3> QED
      BY <3>1, <3>3
  <2> QED
    BY <2>1 DEF AddsOne
<1>10. ASSUME ~overlapped'
       PROVE  RenamingAlone(T2, pc', frame')
  <2>1. InLocations(pc') = {t}
    BY <1>2, <1>6, <1>7, <1>10 DEF AloneRenames
  <2>2. InLocations(pc) = {}
    BY <1>6, <2>1
  <2>3. Adding(T, pc, frame)
    BY <1>7, <1>10, <2>2 DEF Places, Known, RenamingAlone, T
  <2>4. PathsUpTo(T, DOMAIN T, Stored(T))
    BY <1>4, <2>2, <2>3, AddingEnds
  <2>5. Renaming([T EXCEPT ![l].name = name], "listChildren", f)
    BY <1>1, <1>2, <1>4, <2>4, RenamingBegins DEF T
  <2> QED
    BY <1>2, <1>3, <1>6, <2>1, <2>5 DEF RenamingAlone
<1> QED
  BY <1>6, <1>8, <1>9, <1>10 DEF Places, Known, T2

LEMMA ListChildrenKeeps ==
    ASSUME Sound, Sound', Places, Record, NEW t \in LocationThreads, ListChildren(t)
    PROVE  Places'
<1> DEFINE T == db.location
           f == frame[t]
           g == [f EXCEPT !.location = None, !.pending = SetToSeq(Children(f.location)) \o @]
<1>1. t \in Threads /\ TypeOK /\ pc[t] = "listChildren" /\ t \in InLocations(pc) /\ db' = db
  BY LocationAssumption DEF Sound, ListChildren, InLocations, LocationLabels
<1>2. f \in Frame /\ f.pending \in Seq(Locations)
  BY <1>1, SearchTypes
<1>3. Place(t, "findPath", g)
  BY <1>1, GotoPlace DEF ListChildren
<1>4. g.op = f.op /\ g.pending = SetToSeq(Below(T, f.location)) \o f.pending
  BY <1>2 DEF Frame, Children, Below
<1>5. f.op = "updateLocation"
  BY <1>1 DEF Places, AddsOne
<1>6. Tree(T)
  BY Trees
<1> HIDE DEF f, g, T
<1>7. /\ InLocations(pc') = InLocations(pc) /\ IsFiniteSet(InLocations(pc'))
      /\ \A u \in InLocations(pc) \ {t} : pc'[u] = pc[u] /\ frame'[u] = frame[u]
      /\ pc'[t] = "findPath" /\ frame'[t] = g
  <2>1. pc'[t] \in LocationLabels /\ Acts(t)
    BY <1>3 DEF Place, LocationLabels
  <2>2. IsFiniteSet(InLocations(pc))
    BY DEF Places
  <2> QED
    BY <1>1, <1>3, <2>1, <2>2, MovesAlone DEF Place
<1>8. Remembered /\ AloneRenames /\ (~overlapped' => ~overlapped)
  BY <1>1, <1>7, RenamesAlone
<1>9. Written'
  <2>1. Written
    BY DEF Places
  <2> QED
    BY <1>1, <1>5, <1>7, <2>1, WrittenStays DEF f
<1>10. AddsOne'
  <2>1. AddsOne
    BY DEF Places
  <2> QED
    BY <1>4, <1>5, <1>7, <2>1 DEF AddsOne
<1>11. ASSUME ~overlapped'
       PROVE  RenamingAlone(T, pc', frame')
  <2>1. RenamingAlone(T, pc, frame)
    BY <1>1, <1>5, <1>8, <1>11 DEF Places, Known, Adding, T, f
  <2>2. InLocations(pc) = {t} /\ Renaming(T, "listChildren", f)
    BY <1>1, <2>1 DEF RenamingAlone, f
  <2>3. Renaming(T, "findPath", g)
    BY <1>2, <1>4, <1>6, <2>2, RenamingLists
  <2> QED
    BY <1>4, <1>5, <1>7, <2>2, <2>3 DEF RenamingAlone
<1> QED
  BY <1>1, <1>7, <1>9, <1>10, <1>11 DEF Places, Known, T

\* The steps towards the root change no row.
LEMMA WalkKeeps ==
    ASSUME Sound, Sound', Places, Record, NEW t \in LocationThreads, t \in InLocations(pc), db' = db,
           NEW label \in {"readName", "writePath"}, NEW g, Goto(t, label, g),
           g.op = frame[t].op, g.pending = frame[t].pending,
           \A G : PathsUpTo(db.location, DOMAIN db.location, G) /\ Walk(db.location, G, pc[t], frame[t])
                    => Walk(db.location, G, label, g),
           Renaming(db.location, pc[t], frame[t]) => Renaming(db.location, label, g)
    PROVE  Places'
<1> DEFINE T == db.location
<1>1. t \in Threads /\ TypeOK
  BY LocationAssumption DEF Sound
<1>2. /\ InLocations(pc') = InLocations(pc) /\ IsFiniteSet(InLocations(pc'))
      /\ \A u \in InLocations(pc) \ {t} : pc'[u] = pc[u] /\ frame'[u] = frame[u]
      /\ pc'[t] = label /\ frame'[t] = g
  <2>1. Place(t, label, g) /\ pc'[t] \in LocationLabels /\ Acts(t)
    BY <1>1, GotoPlace DEF Place, LocationLabels
  <2>2. IsFiniteSet(InLocations(pc))
    BY DEF Places
  <2> QED
    BY <1>1, <2>1, <2>2, MovesAlone DEF Place
<1>3. ~overlapped' => ~overlapped
  BY <1>2, RenamesAlone
<1>4. Written'
  <2>1. Written
    BY DEF Places
  <2> QED
    BY <1>2, <2>1, WrittenStays
<1>5. AddsOne'
  <2>1. AddsOne /\ label # "listChildren"
    BY DEF Places
  <2> QED
    BY <1>2, <2>1 DEF AddsOne
<1>6. Others(pc, frame, pc', frame', t)
  BY <1>2 DEF Others
<1> HIDE DEF T
<1>7. ASSUME ~overlapped'
      PROVE  Known(T, pc', frame')
  <2>1. CASE RenamingAlone(T, pc, frame)
    <3>1. InLocations(pc) = {t} /\ frame[t].op = "updateLocation" /\ Renaming(T, pc[t], frame[t])
      BY <2>1 DEF RenamingAlone
    <3>2. RenamingAlone(T, pc', frame')
      BY <1>2, <3>1 DEF RenamingAlone, T
    <3> QED
      BY <3>2 DEF Known
  <2>2. CASE Adding(T, pc, frame)
    <3>1. Adding(T, pc', frame')
      BY <1>2, <1>6, <2>2, AddingMoves DEF T
    <3> QED
      BY <3>1 DEF Known
  <2> QED
    BY <1>3, <1>7, <2>1, <2>2 DEF Places, Known, T
<1> QED
  BY <1>2, <1>4, <1>5, <1>7 DEF Places, T

LEMMA ParentIn ==
    ASSUME Tree(db.location), NEW l
    PROVE  /\ ParentOf(l) = IF l \in DOMAIN db.location THEN db.location[l].parent ELSE None
           /\ l \in DOMAIN db.location => ParentOf(l) \in DOMAIN db.location \cup {None}
BY DEF ParentOf, Tree

LEMMA FindPathKeeps ==
    ASSUME Sound, Sound', Places, Record, NEW t \in LocationThreads, pc[t] = "findPath", db' = db,
           frame[t].pending # <<>>, FindPath(t, Head(frame[t].pending), frame[t])
    PROVE  Places'
<1> DEFINE T == db.location
           f == frame[t]
           g == [f EXCEPT !.location = ParentOf(Head(f.pending)), !.path = <<>>]
<1>1. t \in InLocations(pc) /\ Tree(T)
  BY Trees DEF InLocations, LocationLabels
<1>2. f \in Frame /\ f.pending \in Seq(Locations)
  BY <1>1, SearchTypes
<1>3. Goto(t, "readName", g)
  BY DEF FindPath
<1>4. g.op = f.op /\ g.pending = f.pending /\ g.path = <<>> /\ g.location = ParentOf(Head(f.pending))
  BY <1>2 DEF Frame
<1> HIDE DEF f, g, T
<1>5. ASSUME NEW G, PathsUpTo(T, DOMAIN T, G)
      PROVE  Walk(T, G, "readName", g)
  BY <1>1, <1>4, <1>5, ParentIn, WalkBegins DEF T
<1>6. Renaming(T, "findPath", f) => Renaming(T, "readName", g)
  BY <1>1, <1>2, <1>4, ParentIn, RenamingFinds DEF T, f
<1> QED
  BY <1>1, <1>3, <1>4, <1>5, <1>6, WalkKeeps DEF T, f

LEMMA ReadNameKeeps ==
    ASSUME Sound, Sound', Places, Record, NEW t \in LocationThreads, ReadName(t)
    PROVE  Places'
<1> DEFINE T == db.location
           f == frame[t]
           l == f.location
           g == [f EXCEPT !.location = ParentOf(l), !.path = Append(@, db.location[l].name)]
<1>1. t \in InLocations(pc) /\ Tree(T) /\ pc[t] = "readName" /\ db' = db
  BY Trees DEF InLocations, LocationLabels, ReadName
<1>2. /\ f \in Frame /\ f.pending \in Seq(Locations) /\ f.pending # <<>> /\ f.path \in Seq(Names)
      /\ g.op = f.op /\ g.pending = f.pending /\ g.location = ParentOf(l) /\ g.path = Append(f.path, T[l].name)
  BY <1>1, SearchTypes DEF Frame, Searches
<1>3. IF l \in DOMAIN T THEN Goto(t, "readName", g) ELSE Goto(t, "writePath", f)
  BY DEF ReadName
<1> HIDE DEF f, g, T, l
<1>4. CASE l \in DOMAIN T
  <2>1. g.location = T[l].parent
    BY <1>1, <1>2, <1>4, ParentIn DEF T
  <2>2. ASSUME NEW G, PathsUpTo(T, DOMAIN T, G), Walk(T, G, "readName", f)
        PROVE  Walk(T, G, "readName", g)
    <3>1. Head(f.pending) \in DOMAIN T => T[Head(f.pending)].parent \in DOMAIN T \cup {None}
      BY <1>1 DEF Tree
    <3> QED
      BY <1>1, <1>2, <1>4, <2>1, <2>2, <3>1, WalkGoesOn DEF l
  <2>3. Renaming(T, "readName", f) => Renaming(T, "readName", g)
    BY <1>1, <1>2, <1>4, <2>1, RenamingReads DEF l
  <2> QED
    BY <1>1, <1>2, <1>3, <1>4, <2>2, <2>3, WalkKeeps DEF T, f
<1>5. CASE l \notin DOMAIN T
  <2>1. ASSUME NEW G, PathsUpTo(T, DOMAIN T, G), Walk(T, G, "readName", f)
        PROVE  Walk(T, G, "writePath", f)
    BY <1>1, <1>2, <1>5, <2>1, WalkEnds DEF l
  <2>2. Renaming(T, "readName", f) => Renaming(T, "writePath", f)
    BY <1>1, <1>2, <1>5, RenamingAtRoot DEF l
  <2> QED
    BY <1>1, <1>2, <1>3, <1>5, <2>1, <2>2, WalkKeeps DEF T, f
<1> QED
  BY <1>4, <1>5

\* A thread goes; those that stay are where they were.
LEMMA Leaving ==
    ASSUME Sound, Places, NEW t \in LocationThreads, t \in InLocations(pc), End(t)
    PROVE  /\ InLocations(pc') = InLocations(pc) \ {t} /\ IsFiniteSet(InLocations(pc'))
           /\ Others(pc, frame, pc', frame', t)
           /\ AddsOne'
<1>1. t \in Threads /\ TypeOK
  BY LocationAssumption DEF Sound
<1>2. Place(t, "idle", NoFrame)
  BY <1>1, GotoPlace DEF End
<1>3. pc'[t] \notin LocationLabels /\ Acts(t)
  BY <1>2 DEF Place, LocationLabels
<1>4. IsFiniteSet(InLocations(pc)) /\ AddsOne
  BY DEF Places
<1>5. /\ InLocations(pc') = InLocations(pc) \ {t} /\ IsFiniteSet(InLocations(pc'))
      /\ Others(pc, frame, pc', frame', t)
  BY <1>1, <1>3, <1>4, MovesAlone
<1>6. AddsOne'
  BY <1>4, <1>5 DEF AddsOne, Others
<1> QED
  BY <1>5, <1>6

LEMMA SearchEndKeeps ==
    ASSUME Sound, Sound', Places, Record, NEW t \in LocationThreads, pc[t] = "findPath", db' = db,
           frame[t].pending = <<>>, End(t)
    PROVE  Places'
<1> DEFINE T == db.location
<1>1. t \in InLocations(pc) /\ Tree(T)
  BY Trees DEF InLocations, LocationLabels
<1>2. /\ InLocations(pc') = InLocations(pc) \ {t} /\ IsFiniteSet(InLocations(pc'))
      /\ Others(pc, frame, pc', frame', t) /\ AddsOne'
  BY <1>1, Leaving
<1>3. Remembered
  BY <1>2, RenamesAlone
<1>4. Written'
  <2>1. Written
    BY DEF Places
  <2>2. \A u \in InLocations(pc) :
            \/ frame[u].pending = <<>>
            \/ u \in InLocations(pc') /\ frame'[u].op = frame[u].op /\ frame'[u].pending = frame[u].pending
    BY <1>2 DEF Others
  <2> QED
    BY <2>1, <2>2, WrittenStays
<1> HIDE DEF T
<1>5. ASSUME Known(T, pc, frame)
      PROVE  Known(T, pc', frame')
  <2>1. CASE RenamingAlone(T, pc, frame)
    <3>1. InLocations(pc) = {t} /\ Renaming(T, "findPath", frame[t])
      BY <1>1, <2>1 DEF RenamingAlone
    <3>2. PathsOf(T) /\ InLocations(pc') = {}
      BY <1>2, <3>1, RenamingEnds
    <3> QED
      BY <1>4, <3>2, StartsAgain DEF T
  <2>2. CASE Adding(T, pc, frame)
    <3>1. Adding(T, pc', frame')
      BY <1>1, <1>2, <2>2, AddingLeaves
    <3> QED
      BY <3>1 DEF Known
  <2> QED
    BY <1>5, <2>1, <2>2 DEF Known
<1>6. ~overlapped' => Known(T, pc', frame')
  BY <1>3, <1>4, <1>5, StartsAgain DEF Remembered, Places, T
<1> QED
  BY <1>2, <1>4, <1>6 DEF Places, T

LEMMA PathRow ==
    ASSUME Sound, NEW t \in InLocations(pc), pc[t] = "writePath", WritePath(t)
    PROVE  LET T == db.location
               k == Head(frame[t].pending)
           IN  IF k \in DOMAIN T THEN HasPath(T, db'.location, k, frame[t].path) ELSE db'.location = T
<1> DEFINE T == db.location
           f == frame[t]
           k == Head(f.pending)
           path == f.path
<1>1. Tree(T) /\ path \in Seq(Names)
  BY Trees, SearchTypes
<1>2. Tables(db)
  BY DEF Sound, TypeOK
<1>3. CASE k \in DOMAIN T
  <2>1. db' = [db EXCEPT !.location[k].path = path]
    BY <1>3 DEF WritePath
  <2>2. db'.location = [T EXCEPT ![k].path = path]
    BY <1>2, <2>1 DEF Tables
  <2> HIDE DEF T, k, path
  <2>3. HasPath(T, db'.location, k, path)
    BY <1>1, <1>3, <2>2, PathWritten
  <2> QED
    BY <1>3, <2>3 DEF T, k, path, f
<1>4. CASE k \notin DOMAIN T
  BY <1>4 DEF WritePath
<1> QED
  BY <1>3, <1>4

LEMMA WritePathKeeps ==
    ASSUME Sound, Sound', Places, Record, NEW t \in LocationThreads, WritePath(t)
    PROVE  Places'
<1> DEFINE T == db.location
           T2 == db'.location
           f == frame[t]
           k == Head(f.pending)
           rest == [f EXCEPT !.pending = Tail(@), !.path = <<>>, !.location = None]
           g == [rest EXCEPT !.location = k]
<1>1. t \in InLocations(pc) /\ Tree(T) /\ pc[t] = "writePath" /\ t \in Threads /\ TypeOK
  BY Trees, LocationAssumption DEF InLocations, LocationLabels, WritePath, Sound
<1>2. /\ f \in Frame /\ f.pending \in Seq(Locations) /\ f.pending # <<>> /\ f.path \in Seq(Names)
  BY <1>1, SearchTypes DEF Searches
<1>3. g.op = f.op /\ g.pending = Tail(f.pending) /\ g.location = k
  BY <1>2 DEF Frame
<1>4. IF k \in DOMAIN T THEN HasPath(T, T2, k, f.path) ELSE T2 = T
  BY <1>1, PathRow
<1>5. IF f.op = "updateLocation" THEN Goto(t, "listChildren", g) ELSE End(t)
  BY DEF WritePath
<1> HIDE DEF f, g, T, T2, k, rest
<1>6. /\ DOMAIN T2 = DOMAIN T
      /\ \A l \in DOMAIN T2 : T2[l].parent # None /\ T2[l].path = None
            => l \in DOMAIN T /\ T[l].parent # None /\ T[l].path = None /\ l # k
  <2>1. CASE k \in DOMAIN T
    BY <1>2, <1>4, <2>1, TablesAssumption DEF HasPath
  <2>2. CASE k \notin DOMAIN T
    BY <1>4, <2>2
  <2> QED
    BY <2>1, <2>2
<1>7. CASE f.op = "updateLocation"
  <2>1. /\ InLocations(pc') = InLocations(pc) /\ IsFiniteSet(InLocations(pc'))
        /\ \A u \in InLocations(pc) \ {t} : pc'[u] = pc[u] /\ frame'[u] = frame[u]
        /\ pc'[t] = "listChildren" /\ frame'[t] = g
    <3>1. Place(t, "listChildren", g) /\ pc'[t] \in LocationLabels /\ Acts(t)
      BY <1>1, <1>5, <1>7, GotoPlace DEF Place, LocationLabels
    <3>2. IsFiniteSet(InLocations(pc))
      BY DEF Places
    <3> QED
      BY <1>1, <3>1, <3>2, MovesAlone DEF Place
  <2>2. ~overlapped' => ~overlapped
    BY <1>1, <2>1, RenamesAlone
  <2>3. Written'
    <3>1. Written
      BY DEF Places
    <3> QED
      BY <1>6, <1>7, <2>1, <3>1, WrittenStays DEF T, T2, f
  <2>4. AddsOne'
    <3>1. AddsOne
      BY DEF Places
    <3> QED
      BY <1>3, <1>7, <2>1, <3>1 DEF AddsOne
  <2>5. ASSUME ~overlapped'
        PROVE  RenamingAlone(T2, pc', frame')
    <3>1. RenamingAlone(T, pc, frame)
      BY <1>1, <1>7, <2>2, <2>5 DEF Places, Known, Adding, T, f
    <3>2. InLocations(pc) = {t} /\ Renaming(T, "writePath", f)
      BY <1>1, <3>1 DEF RenamingAlone, f
    <3>3. Renaming(T2, "listChildren", g)
      BY <1>1, <1>2, <1>3, <1>4, <3>2, RenamingWrites DEF k
    <3> QED
      BY <1>3, <1>7, <2>1, <3>2, <3>3 DEF RenamingAlone
  <2> QED
    BY <2>1, <2>3, <2>4, <2>5 DEF Places, Known, T2
<1>8. CASE f.op # "updateLocation"
  <2>1. /\ InLocations(pc') = InLocations(pc) \ {t} /\ IsFiniteSet(InLocations(pc'))
        /\ Others(pc, frame, pc', frame', t) /\ AddsOne'
    BY <1>1, <1>5, <1>8, Leaving
  <2>2. Range(f.pending) = {k}
    <3>1. Len(f.pending) =< 1
      BY <1>1, <1>8 DEF Places, AddsOne, f
    <3> QED
      BY <1>2, <3>1, RangeOfTail DEF k
  <2>3. Written'
    <3> SUFFICES ASSUME NEW l \in DOMAIN T2, T2[l].parent # None, T2[l].path = None
                 PROVE  \E u \in InLocations(pc') : frame'[u].op # "updateLocation" /\ l \in Range(frame'[u].pending)
      BY DEF Written, T2
    <3>1. l \in DOMAIN T /\ T[l].parent # None /\ T[l].path = None /\ l # k
      BY <1>6
    <3>2. PICK u \in InLocations(pc) : frame[u].op # "updateLocation" /\ l \in Range(frame[u].pending)
      BY <3>1 DEF Places, Written, T
    <3>3. u # t
      BY <2>2, <3>1, <3>2 DEF f
    <3> QED
      BY <2>1, <3>2, <3>3 DEF Others
  <2>4. Remembered
    BY <2>1, RenamesAlone
  <2>5. ASSUME Known(T, pc, frame)
        PROVE  Adding(T2, pc', frame')
    <3>1. Adding(T, pc, frame)
      BY <1>1, <1>8, <2>5 DEF Known, RenamingAlone, f
    <3> QED
      BY <1>1, <1>4, <2>1, <2>2, <3>1, AddingWrites DEF k, f
  <2>6. ~overlapped' => Known(T2, pc', frame')
    <3>1. CASE ~overlapped
      BY <2>5, <3>1 DEF Places, Known, T
    <3>2. CASE InLocations(pc') = {} /\ PathsOf(T2)
      BY <2>3, <3>2, StartsAgain DEF T2
    <3> QED
      BY <2>4, <3>1, <3>2 DEF Remembered, T2
  <2> QED
    BY <2>1, <2>3, <2>6 DEF Places, T2
<1> QED
  BY <1>7, <1>8

LEMMA LocationCallKeeps ==
    ASSUME Sound, Sound', Places, Record, NEW t \in LocationThreads, LocationCall(t)
    PROVE  Places'
<1>1. IsFiniteSet(InLocations(pc)) /\ TypeOK /\ Tables(db)
  BY DEF Places, Sound, TypeOK
<1>2. Away => Places'
  BY RecordsOverlap, AwayKeeps
<1>3. ASSUME NEW parent \in Locations, NEW name \in Names, AddLocation(t, parent, name)
      PROVE  Places'
  <2> DEFINE fresh == FreshKeys(Locations, db.location, HeldLocations)
             n == NewKey(fresh)
             row == [parent |-> parent, name |-> name, path |-> None]
             result == [db EXCEPT !.location = Insert(@, n, row)]
             f == [NoFrame EXCEPT !.op = "addLocation", !.pending = <<n>>]
  <2>1. /\ pc[t] = "idle" /\ fresh # {} /\ parent # n
        /\ Execute(t, result, "findPath", f)
    BY <1>3 DEF AddLocation, Starts
  <2>2. n \in Locations /\ n \notin DOMAIN db.location \cup HeldLocations
    BY <2>1, NewKeyType DEF FreshKeys
  <2>3. f.op = "addLocation" /\ f.pending = <<n>> /\ row.parent \in Locations \ {n}
    BY <2>1 DEF NoFrame
  <2>4. result = [db EXCEPT !.location = Insert(db.location, n, row)]
    BY <1>1 DEF Tables
  <2>5. CASE db' = result /\ Goto(t, "findPath", f)
    <3> HIDE DEF n, row, f, result
    <3> QED
      BY <2>1, <2>2, <2>3, <2>4, <2>5, AddLocationKeeps
  <2>6. CASE db' = db /\ Goto(t, "failed", frame[t])
    BY <1>2, <2>1, <2>6, StaysAway
  <2> QED
    BY <2>1, <2>5, <2>6 DEF Execute
<1>4. CASE (\E name \in Names : AddRoot(t, name)) \/ GiveUp(t)
  BY <1>2, <1>4, StaysAway
<1>5. ASSUME NEW l \in Locations, NEW name \in Names, UpdateLocation(t, l, name)
      PROVE  Places'
  BY <1>5, UpdateLocationKeeps
<1>6. CASE SelectParent(t)
  <2>1. pc[t] = "findPath" /\ db' = db
    BY <1>6 DEF SelectParent
  <2>2. \/ frame[t].pending = <<>> /\ End(t)
        \/ frame[t].pending # <<>> /\ FindPath(t, Head(frame[t].pending), frame[t])
    BY <1>6 DEF SelectParent
  <2> QED
    BY <2>1, <2>2, SearchEndKeeps, FindPathKeeps
<1> QED
  BY <1>3, <1>4, <1>5, <1>6, ListChildrenKeeps, ReadNameKeeps, WritePathKeeps DEF LocationCall

LEMMA PlacesStep == Sound /\ Sound' /\ Places /\ [Next]_<<vars, history>> => Places'
<1> SUFFICES ASSUME Sound, Sound', Places, [Next]_<<vars, history>>
             PROVE  Places'
  OBVIOUS
<1>1. CASE Next
  <2>1. Record
    BY <1>1 DEF Next
  <2>2. CASE \/ \E t \in ClientThreads : ClientCall(t)
             \/ Telegram \/ Midnight
             \/ \E t \in AdminThreads : AdminCall(t)
    BY <2>1, <2>2, OthersAway, RecordsOverlap, AwayKeeps
  <2>3. CASE \E t \in LocationThreads : LocationCall(t)
    BY <2>1, <2>3, LocationCallKeeps
  <2> QED
    BY <1>1, <2>2, <2>3 DEF Next
<1>2. CASE UNCHANGED <<vars, history>>
  <2>1. Away /\ Remembered
    BY <1>2 DEF vars, history, Away, Remembered, InLocations
  <2> QED
    BY <2>1, AwayKeeps
<1> QED
  BY <1>1, <1>2

LEMMA PlacesInit == Init => Places
<1> SUFFICES ASSUME Init
             PROVE  Places
  OBVIOUS
<1>1. PICK s \in Scenarios : db = s.tables
  BY DEF Init
<1>2. InLocations(pc) = {}
  BY LocationAssumption DEF Init, InLocations, LocationLabels
<1>3. PathsOf(db.location) /\ \A l \in DOMAIN db.location : db.location[l].parent # None => db.location[l].path # None
  BY <1>1, ScenariosAssumption DEF Settled
<1>4. Tree(db.location)
  BY SoundInit, Trees
<1>5. Adding(db.location, pc, frame)
  BY <1>2, <1>3, <1>4, AddingBegins
<1>6. IsFiniteSet(InLocations(pc))
  BY <1>2, FS_EmptySet
<1> QED
  BY <1>2, <1>3, <1>5, <1>6 DEF Places, Written, AddsOne, Known

\* Whatever is added, renamed and deleted: when no call is at the locations, each of them has the
\* path of names by which the sensors are found, unless a renaming has overlapped another call
\* (addLocation, updateLocation and updateChildsPath).
THEOREM PathsKept == Spec => []PathsCurrent
<1>1. Spec => [](Sound /\ Places)
  BY SoundInit, SoundStep, PlacesInit, PlacesStep, PTL DEF Spec
<1>2. Sound /\ Places => PathsCurrent
  <2> SUFFICES ASSUME Sound, Places, InLocations(pc) = {}, ~overlapped
               PROVE  PathsOf(db.location)
    BY DEF PathsCurrent
  <2>1. Adding(db.location, pc, frame)
    BY DEF Places, Known, RenamingAlone
  <2> QED
    BY <2>1, Trees, AddingEnds
<1> QED
  BY <1>1, <1>2, PTL
=============================================================================
