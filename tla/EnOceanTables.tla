---------------------------- MODULE EnOceanTables ----------------------------
(***************************************************************************)
(* The SQL tables of the EnOcean gateway and the calls that change them.   *)
(*                                                                         *)
(* EnOceanStorage executes its statements one by one on a connection in    *)
(* autocommit mode: a statement is one step, a call is several, and the    *)
(* statements of different threads interleave.  A statement whose result   *)
(* would break a key of the SQL script has no effect and throws; whoever   *)
(* issued it gives up the rest of its call.                                *)
(*                                                                         *)
(* Columns that nothing but a display reads are left out, and so are the   *)
(* users and manufacturers, which exist before the program starts.  Keys   *)
(* are reused once no row and no thread knows them; the real counters run  *)
(* on, and nothing compares keys for anything but equality.                *)
(*                                                                         *)
(* The code calls the table of clients storage_client (scl_...), the SQL   *)
(* script of the repository client (cl_...); they are taken for one table, *)
(* with the columns and keys of the script.                                *)
(***************************************************************************)
EXTENDS Integers, Sequences, FiniteSets, Functions

CONSTANTS
    Threads,        \* the threads that use the storage
    Groups, Addresses, Shortcuts, Names,
    Sensors, Measures, Rows, Clients, Locations,    \* primary keys
    MaxDays,        \* the longest storage a client asks for
    Scenarios,      \* the calls each thread may make, and the content of the tables at the start
    None            \* NULL, and "no such key"

Days == 0..MaxDays
\* Days since a row was written; older rows than MaxDays + 1 count as that.
Ages == 0..(MaxDays + 1)

SensorRow   == [address : Addresses, location : Locations]
MeasureRow  == [sensor : Sensors, shortcut : Shortcuts, last : Rows \cup {None}]
ClientRow   == [measure : Measures, referer : Threads, days : Days]
\* older: the values with a smaller key, which are those that were stored before.
DataRow     == [measure : Measures, age : Ages, older : SUBSET Rows]
LocationRow == [parent : Locations \cup {None}, name : Names, path : Seq(Names) \cup {None}]

Table(f, S, T) == DOMAIN f \subseteq S /\ \A x \in DOMAIN f : f[x] \in T

Tables(d) ==
    /\ DOMAIN d = {"group", "sensor", "groupSensor", "measure", "client", "data", "location"}
    /\ d.group \subseteq Groups
    /\ Table(d.sensor, Sensors, SensorRow)
    /\ d.groupSensor \subseteq Groups \X Sensors
    /\ Table(d.measure, Measures, MeasureRow)
    /\ Table(d.client, Clients, ClientRow)
    /\ Table(d.data, Rows, DataRow)
    /\ Table(d.location, Locations, LocationRow)

\* The foreign keys (all of them NO ACTION) and the unique address of the SQL script.
Consistent(d) ==
    /\ \A s \in DOMAIN d.sensor : d.sensor[s].location \in DOMAIN d.location
    /\ \A s, t \in DOMAIN d.sensor : d.sensor[s].address = d.sensor[t].address => s = t
    /\ d.groupSensor \subseteq d.group \X DOMAIN d.sensor
    /\ \A m \in DOMAIN d.measure :
        /\ d.measure[m].sensor \in DOMAIN d.sensor
        /\ d.measure[m].last \in {None} \cup DOMAIN d.data
    /\ \A c \in DOMAIN d.client : d.client[c].measure \in DOMAIN d.measure
    /\ \A r \in DOMAIN d.data : d.data[r].measure \in DOMAIN d.measure
    /\ \A l \in DOMAIN d.location : d.location[l].parent \in {None} \cup DOMAIN d.location

ASSUME TablesAssumption ==
    /\ MaxDays \in Nat
    /\ None \notin Rows \cup Locations \cup Measures \cup Sensors \cup Clients \cup Groups \cup Seq(Names)
    /\ \A s \in Scenarios : Tables(s.tables) /\ Consistent(s.tables)

VARIABLES
    db,         \* the content of the tables
    pc,         \* thread -> the statement it executes next, or "idle"
    frame,      \* thread -> the local variables of its call
    calls       \* the pairs of a thread and a call it may make, fixed at the start

vars == <<db, pc, frame, calls>>

-----------------------------------------------------------------------------
(* Statements *)

\* A key for a new row: not in the table, and not in the hands of a thread.
HeldKeys(field) == {frame[t][field] : t \in Threads}
HeldSensors == HeldKeys("sensor") \cup UNION HeldKeys("sensors")
HeldMeasures == HeldKeys("measure") \cup UNION HeldKeys("measures")
HeldLocations == HeldKeys("location") \cup UNION {Range(frame[t].pending) : t \in Threads}
FreshKeys(keys, table, held) == keys \ (DOMAIN table \cup held)
NewKey(keys) == CHOOSE k \in keys : TRUE

Insert(table, key, record) == [x \in DOMAIN table \cup {key} |-> IF x = key THEN record ELSE table[x]]
Delete(table, keys) == [x \in DOMAIN table \ keys |-> table[x]]
DeleteValues(table, keys) == [r \in DOMAIN table \ keys |-> [table[r] EXCEPT !.older = @ \ keys]]

ClientsOf(m) == {c \in DOMAIN db.client : db.client[c].measure = m}
MeasuresOf(s) == {m \in DOMAIN db.measure : db.measure[m].sensor = s}
GroupsOf(s) == {g \in db.group : <<g, s>> \in db.groupSensor}
SensorsOf(g) == {s \in DOMAIN db.sensor : <<g, s>> \in db.groupSensor}
RowsOf(m) == {r \in DOMAIN db.data : db.data[r].measure = m}

LastOf(m) == IF m \in DOMAIN db.measure THEN db.measure[m].last ELSE None

\* "update measure set mea_fk_data_sensor = ... where pk_measure = ..."
WithLast(m, r) ==
    IF m \in DOMAIN db.measure THEN [db EXCEPT !.measure[m].last = r] ELSE db

Starts(t, threads, call) == t \in threads /\ pc[t] = "idle" /\ <<t, call>> \in calls

Goto(t, label, f) ==
    /\ pc' = [pc EXCEPT ![t] = label]
    /\ frame' = [frame EXCEPT ![t] = f]

\* The local variables of a call that has ended.
NoFrame ==
    [op |-> "none", group |-> None, sensor |-> None, measure |-> None, location |-> None,
     client |-> None, row |-> None, days |-> 0, sensors |-> {}, measures |-> {},
     shortcuts |-> {}, obsolete |-> {}, path |-> <<>>, pending |-> <<>>]

End(t) == Goto(t, "idle", NoFrame)

\* One statement: its result, or an SQLException.
Execute(t, result, label, f) ==
    \/ Consistent(result) /\ db' = result /\ Goto(t, label, f)
    \/ ~Consistent(result) /\ db' = db /\ Goto(t, "failed", frame[t])

\* The call ends where its exception is caught, outside EnOceanStorage.
GiveUp(t) == pc[t] = "failed" /\ db' = db /\ End(t)
=============================================================================
