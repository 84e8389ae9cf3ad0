---------------------------- MODULE EnOceanStorage ----------------------------
(***************************************************************************)
(* The threads that use EnOceanStorage at the same time: servlets and CoAP *)
(* handlers for clients, the administration, and the thread that reads     *)
(* telegrams.                                                              *)
(***************************************************************************)
EXTENDS MeasureStorage, SensorAdmin, LocationAdmin

VARIABLES
    overtaken,      \* history: threads whose check for clients was overtaken by a registration
    disturbed,      \* history: the telegram in work met a deletion or midnight
    broken,         \* history: sensors on which a call has failed half-way
    overlapped      \* history: a renaming overlapped another call on locations

history == <<overtaken, disturbed, broken, overlapped>>

Purging == {"deleteData", "maxDays", "shrink"}
LocationLabels == {"findPath", "readName", "writePath", "listChildren"}
InLocations(labels) == {t \in LocationThreads : labels[t] \in LocationLabels}

\* The path a row should have: its parent's name in front of the parent's own path.
PathCurrent(table, l) ==
    LET parent == table[l].parent
    IN  parent # None =>
            table[l].path = <<table[parent].name>> \o
                            (IF table[parent].parent = None THEN <<>> ELSE table[parent].path)

PathsOf(table) == \A l \in DOMAIN table : PathCurrent(table, l)

\* The tables as the calls leave them when none of them has failed and none is under way.
Settled(d) ==
    /\ \A r \in DOMAIN d.data : d.data[r].older \subseteq DOMAIN d.data \ {r}
    /\ \A r, q \in DOMAIN d.data :
        /\ r # q => (r \in d.data[q].older <=> q \notin d.data[r].older)
        /\ r \in d.data[q].older => d.data[r].age >= d.data[q].age
    /\ \A m \in DOMAIN d.measure :
        LET rows == {r \in DOMAIN d.data : d.data[r].measure = m}
            last == d.measure[m].last
        IN  /\ IF last = None THEN rows = {} ELSE last \in rows /\ rows \ {last} \subseteq d.data[last].older
            /\ (\A c \in DOMAIN d.client : d.client[c].measure # m) => rows \subseteq {last}
    /\ \A s \in DOMAIN d.sensor : \E g \in d.group : <<g, s>> \in d.groupSensor
    /\ PathsOf(d.location)
    /\ \A l \in DOMAIN d.location : d.location[l].parent # None => d.location[l].path # None

\* The serial thread is one of its own.
ASSUME ReaderAssumption == Reader \notin AdminThreads \cup LocationThreads

ASSUME ScenariosAssumption == \A s \in Scenarios : Settled(s.tables)

Init ==
    /\ \E s \in Scenarios : db = s.tables /\ calls = s.calls
    /\ pc = [t \in Threads |-> "idle"]
    /\ frame = [t \in Threads |-> NoFrame]
    /\ overtaken = {} /\ disturbed = FALSE /\ broken = {} /\ overlapped = FALSE

\* Clients registered, or asking for more days, in this step.
Registered(m) ==
    \E c \in DOMAIN db'.client : db'.client[c].measure = m
        /\ (c \in DOMAIN db.client => db.client[c] # db'.client[c])

Deleted == \/ DOMAIN db.measure \ DOMAIN db'.measure # {}
           \/ DOMAIN db.data \ DOMAIN db'.data # {}
Aged == DOMAIN db.data = DOMAIN db'.data /\ db.data # db'.data

Record ==
    /\ overtaken' = {t \in Threads : pc'[t] \in Purging
                        /\ (t \in overtaken \/ (pc[t] \in Purging /\ Registered(frame[t].measure)))}
    /\ disturbed' = IF pc'[Reader] = "idle" THEN FALSE
                    ELSE disturbed \/ (pc[Reader] = pc'[Reader] /\ (Deleted \/ Aged))
    /\ broken' = (broken \cup {frame[t].sensor : t \in {u \in AdminThreads : pc[u] = "failed"}})
                    \cap DOMAIN db'.sensor
    /\ overlapped' = IF InLocations(pc') = {} THEN overlapped /\ ~PathsOf(db'.location)
                     ELSE overlapped \/ (/\ Cardinality(InLocations(pc')) > 1
                                         /\ \E t \in Threads : frame'[t].op = "updateLocation")

Next ==
    /\ \/ \E t \in ClientThreads : ClientCall(t)
       \/ Telegram
       \/ Midnight
       \/ \E t \in AdminThreads : AdminCall(t)
       \/ \E t \in LocationThreads : LocationCall(t)
    /\ Record
    /\ UNCHANGED calls

Spec == Init /\ [][Next]_<<vars, history>>

-----------------------------------------------------------------------------

Calls ==
    {"addClient", "removeClient", "radioTelegram", "addSensor", "deleteSensor", "deleteGroup", "updateSensor",
     "deleteLocation", "addLocation", "updateLocation"}

Labels ==
    {"idle", "failed", "insertClient", "updateClient", "checkClients", "deleteData", "addStorage", "setLast",
     "insertLink", "insertMeasures", "nextSensor", "countGroups", "listMeasures", "removeMeasure", "deleteClients",
     "clearLast", "deleteRows", "deleteMeasure", "deleteSensor", "compareMeasures", "findObsolete", "countSensors",
     "countChildren", "deleteLocation"} \cup (Purging \cup LocationLabels)

Frame ==
    [op : Calls \cup {"none"}, group : Groups \cup {None}, sensor : Sensors \cup {None},
     measure : Measures \cup {None}, location : Locations \cup {None, DefaultLocation},
     client : Clients \cup {None}, row : Rows \cup {None}, days : Days, sensors : SUBSET Sensors,
     measures : SUBSET Measures, shortcuts : SUBSET Shortcuts, obsolete : SUBSET (Measures \X Shortcuts),
     path : Seq(Names), pending : Seq(Locations)]

TypeOK ==
    /\ Tables(db)
    /\ pc \in [Threads -> Labels]
    /\ frame \in [Threads -> Frame]
    /\ overtaken \subseteq Threads /\ disturbed \in BOOLEAN /\ broken \subseteq Sensors /\ overlapped \in BOOLEAN

\* The value a measure points to is the newest it has, except while the reading thread is
\* between the insertion of a value and the update of the measure: deletions by clients and
\* administrators never make an old value the last one (setLastMeasureData, deleteData).
LastIsNewest ==
    \A m \in DOMAIN db.measure :
        LastOf(m) # None /\ ~(pc[Reader] = "setLast" /\ frame[Reader].measure = m)
            => LastOf(m) \in RowsOf(m) /\ RowsOf(m) \ {LastOf(m)} \subseteq db.data[LastOf(m)].older

\* deleteDataMeasure deletes no value that a client still asks for, unless a registration came
\* between its look at the clients and its deletion; nothing else deletes one, except the removal
\* of the measure itself.
KeptForClients ==
    [][\A r \in DOMAIN db.data \ DOMAIN db'.data :
        (\E c \in ClientsOf(db.data[r].measure) : db.client[c].days >= db.data[r].age)
        => \E t \in Threads : \/ t \in overtaken /\ pc[t] # pc'[t]
                              \/ pc[t] = "deleteRows" /\ pc'[t] = "deleteMeasure"]_vars

\* Once its last client has gone a measure keeps its last value only, whatever was being stored or
\* removed meanwhile (removeClient: "delete data and storage"); not so one of a sensor on which deleteGroup
\* has failed, after it removed the clients.
OnlyLastWithoutClients ==
    \A m \in DOMAIN db.measure :
        ClientsOf(m) = {} /\ db.measure[m].sensor \notin broken /\ (\A t \in Threads : frame[t].measure # m) => Cardinality(RowsOf(m)) <= 1

\* The dispatcher gives up a telegram, whose other measures are then neither stored nor notified,
\* only if rows were deleted under its hands or the day changed.
LostOnlyDisturbed == pc[Reader] = "failed" => disturbed

\* A sensor that is in no group any more has been removed, or somebody is at it, or a call on it
\* has failed half-way; it then holds its address for good, as no page shows it.
UngroupedOnlyBroken ==
    \A s \in DOMAIN db.sensor :
        GroupsOf(s) = {} => s \in broken \/ \E t \in AdminThreads : frame[t].sensor = s

\* When no call is at the locations, the path of each one is that of the tree, by which the
\* sensors are found; only a renaming that overlaps another call may leave one behind.
PathsCurrent == InLocations(pc) = {} /\ ~overlapped => PathsOf(db.location)

\* "verify if the sensor belong to an another group (if not, it's removed)" (deleteGroup).
UngroupedRemoved ==
    (\A t \in Threads : pc[t] = "idle") => \A s \in DOMAIN db.sensor : GroupsOf(s) # {}
=============================================================================
