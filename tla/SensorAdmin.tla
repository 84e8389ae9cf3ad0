----------------------------- MODULE SensorAdmin -----------------------------
(***************************************************************************)
(* Groups and sensors: the calls of EnOceanStorage that RestInterface      *)
(* makes for the administration pages.                                     *)
(*                                                                         *)
(* A sensor belongs to groups.  When it is taken out of its last group it  *)
(* is removed, and before it its measures, before these their values and   *)
(* clients, and after it its location if nothing else is there.            *)
(***************************************************************************)
EXTENDS EnOceanTables

CONSTANTS
    AdminThreads,       \* the threads of RestInterface
    Unscaled,           \* measures of an enumeration: their EEP field has no unit and scale
    DefaultLocation     \* the location deleteSensor takes for that of a missing sensor: 5

ASSUME AdminAssumption == AdminThreads \subseteq Threads /\ Unscaled \subseteq Shortcuts

Begin(t, op, g, s) == [NoFrame EXCEPT !.op = op, !.group = g, !.sensor = s]

-----------------------------------------------------------------------------
(* addGroup, addSensor, addSensorToGroup *)

AddGroup(t, g) ==
    /\ Starts(t, AdminThreads, "addGroup")
    /\ g \notin db.group
    /\ \A u \in Threads : frame[u].group # g
    /\ db' = [db EXCEPT !.group = @ \cup {g}]
    /\ UNCHANGED <<pc, frame>>

AddSensor(t, a, g, l, shortcuts) ==
    /\ Starts(t, AdminThreads, "addSensor")
    /\ LET fresh == FreshKeys(Sensors, db.sensor, HeldSensors)
           row == [address |-> a, location |-> l]
       IN  /\ fresh # {}
           /\ Execute(t, [db EXCEPT !.sensor = Insert(@, NewKey(fresh), row)], "insertLink",
                      [Begin(t, "addSensor", g, NewKey(fresh)) EXCEPT !.shortcuts = shortcuts])

\* The primary key of group_sensor refuses a second link; the foreign keys are in Consistent.
InsertLink(t, g, s, label, f) ==
    \/ <<g, s>> \notin db.groupSensor
       /\ Execute(t, [db EXCEPT !.groupSensor = @ \cup {<<g, s>>}], label, f)
    \/ <<g, s>> \in db.groupSensor
       /\ db' = db /\ Goto(t, "failed", frame[t])

LinkNewSensor(t) ==
    /\ pc[t] = "insertLink"
    /\ InsertLink(t, frame[t].group, frame[t].sensor, "insertMeasures", frame[t])

\* Any group and sensor the page may still show, those just deleted included.
AddSensorToGroup(t, g, s) ==
    /\ Starts(t, AdminThreads, "addSensorToGroup")
    /\ InsertLink(t, g, s, "idle", NoFrame)

\* addSensor and updateSensor insert the measures one by one.  updateSensor asks the EEP field of
\* each for its first conversion, which an enumeration has not, and catches all exceptions.
InsertMeasure(t) ==
    /\ pc[t] = "insertMeasures"
    /\ \/ frame[t].shortcuts = {} /\ db' = db /\ End(t)
       \/ \E shortcut \in frame[t].shortcuts :
            LET fresh == FreshKeys(Measures, db.measure, HeldMeasures)
                row == [sensor |-> frame[t].sensor, shortcut |-> shortcut, last |-> None]
                result == [db EXCEPT !.measure = Insert(@, NewKey(fresh), row)]
                rest == [frame[t] EXCEPT !.shortcuts = @ \ {shortcut}]
            IN  /\ fresh # {}
                /\ IF frame[t].op = "updateSensor" /\ (shortcut \in Unscaled \/ ~Consistent(result))
                   THEN db' = db /\ Goto(t, "insertMeasures", rest)
                   ELSE Execute(t, result, "insertMeasures", rest)

-----------------------------------------------------------------------------
(* deleteSensor and deleteGroup *)

DeleteLink(g, s) == [db EXCEPT !.groupSensor = @ \ {<<g, s>>}]

DeleteSensor(t, g, s) ==
    /\ Starts(t, AdminThreads, "deleteSensor")
    /\ db' = DeleteLink(g, s)
    /\ Goto(t, "countGroups", Begin(t, "deleteSensor", g, s))

DeleteGroup(t, g) ==
    /\ Starts(t, AdminThreads, "deleteGroup")
    /\ Goto(t, "nextSensor", [Begin(t, "deleteGroup", g, None) EXCEPT !.sensors = SensorsOf(g)])
    /\ UNCHANGED db

NextSensor(t) ==
    /\ pc[t] = "nextSensor"
    /\ \E s \in frame[t].sensors :
        /\ db' = DeleteLink(frame[t].group, s)
        /\ Goto(t, "countGroups", [frame[t] EXCEPT !.sensor = s, !.sensors = @ \ {s},
                                                   !.location = None])

DeleteGroupRow(t) ==
    /\ pc[t] = "nextSensor"
    /\ frame[t].sensors = {}
    /\ Execute(t, [db EXCEPT !.group = @ \ {frame[t].group}], "idle", NoFrame)

\* deleteGroup goes on with the next sensor, the other calls end.
SensorDone(t) ==
    IF frame[t].op = "deleteGroup" THEN Goto(t, "nextSensor", frame[t]) ELSE End(t)

\* Mutated: the link just deleted is counted as well.
CountGroupsOffByOne(t) ==
    /\ pc[t] = "countGroups"
    /\ IF Cardinality(GroupsOf(frame[t].sensor)) = 1 THEN Goto(t, "listMeasures", frame[t])
       ELSE SensorDone(t)
    /\ UNCHANGED db

\* A sensor that belongs to another group stays.
CountGroups(t) ==
    /\ pc[t] = "countGroups"
    /\ IF GroupsOf(frame[t].sensor) = {} THEN Goto(t, "listMeasures", frame[t]) ELSE SensorDone(t)
    /\ UNCHANGED db

ListMeasures(t) ==
    /\ pc[t] = "listMeasures"
    /\ Goto(t, "removeMeasure", [frame[t] EXCEPT !.measures = MeasuresOf(frame[t].sensor)])
    /\ UNCHANGED db

\* The measures of the list one by one.  The count of clients before the deletion only saves
\* deleting none.
RemoveMeasure(t) ==
    /\ pc[t] = "removeMeasure"
    /\ \E m \in frame[t].measures :
        /\ db' = [db EXCEPT !.client = Delete(@, ClientsOf(m))]
        /\ Goto(t, "clearLast", [frame[t] EXCEPT !.measure = m, !.measures = @ \ {m}])

DeleteClients(t) ==
    /\ pc[t] = "deleteClients"
    /\ db' = [db EXCEPT !.client = Delete(@, ClientsOf(frame[t].measure))]
    /\ Goto(t, "clearLast", frame[t])

\* In deleteGroup the statement has two parameters, of which one is set: it always throws.
ClearLast(t) ==
    /\ pc[t] = "clearLast"
    /\ IF frame[t].op = "deleteGroup"
       THEN db' = db /\ Goto(t, "failed", frame[t])
       ELSE db' = WithLast(frame[t].measure, None) /\ Goto(t, "deleteRows", frame[t])

DeleteRows(t) ==
    /\ pc[t] = "deleteRows"
    /\ Execute(t, [db EXCEPT !.data = DeleteValues(@, RowsOf(frame[t].measure))],
               "deleteMeasure", frame[t])

DeleteMeasure(t) ==
    /\ pc[t] = "deleteMeasure"
    /\ Execute(t, [db EXCEPT !.measure = Delete(@, {frame[t].measure})],
               IF frame[t].op = "updateSensor" THEN "findObsolete" ELSE "removeMeasure", frame[t])

ReadLocation(t) ==
    /\ pc[t] = "removeMeasure"
    /\ frame[t].measures = {}
    /\ LET s == frame[t].sensor
           default == IF frame[t].op = "deleteSensor" THEN DefaultLocation ELSE None
       IN  Goto(t, "deleteSensor",
                [frame[t] EXCEPT !.location = IF s \in DOMAIN db.sensor THEN db.sensor[s].location
                                              ELSE default])
    /\ UNCHANGED db

DeleteSensorRow(t) ==
    /\ pc[t] = "deleteSensor"
    /\ Execute(t, [db EXCEPT !.sensor = Delete(@, {frame[t].sensor})], "countSensors", frame[t])

-----------------------------------------------------------------------------
(* updateSensor *)

UpdateSensor(t, s, a, l, shortcuts) ==
    /\ Starts(t, AdminThreads, "updateSensor")
    /\ LET result == IF s \in DOMAIN db.sensor THEN [db EXCEPT !.sensor[s] = [address |-> a, location |-> l]]
                     ELSE db
       IN  Execute(t, result, "compareMeasures",
                   [Begin(t, "updateSensor", None, s) EXCEPT !.shortcuts = shortcuts])

\* The measures no longer wanted, by their shortcuts; the ones that are new.
CompareMeasures(t) ==
    /\ pc[t] = "compareMeasures"
    /\ LET stored == {<<m, db.measure[m].shortcut>> : m \in MeasuresOf(frame[t].sensor)}
       IN  Goto(t, "findObsolete",
                [frame[t] EXCEPT !.obsolete = {row \in stored : row[2] \notin frame[t].shortcuts},
                                 !.shortcuts = @ \ {row[2] : row \in stored}])
    /\ UNCHANGED db

\* The rows come in no order; 0, the key of no measure, when another call has removed it.
FindObsolete(t) ==
    /\ pc[t] = "findObsolete"
    /\ \/ frame[t].obsolete = {} /\ Goto(t, "insertMeasures", [frame[t] EXCEPT !.measure = None])
       \/ \E row \in frame[t].obsolete :
            LET found == {m \in MeasuresOf(frame[t].sensor) : db.measure[m].shortcut = row[2]}
            IN  \E m \in IF found = {} THEN {None} ELSE found :
                    Goto(t, "deleteClients", [frame[t] EXCEPT !.measure = m, !.obsolete = @ \ {row}])
    /\ UNCHANGED db

-----------------------------------------------------------------------------
(* deleteLocation, of RestInterface and at the end of the removal of a sensor.  The key 0 of a    *)
(* missing location (None) is the parent of no row.                                              *)

DeleteLocation(t, l) ==
    /\ Starts(t, AdminThreads, "deleteLocation")
    /\ Goto(t, "countSensors", [NoFrame EXCEPT !.op = "deleteLocation", !.location = l])
    /\ UNCHANGED db

CountSensors(t) ==
    /\ pc[t] = "countSensors"
    /\ LET used == frame[t].location # None /\ \E s \in DOMAIN db.sensor : db.sensor[s].location = frame[t].location
       IN  IF used THEN SensorDone(t) ELSE Goto(t, "countChildren", frame[t])
    /\ UNCHANGED db

CountChildren(t) ==
    /\ pc[t] = "countChildren"
    /\ LET used == frame[t].location # None /\ \E l \in DOMAIN db.location : db.location[l].parent = frame[t].location
       IN  IF used THEN SensorDone(t) ELSE Goto(t, "deleteLocation", frame[t])
    /\ UNCHANGED db

DeleteLocationRow(t) ==
    /\ pc[t] = "deleteLocation"
    /\ LET result == [db EXCEPT !.location = Delete(@, {frame[t].location})]
       IN  IF Consistent(result) THEN db' = result /\ SensorDone(t)
           ELSE db' = db /\ Goto(t, "failed", frame[t])
AdminCall(t) ==
    \/ \E g \in Groups : AddGroup(t, g) \/ DeleteGroup(t, g)
    \/ \E a \in Addresses, g \in Groups, l \in Locations, shortcuts \in SUBSET Shortcuts :
        AddSensor(t, a, g, l, shortcuts)
    \/ \E g \in Groups, s \in Sensors : AddSensorToGroup(t, g, s) \/ DeleteSensor(t, g, s)
    \/ \E s \in Sensors, a \in Addresses, l \in Locations, shortcuts \in SUBSET Shortcuts :
        UpdateSensor(t, s, a, l, shortcuts)
    \/ \E l \in Locations : DeleteLocation(t, l)
    \/ LinkNewSensor(t) \/ InsertMeasure(t) \/ NextSensor(t) \/ DeleteGroupRow(t)
    \/ CountGroups(t) \/ ListMeasures(t) \/ RemoveMeasure(t) \/ DeleteClients(t)
    \/ ClearLast(t) \/ DeleteRows(t) \/ DeleteMeasure(t) \/ ReadLocation(t)
    \/ DeleteSensorRow(t) \/ CompareMeasures(t) \/ FindObsolete(t)
    \/ CountSensors(t) \/ CountChildren(t) \/ DeleteLocationRow(t) \/ GiveUp(t)
=============================================================================
