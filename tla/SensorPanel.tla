----------------------------- MODULE SensorPanel -----------------------------
(***************************************************************************)
(* The sensors of configuration.html: a panel for each sensor of the       *)
(* selected group, and the two panels of the pop-up "Add sensor", for a    *)
(* sensor described by hand (New) and for one discovered in learn mode     *)
(* (Learn).  An EEP is chosen in three lists, each loaded for the          *)
(* selection of the one before.                                            *)
(*                                                                         *)
(* The functions of script.js do not say which panel they mean: they read  *)
(* the hidden input sensorId when they send a call, and again when they    *)
(* hear the answer.  Names, descriptions, manufacturers, addresses and the *)
(* radio buttons of a panel are plain inputs and left out.                 *)
(***************************************************************************)
EXTENDS WebRequests

CONSTANTS
    Groups,         \* primary keys of groups
    Sensors,        \* primary keys of sensors
    EepTree,        \* the EEPs of the EEP file: triples of codes for rorg, function and type
    Discovered,     \* sets of EEPs of the devices that may be in learn mode
    Searches,       \* sets of sensors that a term searched for may match
    SensorRows,     \* what the rows of the sensors may be at first
    New, Learn      \* the ids 0 and -1 of the panels of the pop-up

VARIABLES
    sensorRows,     \* the server's sensors
    panels,         \* the panels of the page
    hidden,         \* the hidden inputs sensorId and groupId, the search results, the devices
    popups,         \* the pop-ups that are open
    available       \* the EEP whose measure types the pop-up "manageMeasure" lists

sensorVars == <<sensorRows, panels, hidden, popups, available>>

Panels == Sensors \cup {New, Learn}

-----------------------------------------------------------------------------
(* The lists. *)

Rorgs == {e[1] : e \in EepTree}
FunctionsUnder(r) == {e[2] : e \in {d \in EepTree : d[1] = r}}
TypesUnder(r, f) == {e[3] : e \in {d \in EepTree : d[1] = r /\ d[2] = f}}

\* An element <select>.  The options of a panel just shown have no id and no "0x".
Short(code) == [options |-> {code}, value |-> code, long |-> FALSE]
\* Mutated: no option is selected.
LoadedUnselected(codes, code) ==
    [options |-> codes, long |-> TRUE, value |-> IF codes = {} THEN None ELSE Min(codes)]

\* The browser selects the first option where the page selects none.
Loaded(codes, code) ==
    [options |-> codes, long |-> TRUE,
     value |-> IF code \in codes THEN code ELSE IF codes = {} THEN None ELSE Min(codes)]
NoOption == Loaded({}, None)

\* The attribute id of the selected option, and the text of it a short list is compared with.
Id(select) == IF select.long THEN select.value ELSE None
Text2(select) == IF select.long THEN None ELSE select.value

Eep(panel) == <<panel.rorg.value, panel.function.value, panel.type.value>>
EepId(panel) == <<Id(panel.rorg), Id(panel.function), Id(panel.type)>>

\* meant (history): the EEP of the sensor when it was shown, or of the device chosen.
\* touched (history): since the edit began the user has chosen in one of the lists, or a choice in another panel
\* has loaded one of them anew; or before it began one was loaded late, for an edit that an answer had ended.
Shown(row) ==
    [rorg |-> Short(row.eep[1]), function |-> Short(row.eep[2]), type |-> Short(row.eep[3]),
     temp |-> row.eep, measures |-> row.measures, editing |-> FALSE,
     meant |-> row.eep, touched |-> FALSE]

Draft ==
    [rorg |-> NoOption, function |-> NoOption, type |-> NoOption,
     temp |-> None, measures |-> None, editing |-> TRUE,
     meant |-> None, touched |-> FALSE]

HasLong(panel) == panel.rorg.long \/ panel.function.long \/ panel.type.long

InPopup(p) == p \in {New, Learn}
\* What the selectors of jQuery find where there is no panel.
At(ps, p) == IF ps[p] = None THEN Draft ELSE ps[p]
Touched(panel) == [panel EXCEPT !.touched = TRUE]
Write(ps, p, change(_)) == IF ps[p] = None THEN ps ELSE [ps EXCEPT ![p] = change(@)]

-----------------------------------------------------------------------------
(* The calls. *)

EepFunctions == {"editRorgs", "editFunctions", "editTypes", "getEepRorgs", "getEepFunctions", "getEepTypes",
                 "getMeasureTypes", "getSensorsInLearnMode"}

GetSensorsFromId(g) == Call("getSensorsFromId", g, None)

\* The calls of one edit are made in this order, each with the selections it was made with.  Where no
\* function, or no type, is selected the length of its text is taken of null, and the rest is not done.
EditLists(p) ==
    LET r == Text2(p.rorg)  f == Text2(p.function)  t == Text2(p.type)
        Ask(fn, codes, code) == Call(fn, hidden'.sensorId, <<codes, code>>)
    IN  <<Ask("editRorgs", Rorgs, r)>>
        \o (IF p.function.value = None THEN <<>>
            ELSE <<Ask("editFunctions", IF r = None THEN {} ELSE FunctionsUnder(r), f)>>)
        \o (IF None \in {p.function.value, p.type.value} THEN <<>>
            ELSE <<Ask("editTypes", IF None \in {r, f} THEN {} ELSE TypesUnder(r, f), t)>>)

\* The three functions that load one list for the selection of the one before; "wanted" is the EEP to
\* select in them, all None if they were called without arguments.  An option of a panel just shown has no id:
\* a list is asked for under 'undefined', the servlet parses what it takes for hex digits of that and finds
\* nothing under it in the EEP file: the answer is an empty list.
Unselected == <<None, None, None>>
GetEepRorgs(wanted) == Call("getEepRorgs", hidden.sensorId, wanted)
GetEepFunctions(ps, wanted) ==
    Call("getEepFunctions", hidden.sensorId, [under |-> Id(At(ps, hidden.sensorId).rorg), wanted |-> wanted])
GetEepTypes(ps, wanted) ==
    LET p == At(ps, hidden.sensorId)
    IN  Call("getEepTypes", hidden.sensorId, [under |-> <<Id(p.rorg), Id(p.function)>>, wanted |-> wanted])
GetMeasureTypes(ps) == Call("getMeasureTypes", hidden.sensorId, EepId(At(ps, hidden.sensorId)))

\* What updateSensor and createSensor send, and the history of it.
SensorData(p) ==
    [eep |-> Eep(panels[p]), valid |-> None \notin {EepId(panels[p])[k] : k \in 1..3},
     measures |-> panels[p].measures,
     meant |-> panels[p].meant, touched |-> panels[p].touched]

-----------------------------------------------------------------------------
(* The user and the panels of sensors. *)

Work(p, new) == Click(p, new) /\ UNCHANGED <<sensorRows, available>>
Unblocked == popups \cap {"manageMeasure", "manageLocation"} = {}

EditSensor(s) ==
    /\ panels[s] # None /\ ~panels[s].editing /\ popups = {}
    /\ hidden' = [hidden EXCEPT !.sensorId = s]
    /\ Work("sensors", EditLists(panels[s]))
    /\ panels' = [panels EXCEPT ![s].editing = TRUE, ![s].touched = HasLong(panels[s])]
    /\ UNCHANGED popups

\* The lists go back to what the panel was shown with.
Restored(panel) ==
    [panel EXCEPT !.rorg = Short(panel.temp[1]), !.function = Short(panel.temp[2]),
                  !.type = Short(panel.temp[3]), !.editing = FALSE]

CancelSensor(s) ==
    /\ panels[s] # None /\ panels[s].editing /\ popups = {}
    /\ EndEdit("sensors", <<>>)
    /\ panels' = [panels EXCEPT ![s] = Restored(@)]
    /\ UNCHANGED <<sensorRows, hidden, popups, available>>

UpdateSensor(s) ==
    /\ panels[s] # None /\ panels[s].editing /\ popups = {}
    /\ EndEdit("sensors", <<Call("updateSensor", s, SensorData(s))>>)
    /\ UNCHANGED sensorVars

DeleteSensor(s) ==
    /\ panels[s] # None /\ ~panels[s].editing /\ popups = {}
    /\ Work("sensors", <<Call("deleteSensor", <<hidden.groupId, s>>, None)>>)
    /\ UNCHANGED <<panels, hidden, popups>>

-----------------------------------------------------------------------------
(* The user and the lists: the panel p is touched, but sensorId says whose lists are loaded. *)

CanPick(p) ==
    /\ panels[p] # None /\ panels[p].editing /\ Unblocked
    /\ InPopup(p) <=> "addSensor" \in popups
    /\ InPopup(p) => hidden.sensorId = p
PickIn(p) == IF InPopup(p) THEN "newSensor" ELSE "sensors"

PickRorg(p, r) ==
    /\ CanPick(p) /\ r \in panels[p].rorg.options \ {panels[p].rorg.value}
    /\ panels' = [panels EXCEPT ![p] = Touched([@ EXCEPT !.rorg.value = r])]
    /\ Work(PickIn(p), <<GetEepFunctions(panels', Unselected)>>)
    /\ UNCHANGED <<hidden, popups>>

PickFunction(p, f) ==
    /\ CanPick(p) /\ f \in panels[p].function.options \ {panels[p].function.value}
    /\ panels' = [panels EXCEPT ![p] = Touched([@ EXCEPT !.function.value = f])]
    /\ Work(PickIn(p), <<GetEepTypes(panels', Unselected)>>)
    /\ UNCHANGED <<hidden, popups>>

\* getMeasureTypes empties the list and opens the pop-up before the answer is there.
OverPopup(open) == (IF InPopup(hidden.sensorId) THEN open \ {"addSensor"} ELSE open)
PickType(p, t) ==
    /\ CanPick(p) /\ t \in panels[p].type.options \ {panels[p].type.value}
    /\ panels' = [panels EXCEPT ![p] = Touched([@ EXCEPT !.type.value = t])]
    /\ Click(PickIn(p), <<GetMeasureTypes(panels')>>)
    /\ available' = None /\ popups' = OverPopup(popups) \cup {"manageMeasure"}
    /\ UNCHANGED <<sensorRows, hidden>>

\* Save in the pop-up: the measure types become those of the panel sensorId.
SaveMeasureTypes ==
    /\ "manageMeasure" \in popups /\ page \in {"sensors", "newSensor"}
    /\ Click(page, <<>>)
    /\ panels' = Write(panels, hidden.sensorId, LAMBDA panel : [panel EXCEPT !.measures = available])
    /\ popups' = (popups \ {"manageMeasure"}) \cup (IF InPopup(hidden.sensorId) THEN {"addSensor"} ELSE {})
    /\ UNCHANGED <<sensorRows, hidden, available>>

\* A pop-up is left with its Cancel; the pop-up below it does not come back.
Dismiss(name) ==
    /\ name \in popups /\ page \in {"sensors", "newSensor", "locations"}
    /\ Work(page, <<>>) /\ popups' = popups \ {name}
    /\ UNCHANGED <<panels, hidden>>

-----------------------------------------------------------------------------
(* The user and the pop-up "Add sensor". *)

ViewSensor ==
    /\ popups = {} /\ popups' = {"addSensor"}
    /\ Work("newSensor", <<GetEepRorgs(Unselected)>>)
    /\ UNCHANGED <<panels, hidden>>

\* The headings of the accordion.
DescribeSensor ==
    /\ popups = {"addSensor"}
    /\ hidden' = [hidden EXCEPT !.sensorId = New]
    /\ Work("newSensor", <<>>) /\ UNCHANGED <<panels, popups>>

ChooseDiscovered ==
    /\ popups = {"addSensor"}
    /\ hidden' = [hidden EXCEPT !.sensorId = Learn]
    /\ Work("newSensor", <<Call("getSensorsInLearnMode", None, None)>>)
    /\ UNCHANGED <<panels, popups>>

\* updateLearnSensorInfo: the codes are turned into two hex digits, but those that are one letter
\* are not padded ("A" < 10 is false) and match no option.
Padded(code) == IF code \in 10..15 THEN None ELSE code
Wanted(eep) == [k \in 1..3 |-> Padded(eep[k])]

PickDevice(eep) ==
    /\ popups = {"addSensor"} /\ hidden.sensorId = Learn
    /\ eep \in hidden.devices
    /\ Work("newSensor", <<GetEepRorgs(Wanted(eep))>>)
    /\ panels' = [panels EXCEPT ![Learn].meant = eep, ![Learn].touched = FALSE]
    /\ UNCHANGED <<hidden, popups>>

CreateSensor ==
    /\ popups = {"addSensor"} /\ hidden.sensorId = New
    /\ EndEdit("newSensor", <<Call("createSensor", hidden.groupId, SensorData(New))>>)
    /\ UNCHANGED sensorVars

CreateLearnSensor ==
    /\ popups = {"addSensor"} /\ hidden.sensorId = Learn
    /\ EndEdit("newSensor", <<Call("createLearnSensor", hidden.groupId, SensorData(Learn))>>)
    /\ UNCHANGED sensorVars

\* The search among all sensors, at each key, and the button Add of a result.
SearchSensor(matching) ==
    /\ popups = {"addSensor"}
    /\ Work("newSensor", <<Call("searchSensor", matching, None)>>)
    /\ UNCHANGED <<panels, hidden, popups>>

AddExistingSensor(s) ==
    /\ popups = {"addSensor"} /\ s \in hidden.results
    /\ Work("newSensor", <<Call("addExistingSensor", <<hidden.groupId, s>>, None)>>)
    /\ popups' = {} /\ UNCHANGED <<panels, hidden>>

-----------------------------------------------------------------------------
(* The servlet. *)

InGroup(g) == {s \in Sensors : sensorRows[s] # None /\ g \in sensorRows[s].groups}

ReadSensors ==
    \E i \in DOMAIN calls :
        /\ calls[i].fn = "getSensorsFromId"
        /\ Reply(i, [s \in InGroup(calls[i].key) |-> sensorRows[s]])
        /\ UNCHANGED sensorVars

ReadAllSensors ==
    \E i \in DOMAIN calls :
        /\ calls[i].fn = "searchSensor"
        /\ Reply(i, {s \in calls[i].key : sensorRows[s] # None})
        /\ UNCHANGED sensorVars

\* Each text has its "0x" cut off, and what is left is parsed: without it the call fails.
StoreSensor ==
    \E i \in DOMAIN calls :
        /\ calls[i].fn = "updateSensor"
        /\ IF calls[i].data.valid
           THEN /\ Executed(i, "done")
                /\ sensorRows' = [sensorRows EXCEPT ![calls[i].key] = IF @ = None THEN None ELSE
                                    [@ EXCEPT !.eep = calls[i].data.eep, !.measures = calls[i].data.measures]]
           ELSE Reply(i, Denied) /\ UNCHANGED sensorRows
        /\ UNCHANGED <<panels, hidden, popups, available>>

InsertSensor ==
    \E i \in DOMAIN calls :
        /\ calls[i].fn \in {"createSensor", "createLearnSensor"}
        /\ \/ ~calls[i].data.valid /\ Reply(i, Denied) /\ UNCHANGED sensorRows
           \/ TableFull(i, {s \in Sensors : sensorRows[s] = None}) /\ UNCHANGED sensorRows
           \/ \E s \in Sensors :
                /\ calls[i].data.valid /\ sensorRows[s] = None /\ Executed(i, "done")
                /\ sensorRows' = [sensorRows EXCEPT ![s] =
                    [groups |-> {calls[i].key}, eep |-> calls[i].data.eep, measures |-> calls[i].data.measures]]
        /\ UNCHANGED <<panels, hidden, popups, available>>

LinkSensor ==
    \E i \in DOMAIN calls :
        /\ calls[i].fn = "addExistingSensor"
        /\ LET s == calls[i].key[2]
           IN  sensorRows' = IF sensorRows[s] = None THEN sensorRows
                             ELSE [sensorRows EXCEPT ![s].groups = @ \cup {calls[i].key[1]}]
        /\ Executed(i, "done") /\ UNCHANGED <<panels, hidden, popups, available>>

\* A sensor that is in no group any more goes.
Leave(row, g) ==
    IF row = None THEN None
    ELSE IF row.groups \subseteq {g} THEN None ELSE [row EXCEPT !.groups = @ \ {g}]

UnlinkSensor ==
    \E i \in DOMAIN calls :
        /\ calls[i].fn = "deleteSensor"
        /\ sensorRows' = [sensorRows EXCEPT ![calls[i].key[2]] = Leave(@, calls[i].key[1])]
        /\ Executed(i, "done") /\ UNCHANGED <<panels, hidden, popups, available>>

-----------------------------------------------------------------------------
(* The callbacks. *)

\* The panels are built anew; an empty answer removes them.
SensorsHeard ==
    \E i \in DOMAIN calls :
        /\ calls[i].fn = "getSensorsFromId" /\ Heard(i, <<>>)
        /\ panels' = [p \in Panels |-> IF InPopup(p) THEN panels[p]
                                       ELSE IF p \in DOMAIN calls[i].answer THEN Shown(calls[i].answer[p])
                                       ELSE None]
        /\ UNCHANGED <<sensorRows, hidden, popups, available>>


\* A list asked for by an edit goes to the panel sensorId names now.
EditListHeard(fn, change(_, _)) ==
    \E i \in DOMAIN calls :
        /\ calls[i].fn = fn /\ Listed(i, <<>>)
        /\ panels' = Write(panels, hidden.sensorId, LAMBDA panel :
                change(panel, Loaded(calls[i].data[1], calls[i].data[2])))
        /\ UNCHANGED <<sensorRows, hidden, popups, available>>

EditRorgsHeard == EditListHeard("editRorgs", LAMBDA panel, list : [panel EXCEPT !.rorg = list])
EditFunctionsHeard == EditListHeard("editFunctions", LAMBDA panel, list : [panel EXCEPT !.function = list])
EditTypesHeard == EditListHeard("editTypes", LAMBDA panel, list : [panel EXCEPT !.type = list])

\* Likewise in the functions getEep*; what was wanted and is found has the next list loaded.  Those that nothing
\* is wanted of are called by a choice, in whichever panel.
EepRorgsHeard ==
    \E i \in DOMAIN calls :
        LET c == calls[i]
        IN  /\ c.fn = "getEepRorgs"
            /\ panels' = Write(panels, hidden.sensorId, LAMBDA panel :
                    [panel EXCEPT !.rorg = Loaded(Rorgs, c.data[1])])
            /\ Listed(i, IF c.data[1] \in Rorgs
                         THEN <<GetEepFunctions(panels', c.data)>> ELSE <<>>)
            /\ UNCHANGED <<sensorRows, hidden, popups, available>>

EepFunctionsHeard ==
    \E i \in DOMAIN calls :
        LET c == calls[i]  functions == FunctionsUnder(c.data.under)
        IN  /\ c.fn = "getEepFunctions"
            /\ panels' = Write(panels, hidden.sensorId, LAMBDA panel :
                    [panel EXCEPT !.function = Loaded(functions, c.data.wanted[2]),
                                  !.touched = @ \/ c.data.wanted = Unselected])
            /\ Listed(i, IF (Cardinality(functions) = 1 \/ c.data.wanted[2] \in functions)
                                                 THEN <<GetEepTypes(panels', c.data.wanted)>> ELSE <<>>)
            /\ UNCHANGED <<sensorRows, hidden, popups, available>>

EepTypesHeard ==
    \E i \in DOMAIN calls :
        LET c == calls[i]
            types == TypesUnder(c.data.under[1], c.data.under[2])
            next == (Cardinality(types) = 1 \/ c.data.wanted[3] \in types)
        IN  /\ c.fn = "getEepTypes"
            /\ panels' = Write(panels, hidden.sensorId, LAMBDA panel :
                    [panel EXCEPT !.type = Loaded(types, c.data.wanted[3]),
                                  !.touched = @ \/ c.data.wanted = Unselected])
            /\ Listed(i, IF next THEN <<GetMeasureTypes(panels')>> ELSE <<>>)
            /\ available' = IF next THEN None ELSE available
            /\ popups' = IF next THEN OverPopup(popups) \cup {"manageMeasure"} ELSE popups
            /\ UNCHANGED <<sensorRows, hidden>>

\* For an EEP that is not in the file the answer is not JSON.
MeasureTypesHeard ==
    \E i \in DOMAIN calls :
        /\ calls[i].fn = "getMeasureTypes" /\ Listed(i, <<>>)
        /\ available' = IF calls[i].data \in EepTree THEN calls[i].data ELSE available
        /\ UNCHANGED <<sensorRows, panels, hidden, popups>>

\* updateSensor ends with cancelSensor: the panel shows the EEP it was shown with, not the one just saved, and
\* an edit that leaves the lists alone would save the former again.
SensorUpdated ==
    \E i \in DOMAIN calls :
        /\ calls[i].fn = "updateSensor" /\ Heard(i, <<>>)
        /\ panels' = Write(panels, calls[i].key, Restored)
        /\ UNCHANGED <<sensorRows, hidden, popups, available>>

\* Mutated: the sensors are not loaded again.
SensorDeletedQuietly ==
    \E i \in DOMAIN calls :
        /\ calls[i].fn = "deleteSensor" /\ Heard(i, <<>>)
        /\ UNCHANGED sensorVars

SensorDeleted ==
    \E i \in DOMAIN calls :
        /\ calls[i].fn = "deleteSensor" /\ Heard(i, <<GetSensorsFromId(hidden.groupId)>>)
        /\ UNCHANGED sensorVars

\* The pop-up is closed; its inputs are emptied but for the rorg.
Emptied(panel) == [panel EXCEPT !.function.value = None, !.type.value = None, !.measures = None]
SensorCreated ==
    \E i \in DOMAIN calls, p \in {New, Learn} :
        /\ calls[i].fn = (IF p = New THEN "createSensor" ELSE "createLearnSensor")
        /\ Heard(i, <<GetSensorsFromId(hidden.groupId)>>)
        /\ panels' = [panels EXCEPT ![p] = Emptied(@)]
        /\ popups' = popups \ {"addSensor"}
        /\ UNCHANGED <<sensorRows, hidden, available>>

\* The result of every call is shown, the last to arrive stays.
SearchHeard ==
    \E i \in DOMAIN calls :
        /\ calls[i].fn = "searchSensor" /\ Heard(i, <<>>)
        /\ hidden' = [hidden EXCEPT !.results = calls[i].answer]
        /\ UNCHANGED <<sensorRows, panels, popups, available>>

SensorLinked ==
    \E i \in DOMAIN calls :
        /\ calls[i].fn = "addExistingSensor" /\ Heard(i, <<GetSensorsFromId(hidden.groupId)>>)
        /\ popups' = popups \ {"addSensor"}
        /\ hidden' = [hidden EXCEPT !.results = {}]
        /\ UNCHANGED <<sensorRows, panels, available>>

\* A single device is chosen at once; of several the browser shows the first without choosing it.
DevicesHeard ==
    \E i \in DOMAIN calls, devices \in Discovered :
        /\ calls[i].fn = "getSensorsInLearnMode"
        /\ hidden' = [hidden EXCEPT !.devices = devices]
        /\ \/ Cardinality(devices) # 1 /\ Listed(i, <<>>) /\ UNCHANGED panels
           \/ \E eep \in devices :
                /\ devices = {eep} /\ Listed(i, <<GetEepRorgs(Wanted(eep))>>)
                /\ panels' = [panels EXCEPT ![Learn].meant = eep, ![Learn].touched = FALSE]
        /\ UNCHANGED <<sensorRows, popups, available>>

\* A group is selected and its sensors are shown; on the page of groups that is still to come.
SensorInit ==
    /\ sensorRows \in SensorRows
    /\ \E g \in Groups :
        /\ g = Min(Groups)
        /\ hidden = [sensorId |-> New, groupId |-> IF page = "groups" THEN None ELSE g,
                     results |-> {}, devices |-> {}]
        /\ panels = [p \in Panels |-> IF InPopup(p) THEN Draft
                                      ELSE IF page = "sensors" /\ p \in InGroup(g) THEN Shown(sensorRows[p])
                                      ELSE None]
    /\ popups = {} /\ available = None
=============================================================================
