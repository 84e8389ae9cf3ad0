---------------------------- MODULE LocationPanel ----------------------------
(***************************************************************************)
(* The pop-up "Manage location" of configuration.html: the tree of         *)
(* locations, loaded level by level, a form to create or change one, and   *)
(* the choice of a location for the sensor panel that sensorId names.      *)
(***************************************************************************)
EXTENDS SensorPanel

CONSTANTS
    Places,         \* primary keys of locations
    PlaceTypes,     \* location types
    PlaceRows       \* what the rows of the locations may be at first

ASSUME PlacesAssumption ==
    \A rows \in PlaceRows :
        /\ DOMAIN rows = Places
        /\ \A l \in Places : rows[l] # None => DOMAIN rows[l] = {"parent", "name", "type"} /\ rows[l].name = l

VARIABLES
    placeRows,      \* the server's locations
    location,       \* the elements of the pop-up
    placeOf         \* the location that each sensor panel shows

locationVars == <<placeRows, location, placeOf>>

\* Of a name all that counts is from which row it was loaded, None for one that was typed.
\* typed (history): the user has chosen the type.
BlankForm == [name |-> None, type |-> None, chosen |-> FALSE]
Buttons(kind, l) == [kind |-> kind, of |-> l]

InLocations(new) == Click("locations", new) /\ UNCHANGED <<sensorVars, placeRows>>
AnotherForm(new) == EndEdit("locations", new) /\ UNCHANGED <<sensorVars, placeRows>>
Managing == "manageLocation" \in popups /\ page = "locations"

\* manageLocation clears the form and opens the pop-up; the tree comes with the answer.
GetRoots == Call("manageLocation", None, None)
Manage(open) == OverPopup(open) \cup {"manageLocation"}
FormClosed(l) == [l EXCEPT !.form = None, !.buttons = Buttons("root", None)]

-----------------------------------------------------------------------------
(* The user. *)

\* A click on the location of the panel.
ManageLocation ==
    /\ ~Managing
    /\ Click("locations", <<GetRoots>>)
    /\ popups' = Manage(popups) /\ location' = [location EXCEPT !.form = None]
    /\ UNCHANGED <<sensorRows, panels, hidden, available, placeRows, placeOf>>

\* A click on a location of the tree: getLocationChilds and selectLocation.
SelectLocation(l) ==
    /\ Managing /\ \E p \in Places \cup {None} : <<p, l>> \in location.tree
    /\ AnotherForm(<<Call("getLocationChilds", l, None)>>)
    /\ location' = [location EXCEPT !.selected = l, !.form = None, !.buttons = Buttons("selected", l)]
    /\ UNCHANGED placeOf

SaveLocation ==
    /\ Managing /\ Click("locations", <<>>)
    /\ placeOf' = [placeOf EXCEPT ![hidden.sensorId] = location.selected]
    /\ popups' = (popups \ {"manageLocation"}) \cup (IF InPopup(hidden.sensorId) THEN {"addSensor"} ELSE {})
    /\ UNCHANGED <<sensorRows, panels, hidden, available, placeRows, location>>

AddRootLocation ==
    /\ Managing /\ location.buttons.kind = "root"
    /\ AnotherForm(<<Call("locationTypes", None, None)>>)
    /\ location' = [location EXCEPT !.form = BlankForm, !.buttons = Buttons("createRoot", None)]
    /\ UNCHANGED placeOf

AddLocation(l) ==
    /\ Managing /\ location.buttons = Buttons("selected", l)
    /\ AnotherForm(<<Call("locationTypes", None, None)>>)
    /\ location' = [location EXCEPT !.form = BlankForm, !.buttons = Buttons("create", l)]
    /\ UNCHANGED placeOf

\* Two calls at once.  The second answer selects the type that the first has left in a variable of this
\* very edit, which the number of the click identifies.
EditLocation(l) ==
    /\ Managing /\ location.buttons = Buttons("selected", l)
    /\ InLocations(<<Call("editLocation", l, clicks), Call("editLocationTypes", clicks, None)>>)
    /\ location' = [location EXCEPT !.form = BlankForm, !.buttons = Buttons("update", l)]
    /\ UNCHANGED placeOf

ChooseType(t) ==
    /\ Managing /\ location.form # None /\ location.form.type \notin {None, t}
    /\ InLocations(<<>>)
    /\ location' = [location EXCEPT !.form.type = t, !.form.chosen = TRUE]
    /\ UNCHANGED placeOf

CancelLocation ==
    /\ Managing /\ location.buttons.kind \in {"createRoot", "create", "update"}
    /\ EndEdit("locations", <<>>) /\ location' = FormClosed(location)
    /\ UNCHANGED <<sensorVars, placeRows, placeOf>>

\* createRootLocation, createLocation, updateLocation: what the buttons say, with what the form shows.
SaveForm ==
    /\ Managing /\ location.buttons.kind \in {"createRoot", "create", "update"} /\ location.form # None
    /\ EndEdit("locations", <<Call(IF location.buttons.kind = "update" THEN "updateLocation" ELSE "createLocation",
                                   location.buttons.of, location.form)>>)
    /\ UNCHANGED <<sensorVars, locationVars>>

DeleteLocation(l) ==
    /\ Managing /\ location.buttons = Buttons("selected", l)
    /\ InLocations(<<Call("deleteLocation", l, None)>>)
    /\ UNCHANGED <<location, placeOf>>

-----------------------------------------------------------------------------
(* The servlet. *)

ChildrenOf(l) == {k \in Places : placeRows[k] # None /\ placeRows[k].parent = l}

ReadPlaces ==
    \E i \in DOMAIN calls :
        /\ calls[i].fn \in {"manageLocation", "getLocationChilds"}
        /\ Reply(i, ChildrenOf(calls[i].key))
        /\ UNCHANGED <<sensorVars, locationVars>>

ReadPlace ==
    \E i \in DOMAIN calls :
        /\ calls[i].fn = "editLocation"
        /\ Reply(i, IF placeRows[calls[i].key] = None THEN Null ELSE placeRows[calls[i].key])
        /\ UNCHANGED <<sensorVars, locationVars>>

ReadTypes ==
    \E i \in DOMAIN calls :
        /\ calls[i].fn \in {"locationTypes", "editLocationTypes"} /\ Reply(i, PlaceTypes)
        /\ UNCHANGED <<sensorVars, locationVars>>

\* A location without a type breaks a foreign key of the table: status 500.
StorePlace ==
    \E i \in DOMAIN calls :
        LET c == calls[i]
            free == {l \in Places : placeRows[l] = None}
        IN  /\ c.fn \in {"createLocation", "updateLocation"}
            /\ \/ c.data.type = None /\ Reply(i, Denied) /\ UNCHANGED placeRows
               \/ c.fn = "createLocation" /\ TableFull(i, free) /\ UNCHANGED placeRows
               \/ \E l \in IF c.fn = "createLocation" THEN free ELSE {c.key} :
                    /\ c.data.type # None /\ Executed(i, "done")
                    /\ placeRows' = IF c.fn = "createLocation"
                                    THEN [placeRows EXCEPT ![l] =
                                            [parent |-> c.key, name |-> c.data.name, type |-> c.data.type]]
                                    ELSE IF placeRows[l] = None THEN placeRows
                                    ELSE [placeRows EXCEPT ![l].name = c.data.name, ![l].type = c.data.type]
            /\ UNCHANGED <<sensorVars, location, placeOf>>

\* A location with children (or with sensors) stays.
RemovePlace ==
    \E i \in DOMAIN calls :
        /\ calls[i].fn = "deleteLocation"
        /\ placeRows' = IF ChildrenOf(calls[i].key) # {} THEN placeRows
                        ELSE [placeRows EXCEPT ![calls[i].key] = None]
        /\ Executed(i, "done") /\ UNCHANGED <<sensorVars, location, placeOf>>

-----------------------------------------------------------------------------
(* The callbacks. *)

\* The tree starts again with its roots, unless there are none.
RootsHeard ==
    \E i \in DOMAIN calls :
        /\ calls[i].fn = "manageLocation" /\ Heard(i, <<>>)
        /\ location' = IF calls[i].answer = {} THEN location
                       ELSE [location EXCEPT !.tree = {None} \X calls[i].answer,
                                             !.buttons = Buttons("root", None)]
        /\ UNCHANGED <<sensorVars, placeRows, placeOf>>

\* What was shown below the location is replaced; a location that is not shown has no place for children.
Below(tree, l) ==
    LET below[n \in Nat] ==    \* down to n levels
            IF n = 0 THEN {} ELSE {e \in tree : e[1] = l \/ \E d \in below[n - 1] : d[2] = e[1]}
    IN  below[Cardinality(tree)]

ChildrenHeard ==
    \E i \in DOMAIN calls :
        /\ calls[i].fn = "getLocationChilds" /\ Heard(i, <<>>)
        /\ LET l == calls[i].key
           IN  location' = IF \A e \in location.tree : e[2] # l THEN location
                           ELSE [location EXCEPT !.tree = (@ \ Below(@, l)) \cup ({l} \X calls[i].answer)]
        /\ UNCHANGED <<sensorVars, placeRows, placeOf>>

\* The inputs are those of the form shown by now.  For a row that is gone the callback throws.
PlaceHeard ==
    \E i \in DOMAIN calls :
        LET c == calls[i]
        IN  /\ c.fn = "editLocation" /\ c.answer \notin {None, Failed, Denied} /\ page # "left"
            /\ overtaken' = overtaken \cup {calls[j].fn : j \in 1..(i - 1)}
            /\ calls' = [j \in 1..(Len(calls) - 1) |->
                    LET d == RemoveAt(calls, i)[j]
                    IN  IF d.fn = "editLocationTypes" /\ d.key = c.data /\ c.answer # Null
                        THEN [d EXCEPT !.data = c.answer.type] ELSE d]
            /\ location' = IF location.form = None \/ c.answer = Null THEN location
                           ELSE [location EXCEPT !.form.name = c.answer.name]
            /\ UNCHANGED <<page, clicks, failures, hasty, sensorVars, placeRows, placeOf>>

TypesHeard ==
    \E i \in DOMAIN calls :
        /\ calls[i].fn \in {"locationTypes", "editLocationTypes"} /\ Heard(i, <<>>)
        /\ location' = IF location.form = None THEN location
                       ELSE [location EXCEPT !.form.type = Loaded(PlaceTypes, calls[i].data).value]
        /\ UNCHANGED <<sensorVars, placeRows, placeOf>>

\* Whether the pop-up is still open or not, it opens.
PlaceSaved ==
    \E i \in DOMAIN calls :
        /\ calls[i].fn \in {"createLocation", "updateLocation", "deleteLocation"} /\ Heard(i, <<GetRoots>>)
        /\ location' = IF calls[i].fn = "deleteLocation" THEN [location EXCEPT !.form = None]
                       ELSE FormClosed(location)
        /\ popups' = Manage(popups)
        /\ UNCHANGED <<sensorRows, panels, hidden, available, placeRows, placeOf>>

LocationInit ==
    /\ placeRows \in PlaceRows
    /\ location = [tree |-> {}, form |-> None, buttons |-> Buttons("root", None), selected |-> None]
    /\ placeOf = [p \in Panels |-> None]
=============================================================================
