---------------------------- MODULE LocationAdmin ----------------------------
(***************************************************************************)
(* The tree of locations.  Each row stores the path of names from its      *)
(* parent to the root (loc_path), by which sensors are found; whoever      *)
(* renames a location rewrites the paths below it.                         *)
(***************************************************************************)
EXTENDS EnOceanTables, SequencesExt

CONSTANT LocationThreads    \* the threads of RestInterface

ASSUME LocationAssumption == LocationThreads \subseteq Threads /\ IsFiniteSet(Locations)

Children(l) == {k \in DOMAIN db.location : db.location[k].parent = l}
ParentOf(l) == IF l \in DOMAIN db.location THEN db.location[l].parent ELSE None

\* getLocationPath(l): one SELECT for the parent, then one for each name up to the root.
\* frame.location is the row whose name is read next, frame.path the names so far, frame.pending
\* the rows whose path is still to be written, the first one being the row in work.
FindPath(t, l, f) ==
    Goto(t, "readName", [f EXCEPT !.location = ParentOf(l), !.path = <<>>])

\* addLocation with a parent, which the page has shown and may be gone by now.
AddLocation(t, parent, name) ==
    /\ Starts(t, LocationThreads, "addLocation")
    /\ LET fresh == FreshKeys(Locations, db.location, HeldLocations)
           key == NewKey(fresh)
           row == [parent |-> parent, name |-> name, path |-> None]
       IN  /\ fresh # {} /\ parent # key
           /\ Execute(t, [db EXCEPT !.location = Insert(@, key, row)], "findPath",
                      [NoFrame EXCEPT !.op = "addLocation", !.pending = <<key>>])

\* addLocation of a root: its path stays NULL.
AddRoot(t, name) ==
    /\ Starts(t, LocationThreads, "addRoot")
    /\ LET fresh == FreshKeys(Locations, db.location, HeldLocations)
           row == [parent |-> None, name |-> name, path |-> None]
       IN  /\ fresh # {}
           /\ db' = [db EXCEPT !.location = Insert(@, NewKey(fresh), row)]
    /\ UNCHANGED <<pc, frame>>

\* updateLocation changes the name, then updateChildsPath lists the children.
UpdateLocation(t, l, name) ==
    /\ Starts(t, LocationThreads, "updateLocation")
    /\ l \in DOMAIN db.location
    /\ db' = [db EXCEPT !.location[l].name = name]
    /\ Goto(t, "listChildren", [NoFrame EXCEPT !.op = "updateLocation", !.location = l])

ListChildren(t) ==
    /\ pc[t] = "listChildren"
    /\ Goto(t, "findPath", [frame[t] EXCEPT !.location = None,
                                            !.pending = SetToSeq(Children(frame[t].location)) \o @])
    /\ UNCHANGED db

SelectParent(t) ==
    /\ pc[t] = "findPath"
    /\ \/ frame[t].pending = <<>> /\ End(t)
       \/ frame[t].pending # <<>> /\ FindPath(t, Head(frame[t].pending), frame[t])
    /\ UNCHANGED db

ReadName(t) ==
    /\ pc[t] = "readName"
    /\ LET l == frame[t].location
       IN  IF l \in DOMAIN db.location
           THEN Goto(t, "readName", [frame[t] EXCEPT !.location = ParentOf(l),
                                                     !.path = Append(@, db.location[l].name)])
           ELSE Goto(t, "writePath", frame[t])
    /\ UNCHANGED db

\* Mutated: only the direct children are rewritten.
WritePathOnly(t) ==
    /\ pc[t] = "writePath"
    /\ LET l == Head(frame[t].pending)
       IN  db' = IF l \in DOMAIN db.location
                 THEN [db EXCEPT !.location[l].path = frame[t].path]
                 ELSE db
    /\ Goto(t, "findPath", [frame[t] EXCEPT !.pending = Tail(@), !.path = <<>>, !.location = None])

\* updateChildsPath goes on with the children of the row it has written, then with its siblings.
WritePath(t) ==
    /\ pc[t] = "writePath"
    /\ LET l == Head(frame[t].pending)
           rest == [frame[t] EXCEPT !.pending = Tail(@), !.path = <<>>, !.location = None]
       IN  /\ db' = IF l \in DOMAIN db.location
                    THEN [db EXCEPT !.location[l].path = frame[t].path]
                    ELSE db
           /\ IF frame[t].op = "updateLocation"
              THEN Goto(t, "listChildren", [rest EXCEPT !.location = l])
              ELSE End(t)

LocationCall(t) ==
    \/ \E parent \in Locations, name \in Names : AddLocation(t, parent, name)
    \/ \E name \in Names : AddRoot(t, name)
    \/ \E l \in Locations, name \in Names : UpdateLocation(t, l, name)
    \/ ListChildren(t) \/ SelectParent(t) \/ ReadName(t) \/ WritePath(t) \/ GiveUp(t)
=============================================================================
