----------------------------- MODULE SearchPanel -----------------------------
(***************************************************************************)
(* data_visualization.html: at each key the sensors, or the groups, are    *)
(* fetched again and those that match are listed; for every group found    *)
(* two more calls fill in its details and its sensors.                     *)
(***************************************************************************)
EXTENDS WebRequests

CONSTANTS
    Terms,              \* what is typed into the input
    SearchedSensors,    \* the server's sensors: id -> [name, path: the terms they contain, or None]
    SearchedGroups      \* the server's groups: id -> [name: terms, sensors]

ASSUME SearchAssumption == IsFiniteSet(DOMAIN SearchedGroups)

\* The rows do not change while the page is open.
VARIABLE search         \* the input, the lists of sensors and groups, what is shown of each group

\* What a callback makes of the sensors.  The path of a sensor at a root location is null: without a
\* match in the name the callback throws, and the list stays as it was.
Matches(term, s) == term \in SearchedSensors[s].name \/ term \in SearchedSensors[s].path
Throws(term) == \E s \in DOMAIN SearchedSensors :
                    term \notin SearchedSensors[s].name /\ SearchedSensors[s].path = None
SensorsFor(term) == {s \in DOMAIN SearchedSensors : Matches(term, s)}
GroupsFor(term) == {g \in DOMAIN SearchedGroups : term \in SearchedGroups[g].name}

SearchSensorSelection(term) ==
    /\ term # search.term
    /\ Click("search", <<Call("searchSensorSelection", term, None)>>)
    /\ search' = [search EXCEPT !.term = term]

SearchGroups(term) ==
    /\ term # search.groupTerm
    /\ Click("search", <<Call("searchGroups", term, None)>>)
    /\ search' = [search EXCEPT !.groupTerm = term]

SelectionHeard ==
    \E i \in DOMAIN calls :
        /\ calls[i].fn = "searchSensorSelection" /\ Listed(i, <<>>)
        /\ search' = IF Throws(calls[i].key) THEN search
                     ELSE [search EXCEPT !.sensors = SensorsFor(calls[i].key)]

\* getGroupDetails and getGroupSensors are called for each group before the new list is shown.
CallsFor(groups) ==
    [k \in 1..(2 * Cardinality(groups)) |->
        Call(IF k % 2 = 1 THEN "getGroupDetails" ELSE "getGroupSensors", SetToSeq(groups)[(k + 1) \div 2], None)]
GroupsFound ==
    \E i \in DOMAIN calls :
        LET found == GroupsFor(calls[i].key)
        IN  /\ calls[i].fn = "searchGroups" /\ Listed(i, CallsFor(found))
            /\ search' = [search EXCEPT !.groups = [g \in found |-> [details |-> FALSE, sensors |-> {}]]]

\* An answer for a group that is no longer listed finds no place; an empty one is not shown.
GroupFilled ==
    \E i \in DOMAIN calls :
        LET g == calls[i].key
        IN  /\ calls[i].fn \in {"getGroupDetails", "getGroupSensors"} /\ Listed(i, <<>>)
            /\ search' = IF g \notin DOMAIN search.groups THEN search
                         ELSE IF calls[i].fn = "getGroupDetails" THEN [search EXCEPT !.groups[g].details = TRUE]
                         ELSE [search EXCEPT !.groups[g].sensors = SearchedGroups[g].sensors]

SearchInit ==
    search = [term |-> None, groupTerm |-> None, sensors |-> {}, groups |-> <<>>]
=============================================================================
