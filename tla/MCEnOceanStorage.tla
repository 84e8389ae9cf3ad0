--------------------------- MODULE MCEnOceanStorage ---------------------------
(* A sensor with one measure, in a group and at a location below a root; who uses it is a matter of *)
(* the scenario.                                                                                   *)
EXTENDS EnOceanStorage, TLC

CONSTANTS c1, c2, w1, w2, g1, g2, a1, s1, m1, r1, r2, r3, k1, k2, l1, l2, l3, T, x, y

TablesWith(clients) ==
    [group |-> {g1}, sensor |-> s1 :> [address |-> a1, location |-> l2],
     groupSensor |-> {<<g1, s1>>},
     measure |-> m1 :> [sensor |-> s1, shortcut |-> T, last |-> None],
     client |-> clients, data |-> <<>>,
     location |-> l1 :> [parent |-> None, name |-> x, path |-> None]
               @@ l2 :> [parent |-> l1, name |-> y, path |-> <<x>>]]

\* A new value takes a key that nothing refers to, so that which one it takes makes no difference.
RowKeys == Permutations(Rows)

\* Two clients of a measure, one that comes and goes and one that leaves.
TwoClients ==
    [calls |-> {c1} \X {"addClient", "removeClient"}
               \cup {<<c2, "removeClient">>, <<Reader, "radioTelegram">>},
     tables |-> TablesWith(k2 :> [measure |-> m1, referer |-> c2, days |-> 1])]

\* A client and an administrator, while telegrams arrive.
ClientAndAdmin ==
    [calls |-> {c1} \X {"addClient", "removeClient"} \cup {<<Reader, "radioTelegram">>}
               \cup {w1} \X {"deleteSensor", "deleteGroup"},
     tables |-> TablesWith(<<>>)]

\* Two administrators at the same sensor.
TwoAdmins ==
    [calls |-> {w1, w2} \X {"addGroup", "deleteGroup", "addSensor", "addSensorToGroup",
                            "deleteSensor", "updateSensor"},
     tables |-> TablesWith(<<>>)]

\* Two administrators at the locations.
TwoPlanners ==
    [calls |-> {w1, w2} \X {"addLocation", "updateLocation"}
               \cup {<<w1, "addRoot">>, <<w1, "deleteLocation">>},
     tables |-> TablesWith(<<>>)]

AllScenarios == {TwoClients, ClientAndAdmin, TwoAdmins, TwoPlanners}

\* One administrator deletes the group.
GroupAlone == {[calls |-> {<<w1, "deleteGroup">>}, tables |-> TablesWith(<<>>)]}
=============================================================================
