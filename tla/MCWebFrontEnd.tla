---------------------------- MODULE MCWebFrontEnd ----------------------------
EXTENDS WebFrontEnd, TLC

Bounds ==
    [sensors |->    [clicks |-> 3, calls |-> 6, failures |-> 0],
     newSensor |->  [clicks |-> 4, calls |-> 3, failures |-> 0],
     groups |->     [clicks |-> 4, calls |-> 3, failures |-> 0],
     locations |->  [clicks |-> 5, calls |-> 3, failures |-> 0],
     users |->      [clicks |-> 4, calls |-> 2, failures |-> 0],
     login |->      [clicks |-> 4, calls |-> 3, failures |-> 1],
     config |->     [clicks |-> 4, calls |-> 3, failures |-> 1],
     search |->     [clicks |-> 3, calls |-> 3, failures |-> 0],
     graphs |->     [clicks |-> 1, calls |-> 1, failures |-> 0]]
Bound(kind) == [p \in DOMAIN Bounds |-> Bounds[p][kind]]
MCMaxClicks == Bound("clicks")
MCMaxCalls == Bound("calls")
MCMaxFailures == Bound("failures")

\* Two functions under one rorg, the second of them with three types; one code is a letter.  Of the sensors and of
\* the devices one each has an EEP that is not the first of any list but that of its rorg.
MCEepTree == {<<165, 2, 1>>, <<165, 4, 1>>, <<165, 4, 2>>, <<165, 4, 11>>, <<213, 0, 1>>}

MCSearches == {{2}, {1, 2}}
MCDiscovered == {{}, {<<165, 4, 11>>}, {<<165, 4, 2>>, <<213, 0, 1>>}}

Sensor(groups, eep) == [groups |-> groups, eep |-> eep, measures |-> eep]
MCSensorRows ==
    {1 :> Sensor({1}, <<165, 4, 11>>) @@ 2 :> Sensor({1, 2}, <<213, 0, 1>>) @@ 3 :> None}

MCPlaceRows ==
    {1 :> [parent |-> None, name |-> 1, type |-> 1] @@ 2 :> [parent |-> 1, name |-> 2, type |-> 2] @@ 3 :> None}

User(u, name, admin) == [of |-> u, name |-> name, password |-> "hash", admin |-> admin, active |-> TRUE]
MCUserRows ==
    {1 :> User(1, "a", TRUE) @@ 2 :> User(2, "b", FALSE) @@ 3 :> None}

MCSearchedSensors ==
    1 :> [name |-> {"x"}, path |-> {"y"}] @@ 2 :> [name |-> {"y"}, path |-> None]
MCSearchedGroups ==
    1 :> [name |-> {"x", "y"}, sensors |-> {1}] @@ 2 :> [name |-> {"y"}, sensors |-> {1, 2}]

Measure(id, type, unit) == [id |-> id, type |-> type, unit |-> unit]
\* None, one or two measures of a sensor; two units of temperature.
MeasuresFor(id) ==
    LET t == Measure(<<id, 1>>, "t", "C")  f == Measure(<<id, 2>>, "t", "F")  h == Measure(<<id, 3>>, "h", "p")
    IN  {<<>>, <<t>>, <<f>>, <<h, t>>}
MCCatalogues == {1 :> m @@ 2 :> n : m \in MeasuresFor(1), n \in MeasuresFor(2)} \cup {1 :> m : m \in MeasuresFor(1)}
MCSelections == {<<1>>, <<1, 2>>}
Date(y, m, d) == [year |-> y, month |-> m, day |-> d]
MCDates == {Date(2012, 2, 29), Date(2013, 1, 31), Date(2013, 4, 30)}
MCToday == {Date(2013, 2, 10), Date(2013, 12, 31)}
=============================================================================
