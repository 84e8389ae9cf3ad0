------------------------------ MODULE GraphPage ------------------------------
(***************************************************************************)
(* display.html: displayGraphs draws one graph for each type of measure of *)
(* the selected sensors, in one go, with synchronous calls.                *)
(***************************************************************************)
EXTENDS WebRequests

CONSTANTS
    Catalogues,     \* what the servlet may answer: id -> sequence of measures [id, type, unit]
    Selections,     \* sequences of sensors that may be selected
    Dates, Today    \* the dates of measurements and the current dates, each [year, month, day]

VARIABLE graphPage  \* the catalogue, the selection, the graphs once they are drawn, a date and how it is plotted

-----------------------------------------------------------------------------
(* The lists. *)

\* Mutated: a list may name a thing twice.
AddAny(list, x) == Append(list, x)
AddNew(list, x) == IF Contains(list, x) THEN list ELSE Append(list, x)
MeasuresOf(id, sensors) == IF id \in DOMAIN sensors THEN sensors[id] ELSE <<>>
Project(measures, field) == [k \in DOMAIN measures |-> measures[k][field]]

getTypes(id, types, sensors) == FoldLeft(AddNew, types, Project(MeasuresOf(id, sensors), "type"))
\* The units are listed on their own, each once.
getUnits(id, units, sensors) == FoldLeft(AddNew, units, Project(MeasuresOf(id, sensors), "unit"))
getTypesForSensor(id, sensors) == Project(MeasuresOf(id, sensors), "type")
\* The last measure of that type.
getMeasureId(id, type, sensors) ==
    FoldLeft(LAMBDA found, m : IF m.type = type THEN m.id ELSE found, None, MeasuresOf(id, sensors))

-----------------------------------------------------------------------------
(* Drawing. *)

\* One turn of the loop over the sensors, in the graph i: the series of sensor id are added, then the
\* subtitle is set in the graph that the variable "chart" holds: of this turn, or of an earlier one.
Turn(i, id, sensors, drawing) ==
    LET type == drawing.graphs[i].type
        hits == SelectSeq(getTypesForSensor(id, sensors), LAMBDA t : t = type)
        series == [k \in DOMAIN hits |-> getMeasureId(id, type, sensors)]
        subtitle == drawing.subtitle \o [k \in DOMAIN hits |-> id]
        chart == IF hits = <<>> THEN drawing.chart ELSE i
        graphs == [drawing.graphs EXCEPT ![i].series = @ \o series]
    IN  IF drawing.thrown \/ chart = None THEN [drawing EXCEPT !.thrown = TRUE]
        ELSE [drawing EXCEPT !.graphs = [graphs EXCEPT ![chart].subtitle = subtitle],
                             !.subtitle = subtitle, !.chart = chart]

\* The graphs before any series: every container is there, a chart comes with its turn.
Containers(selection, sensors) ==
    LET types == FoldLeft(LAMBDA ts, id : getTypes(id, ts, sensors), <<>>, selection)
        units == FoldLeft(LAMBDA us, id : getUnits(id, us, sensors), <<>>, selection)
    IN  [i \in DOMAIN types |->
            [type |-> types[i], unit |-> IF i \in DOMAIN units THEN units[i] ELSE None,
             series |-> <<>>, subtitle |-> <<>>]]

Drawn(selection, sensors) ==
    LET graphs == Containers(selection, sensors)
        Graph(drawing, i) ==
            FoldLeft(LAMBDA d, id : Turn(i, id, sensors, d), [drawing EXCEPT !.subtitle = <<>>], selection)
    IN  FoldLeft(Graph, [graphs |-> graphs, subtitle |-> <<>>, chart |-> None, thrown |-> FALSE],
                 [i \in DOMAIN graphs |-> i])

DisplayGraphs ==
    /\ page = "graphs" /\ graphPage.drawing = None
    /\ graphPage' = [graphPage EXCEPT !.drawing = Drawn(graphPage.selection, graphPage.catalogue)]
    /\ UNCHANGED web

\* getJsonDatas reads dateFrom, which is neither a variable of the page nor an element of it: it throws.
DownloadCsv ==
    /\ page = "graphs" /\ graphPage.drawing # None
    /\ Click("graphs", <<>>) /\ UNCHANGED graphPage

-----------------------------------------------------------------------------
(* Dates. *)

DaysIn(year, month) ==
    IF month \in {4, 6, 9, 11} THEN 30 ELSE IF month # 2 THEN 31 ELSE IF year % 4 = 0 THEN 29 ELSE 28

ASSUME DatesAssumption ==
    \A date \in Dates \cup Today :
        date \in [year : Nat, month : 1..12, day : 1..31] /\ date.day =< DaysIn(date.year, date.month)

\* A day too many for the month is carried over into the next one; it has at least 28 days.
Carry(date) ==
    IF date.day =< DaysIn(date.year, date.month) THEN date
    ELSE [date EXCEPT !.month = @ + 1, !.day = @ - DaysIn(date.year, date.month)]

\* Mutated: the month goes in first.
PlottedMonthFirst(date, today) ==
    LET monthed == Carry([today EXCEPT !.month = date.month])
        dayed == Carry([monthed EXCEPT !.day = date.day])
    IN  Carry([dayed EXCEPT !.year = date.year])

\* getDatas: the parts of the date go into the current date one by one, the day first.
Plotted(date, today) ==
    LET dayed == Carry([today EXCEPT !.day = date.day])
        yeared == Carry([dayed EXCEPT !.year = date.year])
    IN  Carry([yeared EXCEPT !.month = date.month])

PlotPoint ==
    \E date \in Dates, today \in Today :
        /\ page = "graphs" /\ graphPage.drawing # None /\ ~graphPage.drawing.thrown
        /\ graphPage.point = None
        /\ graphPage' = [graphPage EXCEPT !.point =
                            [date |-> date, today |-> today, plotted |-> Plotted(date, today)]]
        /\ UNCHANGED web

GraphInit ==
    /\ graphPage \in [catalogue : Catalogues, selection : Selections, drawing : {None}, point : {None}]
=============================================================================
