--------------------------- MODULE MCWebLibraries ---------------------------
EXTENDS WebLibraries

\* An element with a queue, and another one beside it.
MCMaxItems == <<2, 1>>

\* The first and the last of all times.
MCGiven == {<<0, 0>>, <<1, 1>>}

\* No limits, a first moment, and two moments on two days or on one.
Moment(date, hour, minute) == [date |-> date, time |-> <<hour, minute>>]
MCLimits ==
    {[min |-> Moment(0, 0, 0), max |-> Moment(9, 0, 0)], [min |-> Moment(2, 1, 0), max |-> Moment(9, 0, 0)],
     [min |-> Moment(1, 0, 1), max |-> Moment(2, 0, 1)], [min |-> Moment(2, 0, 1), max |-> Moment(2, 1, 0)]}
=============================================================================
