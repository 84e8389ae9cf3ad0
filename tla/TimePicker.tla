----------------------------- MODULE TimePicker -----------------------------
(***************************************************************************)
(* A field with a datetimepicker: the add-on, and what it overrides of the *)
(* datepicker of jQuery UI.  The calendar, the sliders and the text of the *)
(* field each have their own idea of the date, which every event brings    *)
(* together in an order of its own.  The state of one picker is a record,  *)
(* and a function of the code one on such records; an action is an event,  *)
(* or a call of the page, with all that it calls.                          *)
(*                                                                         *)
(* A date is a number, each in a month of its own; a time is a sequence of *)
(* units, the largest first.  Time zones are left out, but for what they   *)
(* make of the test whether the time has changed.  The pages of EnOcean    *)
(* have version 1.4 of the add-on, the KNX page an older one, 1.3.         *)
(***************************************************************************)
EXTENDS Integers, Sequences

CONSTANTS
    Dates,          \* the dates, from 1
    Today,
    Units,          \* units of a time, as hours and minutes
    LastUnit,       \* the last value of each unit, from 0
    Limits,         \* the options minDateTime and maxDateTime there may be: pairs of moments
    Given,          \* the times that are typed and set, and that a clock shows
    MaxPicks        \* bound: events

VARIABLES
    picker, limits,
    version,        \* of the add-on
    nPicks,
    picked,         \* history: the date that was picked, or 0 where something else has been typed since
    strayed,        \* history: in version 1.4, since the picker was opened or the date picked, the time was moved or
                    \* limited while the calendar showed another date
    browsed         \* history: in version 1.3, another month has been shown since the date was picked

pickerVars == <<picker, limits, version, nPicks, picked, strayed, browsed>>

\* What the field says, and what lastVal, undefined or null, says while the field has not been read.
NoText == [date |-> 0, time |-> <<>>]
Garbage == [date |-> -1, time |-> <<>>]
Unread == [date |-> -2, time |-> <<>>]
NoTime == <<>>
Times == [1..Units -> 0..LastUnit]

\* The pages set no limits.  Two within one hour would need a time beyond both to be limited twice: what is
\* raised and then lowered may be below the first again.
ASSUME LimitsAssumption ==
    /\ Dates \subseteq Nat \ {0} /\ Today \in Dates /\ Given \subseteq Times /\ Units \in Nat \ {0} /\ LastUnit \in Nat
    /\ Limits \subseteq [min : [date : Nat, time : Times], max : [date : Nat \ {0}, time : Times]]
    /\ \A l \in Limits :
        /\ l.min.date =< l.max.date
        /\ l.min.date = l.max.date => l.min.time[1] < l.max.time[1]

Text(date, time) == [date |-> date, time |-> time]
Texts == {NoText, Garbage} \cup {Text(d, t) : d \in Dates, t \in Given \cup {NoTime}}

Before(s, t) == \E i \in DOMAIN s : s[i] < t[i] /\ \A j \in 1..(i - 1) : s[j] = t[j]
InLimits(d, t) ==
    /\ d >= limits.min.date /\ (d = limits.min.date => ~Before(t, limits.min.time))
    /\ d =< limits.max.date /\ (d = limits.max.date => ~Before(limits.max.time, t))

-----------------------------------------------------------------------------
(* jQuery UI: dates are kept between minDate and maxDate. *)

Restricted(d) ==
    IF d < limits.min.date THEN limits.min.date ELSE IF d > limits.max.date THEN limits.max.date ELSE d
Selectable(d) == d = Restricted(d)

\* _setDateFromField: the date of the text, or today's; none is the current one if there is no text.
FromField(p) ==
    LET date == IF p.field.date > 0 THEN p.field.date ELSE Restricted(Today)
    IN  IF p.field = p.lastVal THEN p
        ELSE [p EXCEPT !.lastVal = p.field, !.selected = Restricted(date),
                       !.current = IF p.field = NoText THEN 0 ELSE date]

-----------------------------------------------------------------------------
(* The add-on. *)

\* _limitMinMaxDateTime: on the day of a limit, the units that come after units at, or beyond, that limit
\* are limited too.
Least(p) == p.selected = limits.min.date
Most(p) == p.selected = limits.max.date
Raised(t, min) ==
    [i \in DOMAIN t |-> IF t[i] < min[i] /\ \A j \in 1..(i - 1) : t[j] =< min[j] THEN min[i] ELSE t[i]]
Lowered(t, max) ==
    [i \in DOMAIN t |-> IF t[i] > max[i] /\ \A j \in 1..(i - 1) : t[j] >= max[j] THEN max[i] ELSE t[i]]
Limited(p) ==
    LET raised == IF Least(p) THEN Raised(p.time, limits.min.time) ELSE p.time
    IN  [p EXCEPT !.time = IF Most(p) THEN Lowered(raised, limits.max.time) ELSE raised]

\* The values that the slider of a unit lets the user choose.
SliderMin(p, i) ==
    IF Least(p) /\ \A j \in 1..(i - 1) : p.time[j] =< limits.min.time[j] THEN limits.min.time[i] ELSE 0
SliderMax(p, i) ==
    IF Most(p) /\ \A j \in 1..(i - 1) : p.time[j] >= limits.max.time[j] THEN limits.max.time[i] ELSE LastUnit

\* _updateDateTime of version 1.3: the date that the calendar shows, whatever the user clicked upon; it becomes the
\* one chosen if the field was empty when it was read.
KnxUpdateDateTime(p) ==
    [p EXCEPT !.field = Text(p.selected, p.formatted), !.current = IF p.lastVal = NoText THEN p.selected ELSE @]

\* _updateDateTime: the date chosen, or the one the calendar shows, and the time as last formatted.
UpdateDateTime(p) ==
    IF version = "1.3" THEN KnxUpdateDateTime(p)
    ELSE [p EXCEPT !.field = Text(IF p.current > 0 THEN p.current ELSE p.selected, p.formatted)]

\* _onTimeChange of version 1.3
KnxTimeChanged(p, changed) ==
    LET limited == IF changed THEN Limited(p) ELSE p
        formatted == [limited EXCEPT !.formatted = limited.time, !.timeDefined = TRUE]
    IN  IF changed THEN UpdateDateTime(formatted) ELSE formatted

\* _onTimeChange, after the sliders have been set.  Until it has read the time zone from its list, as a
\* string, it takes it for changed.
TimeChanged(p, changed) ==
    LET limited == IF changed \/ p.numeric THEN Limited(p) ELSE p
        formatted == [limited EXCEPT !.formatted = limited.time, !.timeDefined = TRUE, !.numeric = FALSE]
    IN  CASE version = "1.3" -> KnxTimeChanged(p, changed)
          [] version = "1.4" /\ (changed \/ p.numeric) -> UpdateDateTime(formatted)
          [] OTHER -> formatted

\* _parseTime: a time in another format than the picker's is no time.
TimeDefined(p) == p.field.date > 0 /\ p.field.time # NoTime
Parsed(p) == IF TimeDefined(p) THEN [p EXCEPT !.time = p.field.time] ELSE p

\* _addTimePicker of version 1.3, with _injectTimePicker
KnxAddTimePicker(p) == [TimeChanged(Limited(Parsed(p)), FALSE) EXCEPT !.timeDefined = TimeDefined(p)]

\* _addTimePicker, with _injectTimePicker, after the calendar has been drawn anew
AddTimePicker(p) ==
    IF version = "1.3" THEN KnxAddTimePicker(p)
    ELSE Limited([TimeChanged(Limited(Parsed(p)), FALSE) EXCEPT !.timeDefined = TimeDefined(p)])

\* _setTime
SetTime(p, t) == UpdateDateTime(TimeChanged(Limited([p EXCEPT !.time = t]), FALSE))

\* _selectDay, with the overridden _formatDate and _selectDate: the field is written before the time is limited.
SelectDay(p, d) ==
    LET chosen == [p EXCEPT !.selected = d, !.current = d]
    IN  AddTimePicker(UpdateDateTime(Limited(UpdateDateTime(chosen))))

-----------------------------------------------------------------------------
(* The user. *)

OnPicker(new) == nPicks < MaxPicks /\ nPicks' = nPicks + 1 /\ picker' = new /\ UNCHANGED <<limits, version>>

\* The histories.
Picks(d) == picked' = d /\ strayed' = FALSE /\ browsed' = FALSE
Unpicks == picked' = 0 /\ UNCHANGED <<strayed, browsed>>
KeepsPick == UNCHANGED <<picked, strayed, browsed>>
Strays(p) == version = "1.4" /\ p.current # p.selected /\ p.time # picker.time
Browses(p) ==
    strayed' = (strayed \/ Strays(p)) /\ browsed' = (browsed \/ version = "1.3") /\ UNCHANGED picked

\* _showDatepicker: whatever the field says now counts.
OpenPicker ==
    /\ ~picker.showing
    /\ OnPicker(AddTimePicker(FromField([picker EXCEPT !.showing = TRUE, !.lastVal = Unread])))
    /\ strayed' = FALSE /\ UNCHANGED <<picked, browsed>>

\* Mutated: closing leaves the field as it is.
CloseLeaves ==
    /\ picker.showing
    /\ OnPicker([picker EXCEPT !.showing = FALSE])
    /\ KeepsPick

\* The overridden onClose writes the field again.
ClosePicker ==
    /\ picker.showing
    /\ LET p == [picker EXCEPT !.showing = FALSE]
       IN  OnPicker(IF p.timeDefined /\ p.field # NoText THEN UpdateDateTime(p) ELSE p)
    /\ KeepsPick

PickDay(d) ==
    /\ picker.showing /\ Selectable(d)
    /\ OnPicker(SelectDay(picker, d)) /\ Picks(d)

\* Moves the slider of a unit.
Slide(i, v) ==
    /\ picker.showing /\ v \in SliderMin(picker, i)..SliderMax(picker, i) /\ v # picker.time[i]
    /\ OnPicker(TimeChanged([picker EXCEPT !.time[i] = v], TRUE))
    /\ strayed' = (strayed \/ Strays(picker')) /\ UNCHANGED <<picked, browsed>>

\* Another month is shown; the overridden onChangeMonthYear writes the field.
Browse(d) ==
    /\ picker.showing /\ Selectable(d) /\ d # picker.selected
    /\ OnPicker(AddTimePicker(UpdateDateTime([picker EXCEPT !.selected = d])))
    /\ Browses(picker')

\* The button Now: today is shown, the time is set, and today is clicked upon if that is possible.
PressNow(t) ==
    LET shown == UpdateDateTime([picker EXCEPT !.selected = Today])
        set == SetTime(AddTimePicker([shown EXCEPT !.selected = Restricted(Today)]), t)
    IN  /\ picker.showing
        /\ OnPicker(IF Selectable(Today) THEN SelectDay(set, Today) ELSE set)
        /\ IF Selectable(Today) THEN Picks(Today) ELSE Browses(set)

\* A key: _doKeyUp takes over a text that starts with a date.
TypeText(text) ==
    LET p == [picker EXCEPT !.field = text]
    IN  /\ text # picker.field
        /\ OnPicker(IF text.date > 0 /\ text # p.lastVal THEN AddTimePicker(FromField(p)) ELSE p)
        /\ Unpicks

-----------------------------------------------------------------------------
(* The page. *)

\* setDate, as the EnOcean pages do with the dates to search from and to
SetDate(d, t) ==
    LET drawn == AddTimePicker([picker EXCEPT !.numeric = TRUE])
        date == Restricted(d)
        based == AddTimePicker(UpdateDateTime([drawn EXCEPT !.selected = date, !.current = date]))
    IN  /\ version = "1.4"
        /\ OnPicker(SetTime(FromField(based), t)) /\ Picks(date)

\* getDate: the date of the field is read only if it never was, its time each time.
GetDate ==
    LET p == IF picker.lastVal = Unread THEN FromField(picker) ELSE picker
        parses == p.current > 0 /\ p.field.date > 0 /\ p.field.time # NoTime
    IN  /\ ~picker.showing
        /\ OnPicker(IF parses THEN [p EXCEPT !.time = p.field.time, !.numeric = TRUE] ELSE p)
        /\ KeepsPick

\* val, as the KNX page does with the date of the gateway, whose time is not in the picker's format unless every
\* number of it has two digits.
SetText(d, t) ==
    /\ version = "1.3"
    /\ OnPicker([picker EXCEPT !.field = Text(d, t)]) /\ Unpicks

-----------------------------------------------------------------------------

PickerInit ==
    /\ limits \in Limits /\ version \in {"1.3", "1.4"}
    /\ picker = [field |-> NoText, lastVal |-> Unread, selected |-> Restricted(Today), current |-> 0,
                 showing |-> FALSE, time |-> [i \in 1..Units |-> 0], formatted |-> [i \in 1..Units |-> 0],
                 timeDefined |-> FALSE, numeric |-> TRUE]
    /\ nPicks = 0 /\ picked = 0 /\ strayed = FALSE /\ browsed = FALSE

PickerNext ==
    \/ OpenPicker \/ ClosePicker \/ GetDate
    \/ \E d \in Dates : PickDay(d) \/ Browse(d)
    \/ \E i \in 1..Units, v \in 0..LastUnit : Slide(i, v)
    \/ \E t \in Given : PressNow(t)
    \/ \E text \in Texts : TypeText(text)
    \/ \E d \in Dates, t \in Given : SetDate(d, t)
    \/ \E d \in Dates, t \in Given \cup {NoTime} : SetText(d, t)

-----------------------------------------------------------------------------
(* Properties. *)

\* The date that was picked, in the calendar, by Now or by setDate, is what the field says once the picker is
\* closed, with the time that the sliders showed, and it is what getDate returns, whatever else was slid, shown and
\* opened since; unless something else was typed.  In version 1.3, that of the KNX page, showing another month is
\* enough to lose the date picked: the field then says the date that the calendar shows.  The moment is within
\* the limits; but in version 1.4 the limits are those of the date the calendar shows, so the time of the
\* date picked may be beyond its own if it was moved, or limited, while another month was shown.
FieldAsPicked ==
    ~picker.showing /\ picked > 0 =>
        /\ picker.field = Text(IF browsed THEN picker.selected ELSE picked, picker.time)
        /\ ~browsed => picker.current = picked
        /\ ~strayed => InLimits(picker.field.date, picker.field.time)
=============================================================================
