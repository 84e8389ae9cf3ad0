---------------------------- MODULE WidgetProofs ----------------------------
(***************************************************************************)
(* Proofs about the widgets of the pages, as parts of WebLibraries: the    *)
(* time picker, the accordion and the pop-ups, for any dates, limits,      *)
(* groups, pop-ups and moments at which they are used.                     *)
(***************************************************************************)
EXTENDS WebLibraries, FiniteSetTheorems, SequenceTheorems, TLAPS

-----------------------------------------------------------------------------
(* The time picker. *)

FieldTexts == [date : Nat \cup {-1}, time : Times \cup {NoTime}]
PickerStates ==
    [field : FieldTexts, lastVal : FieldTexts \cup {Unread}, selected : Nat, current : Nat, showing : BOOLEAN,
     time : Times, formatted : Times, timeDefined : BOOLEAN, numeric : BOOLEAN]

\* Limiting the time once more would leave it as it is.
Steady(p) ==
    /\ Least(p) => \A i \in 1..Units :
        (\A j \in 1..(i - 1) : p.time[j] =< limits.min.time[j]) => p.time[i] >= limits.min.time[i]
    /\ Most(p) => \A i \in 1..Units :
        (\A j \in 1..(i - 1) : p.time[j] >= limits.max.time[j]) => p.time[i] =< limits.max.time[i]

\* The date that _updateDateTime writes.
Written(p) == IF version = "1.3" \/ p.current = 0 THEN p.selected ELSE p.current

\* The field says that date, and what will be written when the picker is closed is what the sliders show.
AtPicked(p) ==
    /\ Written(p) > 0 /\ Selectable(Written(p)) /\ p.field.date = Written(p) /\ p.field.time \in Times
    /\ p.formatted = p.time /\ p.timeDefined

\* So it is after the date d was picked: only in version 1.3 the date written may be another one, and only in
\* version 1.4 the time may be beyond the limits.
PickKept(p, d, s, b) ==
    /\ AtPicked(p)
    /\ version = "1.4" => ~b
    /\ ~b => p.current = d /\ (version = "1.3" => p.selected = d)
    /\ ~s => InLimits(Written(p), p.time)
    /\ ~p.showing => p.field = Text(Written(p), p.time)

PickerTyped ==
    /\ picker \in PickerStates /\ limits \in Limits /\ version \in {"1.3", "1.4"}
    /\ picked \in Nat /\ strayed \in BOOLEAN /\ browsed \in BOOLEAN

PickerInv == PickerTyped /\ (picked > 0 => PickKept(picker, picked, strayed, browsed))

LEMMA TimesTyped ==
    /\ Units \in Nat \ {0} /\ LastUnit \in Nat /\ Dates \subseteq Nat \ {0} /\ Today \in Nat \ {0}
    /\ \A t \in Times : DOMAIN t = 1..Units /\ t # NoTime /\ \A i \in 1..Units : t[i] \in Nat /\ t[i] =< LastUnit
<1>1. Units \in Nat \ {0} /\ LastUnit \in Nat /\ Dates \subseteq Nat \ {0} /\ Today \in Nat \ {0}
  BY LimitsAssumption
<1>2. ASSUME NEW t \in Times
      PROVE  DOMAIN t = 1..Units /\ t # NoTime /\ \A i \in 1..Units : t[i] \in Nat /\ t[i] =< LastUnit
  <2>1. t \in [1..Units -> 0..LastUnit]
    BY <1>2 DEF Times
  <2>2. 1 \in DOMAIN t
    BY <2>1, <1>1
  <2>3. t # <<>>
    BY <2>2
  <2> QED
    BY <2>1, <2>3, <1>1 DEF NoTime
<1> QED
  BY <1>1, <1>2

LEMMA SameTime ==
    ASSUME NEW s \in Times, NEW t \in Times, \A i \in 1..Units : s[i] = t[i]
    PROVE  s = t
<1>1. s \in [1..Units -> 0..LastUnit] /\ t \in [1..Units -> 0..LastUnit]
  BY DEF Times
<1>2. s = [i \in 1..Units |-> s[i]] /\ t = [i \in 1..Units |-> t[i]]
  BY <1>1
<1>3. [i \in 1..Units |-> s[i]] = [i \in 1..Units |-> t[i]]
  OBVIOUS
<1> QED
  BY <1>2, <1>3, Zenon

LEMMA LimitsTyped ==
    ASSUME limits \in Limits
    PROVE  /\ limits.min.date \in Nat /\ limits.max.date \in Nat \ {0} /\ limits.min.date =< limits.max.date
           /\ limits.min.time \in Times /\ limits.max.time \in Times
           /\ limits.min.date = limits.max.date => limits.min.time[1] < limits.max.time[1]
BY LimitsAssumption

LEMMA RestrictedDates ==
    ASSUME limits \in Limits, NEW d \in Int
    PROVE  /\ Restricted(d) \in Int /\ Selectable(Restricted(d)) /\ (Selectable(d) => Restricted(d) = d)
           /\ d > 0 => Restricted(d) > 0 /\ Restricted(d) \in Nat
           /\ Selectable(d) => limits.min.date =< d /\ d =< limits.max.date
BY LimitsTyped DEF Restricted, Selectable

\* What is raised is not below the first moment, and what is lowered not beyond the last.
LEMMA RaisedTime ==
    ASSUME NEW t \in Times, NEW min \in Times
    PROVE  /\ Raised(t, min) \in Times
           /\ \A i \in 1..Units : Raised(t, min)[i] = IF t[i] < min[i] /\ \A j \in 1..(i - 1) : t[j] =< min[j] THEN min[i] ELSE t[i]
           /\ \A i \in 1..Units : (\A j \in 1..(i - 1) : Raised(t, min)[j] =< min[j]) => Raised(t, min)[i] >= min[i]
           /\ (\A i \in 1..Units : (\A j \in 1..(i - 1) : t[j] =< min[j]) => t[i] >= min[i])
                => Raised(t, min) = t
<1>1. \A i \in 1..Units : Raised(t, min)[i] = IF t[i] < min[i] /\ \A j \in 1..(i - 1) : t[j] =< min[j] THEN min[i] ELSE t[i]
  BY TimesTyped DEF Raised
<1>2. Raised(t, min) \in Times
  BY <1>1, TimesTyped DEF Raised, Times
<1>3. ASSUME NEW i \in 1..Units, \A j \in 1..(i - 1) : Raised(t, min)[j] =< min[j]
      PROVE  Raised(t, min)[i] >= min[i]
  <2>1. \A j \in 1..(i - 1) : j \in 1..Units
    BY TimesTyped
  <2>2. \A j \in 1..(i - 1) : t[j] =< min[j]
    BY <1>1, <1>3, <2>1, TimesTyped
  <2> QED
    BY <1>1, <2>2, TimesTyped
<1>4. ASSUME \A i \in 1..Units : (\A j \in 1..(i - 1) : t[j] =< min[j]) => t[i] >= min[i]
      PROVE  Raised(t, min) = t
  <2>1. \A i \in 1..Units : Raised(t, min)[i] = t[i]
    BY <1>1, <1>4, TimesTyped
  <2> QED
    BY <1>2, <2>1, SameTime
<1> QED
  BY <1>1, <1>2, <1>3, <1>4

LEMMA LoweredTime ==
    ASSUME NEW t \in Times, NEW max \in Times
    PROVE  /\ Lowered(t, max) \in Times
           /\ \A i \in 1..Units : Lowered(t, max)[i] = IF t[i] > max[i] /\ \A j \in 1..(i - 1) : t[j] >= max[j] THEN max[i] ELSE t[i]
           /\ \A i \in 1..Units : (\A j \in 1..(i - 1) : Lowered(t, max)[j] >= max[j]) => Lowered(t, max)[i] =< max[i]
           /\ (\A i \in 1..Units : (\A j \in 1..(i - 1) : t[j] >= max[j]) => t[i] =< max[i])
                => Lowered(t, max) = t
<1>1. \A i \in 1..Units : Lowered(t, max)[i] = IF t[i] > max[i] /\ \A j \in 1..(i - 1) : t[j] >= max[j] THEN max[i] ELSE t[i]
  BY TimesTyped DEF Lowered
<1>2. Lowered(t, max) \in Times
  BY <1>1, TimesTyped DEF Lowered, Times
<1>3. ASSUME NEW i \in 1..Units, \A j \in 1..(i - 1) : Lowered(t, max)[j] >= max[j]
      PROVE  Lowered(t, max)[i] =< max[i]
  <2>1. \A j \in 1..(i - 1) : j \in 1..Units
    BY TimesTyped
  <2>2. \A j \in 1..(i - 1) : t[j] >= max[j]
    BY <1>1, <1>3, <2>1, TimesTyped
  <2> QED
    BY <1>1, <2>2, TimesTyped
<1>4. ASSUME \A i \in 1..Units : (\A j \in 1..(i - 1) : t[j] >= max[j]) => t[i] =< max[i]
      PROVE  Lowered(t, max) = t
  <2>1. \A i \in 1..Units : Lowered(t, max)[i] = t[i]
    BY <1>1, <1>4, TimesTyped
  <2> QED
    BY <1>2, <2>1, SameTime
<1> QED
  BY <1>1, <1>2, <1>3, <1>4

\* Lowering does not bring below a first moment what was not, if that is in an earlier hour than the last.
LEMMA LoweredStaysRaised ==
    ASSUME NEW t \in Times, NEW min \in Times, NEW max \in Times, min[1] < max[1],
           \A i \in 1..Units : (\A j \in 1..(i - 1) : t[j] =< min[j]) => t[i] >= min[i]
    PROVE  \A i \in 1..Units : (\A j \in 1..(i - 1) : Lowered(t, max)[j] =< min[j]) => Lowered(t, max)[i] >= min[i]
<1> SUFFICES ASSUME NEW i \in 1..Units, \A j \in 1..(i - 1) : Lowered(t, max)[j] =< min[j]
             PROVE  Lowered(t, max)[i] >= min[i]
  OBVIOUS
<1>0. \A k \in 1..Units : Lowered(t, max)[k] = IF t[k] > max[k] /\ \A j \in 1..(k - 1) : t[j] >= max[j] THEN max[k] ELSE t[k]
  BY LoweredTime
<1>1. 1 \in 1..Units /\ t[1] >= min[1] /\ i \in Nat
  BY TimesTyped
<1>2. CASE i = 1
  BY <1>1, <1>2, <1>0, TimesTyped
<1>3. CASE i # 1
  <2>1. 1 \in 1..(i - 1) /\ i > 1
    BY <1>3
  <2>2. Lowered(t, max)[1] = t[1] /\ t[1] < max[1]
    BY <2>1, <1>1, <1>0, TimesTyped
  <2>3. \A k \in 1..Units : k > 1 => 1 \in 1..(k - 1)
    BY TimesTyped
  <2>4. \A k \in 1..Units : k > 1 => Lowered(t, max)[k] = t[k]
    BY <1>1, <2>2, <2>3, <1>0, TimesTyped
  <2>5. \A k \in 1..Units : Lowered(t, max)[k] = t[k]
    BY <2>2, <2>4, TimesTyped
  <2>6. \A j \in 1..(i - 1) : j \in 1..Units
    BY TimesTyped
  <2>7. \A j \in 1..(i - 1) : t[j] =< min[j]
    BY <2>5, <2>6
  <2> QED
    BY <2>5, <2>7
<1> QED
  BY <1>2, <1>3

LEMMA LimitedTime ==
    ASSUME limits \in Limits, NEW p \in PickerStates
    PROVE  /\ Limited(p).time \in Times /\ Limited(p) = [p EXCEPT !.time = Limited(p).time]
           /\ Limited(p) \in PickerStates /\ Steady(Limited(p))
           /\ Steady(p) => Limited(p) = p
<1> DEFINE min == limits.min.time
           max == limits.max.time
           raised == IF Least(p) THEN Raised(p.time, min) ELSE p.time
           time == IF Most(p) THEN Lowered(raised, max) ELSE raised
<1>1. p.time \in Times /\ min \in Times /\ max \in Times
  BY LimitsTyped DEF PickerStates
<1>2. Limited(p) = [p EXCEPT !.time = time]
  BY DEF Limited
<1>3. raised \in Times /\ (Least(p) => \A i \in 1..Units : (\A j \in 1..(i - 1) : raised[j] =< min[j]) => raised[i] >= min[i])
  BY <1>1, RaisedTime
<1>4. time \in Times /\ (Most(p) => \A i \in 1..Units : (\A j \in 1..(i - 1) : time[j] >= max[j]) => time[i] =< max[i])
  BY <1>1, <1>3, LoweredTime
<1>5. Least(p) => \A i \in 1..Units : (\A j \in 1..(i - 1) : time[j] =< min[j]) => time[i] >= min[i]
  <2>1. CASE Most(p) /\ Least(p)
    <3>1. min[1] < max[1]
      BY <2>1, LimitsTyped DEF Most, Least
    <3> QED
      BY <2>1, <3>1, <1>1, <1>3, LoweredStaysRaised
  <2>2. CASE ~Most(p)
    BY <2>2, <1>3
  <2> QED
    BY <2>1, <2>2
<1>6. Limited(p).time = time /\ Limited(p).selected = p.selected
  BY <1>2 DEF PickerStates
<1>7. Steady(Limited(p))
  BY <1>4, <1>5, <1>6 DEF Steady, Least, Most
<1>8. Limited(p) \in PickerStates
  BY <1>2, <1>4 DEF PickerStates
<1>9. ASSUME Steady(p)
      PROVE  Limited(p) = p
  <2>1. raised = p.time
    BY <1>1, <1>9, RaisedTime DEF Steady
  <2>2. time = p.time
    BY <1>1, <1>9, <2>1, LoweredTime DEF Steady
  <2> QED
    BY <2>2, <1>2 DEF PickerStates
<1> QED
  BY <1>2, <1>4, <1>6, <1>7, <1>8, <1>9

\* Limited moments are within the limits.
LEMMA SteadyInLimits ==
    ASSUME limits \in Limits, NEW p \in PickerStates, Steady(p), Selectable(p.selected)
    PROVE  InLimits(p.selected, p.time)
<1>1. p.time \in Times /\ p.selected \in Int
  BY DEF PickerStates
<1>2. limits.min.date =< p.selected /\ p.selected =< limits.max.date
  BY <1>1, RestrictedDates
<1>3. limits.min.time \in Times /\ limits.max.time \in Times /\ limits.min.date \in Nat /\ limits.max.date \in Nat
  BY LimitsTyped
<1>4. ASSUME NEW s \in Times, NEW i \in 1..Units
      PROVE  \A j \in 1..(i - 1) : j \in DOMAIN s /\ s[j] \in Nat
  BY TimesTyped
<1>5. ASSUME p.selected = limits.min.date, Before(p.time, limits.min.time)
      PROVE  FALSE
  <2>1. PICK i \in 1..Units : p.time[i] < limits.min.time[i] /\ \A j \in 1..(i - 1) : p.time[j] = limits.min.time[j]
    BY <1>1, <1>5, TimesTyped DEF Before
  <2>2. \A j \in 1..(i - 1) : p.time[j] =< limits.min.time[j]
    BY <1>1, <1>3, <1>4, <2>1
  <2>3. p.time[i] >= limits.min.time[i]
    BY <1>5, <2>2 DEF Steady, Least
  <2> QED
    BY <1>1, <1>3, <2>1, <2>3, TimesTyped
<1>6. ASSUME p.selected = limits.max.date, Before(limits.max.time, p.time)
      PROVE  FALSE
  <2>1. PICK i \in 1..Units : limits.max.time[i] < p.time[i] /\ \A j \in 1..(i - 1) : limits.max.time[j] = p.time[j]
    BY <1>3, <1>6, TimesTyped DEF Before
  <2>2. \A j \in 1..(i - 1) : p.time[j] >= limits.max.time[j]
    BY <1>1, <1>3, <1>4, <2>1
  <2>3. p.time[i] =< limits.max.time[i]
    BY <1>6, <2>2 DEF Steady, Most
  <2> QED
    BY <1>1, <1>3, <2>1, <2>3, TimesTyped
<1> QED
  BY <1>1, <1>2, <1>3, <1>5, <1>6 DEF InLimits

\* The calendar stays where it is, and so does the date that is written.
SameDate(p, q) ==
    /\ q \in PickerStates /\ q.selected = p.selected /\ q.showing = p.showing
    /\ q.current = p.current \/ (version = "1.3" /\ q.current = p.selected)
Versions == {"1.3", "1.4"}

LEMMA SameWritten ==
    ASSUME NEW p, NEW q, SameDate(p, q)
    PROVE  Written(q) = Written(p) /\ (p.current = p.selected => q.current = q.selected)
BY DEF SameDate, Written

LEMMA UpdateKeeps ==
    ASSUME NEW p \in PickerStates
    PROVE  LET q == UpdateDateTime(p)
           IN  /\ SameDate(p, q) /\ q.time = p.time /\ q.formatted = p.formatted /\ q.timeDefined = p.timeDefined
               /\ q.lastVal = p.lastVal /\ q.numeric = p.numeric /\ q.field = Text(Written(q), q.formatted)
<1>1. CASE version = "1.3"
  <2>1. PICK c : c = IF p.lastVal = NoText THEN p.selected ELSE p.current
    OBVIOUS
  <2>2. UpdateDateTime(p) = [p EXCEPT !.field = Text(p.selected, p.formatted), !.current = c]
    BY <1>1, <2>1 DEF UpdateDateTime, KnxUpdateDateTime
  <2>3. c \in {p.selected, p.current} /\ Text(p.selected, p.formatted) \in FieldTexts
    BY <2>1 DEF PickerStates, FieldTexts, Text
  <2> QED
    BY <1>1, <2>2, <2>3 DEF SameDate, PickerStates, Written
<1>2. CASE version # "1.3"
  <2>1. PICK d : d = IF p.current > 0 THEN p.current ELSE p.selected
    OBVIOUS
  <2>2. UpdateDateTime(p) = [p EXCEPT !.field = Text(d, p.formatted)]
    BY <1>2, <2>1 DEF UpdateDateTime
  <2>3. d = Written(p) /\ Text(d, p.formatted) \in FieldTexts
    BY <1>2, <2>1 DEF PickerStates, FieldTexts, Text, Written
  <2> QED
    BY <1>2, <2>2, <2>3 DEF SameDate, PickerStates, Written
<1> QED
  BY <1>1, <1>2

LEMMA SteadyMeans ==
    ASSUME NEW p, NEW q, q.selected = p.selected, q.time = p.time, Steady(p)
    PROVE  Steady(q)
BY DEF Steady, Least, Most

\* What is left when the time has changed.
Formatted(p, q) ==
    /\ SameDate(p, q) /\ q.formatted = q.time /\ q.timeDefined /\ (Steady(p) => Steady(q) /\ q.time = p.time)
    /\ q.field \in {p.field, Text(Written(q), q.time)}

LEMMA TimeChangedKeeps ==
    ASSUME limits \in Limits, version \in Versions, NEW p \in PickerStates, NEW changed \in BOOLEAN
    PROVE  LET q == TimeChanged(p, changed)
           IN  /\ Formatted(p, q)
               /\ changed => Steady(q) /\ q.field = Text(Written(q), q.time)
<1>1. Limited(p) \in PickerStates /\ Limited(p) = [p EXCEPT !.time = Limited(p).time] /\ Steady(Limited(p))
      /\ (Steady(p) => Limited(p) = p) /\ Limited(p).time \in Times
  BY LimitedTime
<1>2. CASE version = "1.3"
  <2>1. PICK l : l = IF changed THEN Limited(p) ELSE p
    OBVIOUS
  <2>2. PICK f : f = [l EXCEPT !.formatted = l.time, !.timeDefined = TRUE]
    OBVIOUS
  <2>3. TimeChanged(p, changed) = IF changed THEN UpdateDateTime(f) ELSE f
    BY <1>2, <2>1, <2>2 DEF TimeChanged, KnxTimeChanged
  <2>4. l \in PickerStates /\ SameDate(p, l) /\ l.field = p.field /\ (changed => Steady(l)) /\ (Steady(p) => l = p)
    BY <1>1, <2>1 DEF SameDate, PickerStates
  <2>5. f \in PickerStates /\ SameDate(p, f) /\ f.field = p.field /\ f.time = l.time /\ f.formatted = f.time
        /\ f.timeDefined /\ f.selected = l.selected
    BY <2>2, <2>4 DEF SameDate, PickerStates
  <2>6. (changed => Steady(f)) /\ (Steady(p) => Steady(f) /\ f.time = p.time)
    BY <2>4, <2>5, SteadyMeans
  <2>7. CASE ~changed
    BY <2>3, <2>5, <2>6, <2>7 DEF Formatted
  <2>8. CASE changed
    <3>1. PICK q : q = UpdateDateTime(f)
      OBVIOUS
    <3>2. /\ SameDate(f, q) /\ q.time = f.time /\ q.formatted = f.formatted /\ q.timeDefined = f.timeDefined
          /\ q.field = Text(Written(q), q.formatted)
      BY <3>1, <2>5, UpdateKeeps
    <3>3. Steady(q) /\ SameDate(p, q)
      BY <3>2, <2>5, <2>6, <2>8, SteadyMeans DEF SameDate
    <3>4. Formatted(p, q)
      BY <3>2, <3>3, <2>5, <2>6 DEF Formatted
    <3> QED
      BY <2>3, <2>5, <2>8, <3>1, <3>2, <3>3, <3>4
  <2> QED
    BY <2>7, <2>8
<1>3. CASE version = "1.4"
  <2>1. PICK l : l = IF changed \/ p.numeric THEN Limited(p) ELSE p
    OBVIOUS
  <2>2. PICK f : f = [l EXCEPT !.formatted = l.time, !.timeDefined = TRUE, !.numeric = FALSE]
    OBVIOUS
  <2>3. /\ changed \/ p.numeric => TimeChanged(p, changed) = UpdateDateTime(f)
        /\ ~(changed \/ p.numeric) => TimeChanged(p, changed) = f
    BY <1>3, <2>1, <2>2 DEF TimeChanged
  <2>4. l \in PickerStates /\ SameDate(p, l) /\ l.field = p.field /\ (changed => Steady(l)) /\ (Steady(p) => l = p)
    BY <1>1, <2>1 DEF SameDate, PickerStates
  <2>5. f \in PickerStates /\ SameDate(p, f) /\ f.field = p.field /\ f.time = l.time /\ f.formatted = f.time
        /\ f.timeDefined /\ f.selected = l.selected
    BY <2>2, <2>4 DEF SameDate, PickerStates
  <2>6. (changed => Steady(f)) /\ (Steady(p) => Steady(f) /\ f.time = p.time)
    BY <2>4, <2>5, SteadyMeans
  <2>7. CASE ~(changed \/ p.numeric)
    BY <2>3, <2>5, <2>6, <2>7 DEF Formatted
  <2>8. CASE changed \/ p.numeric
    <3>1. PICK q : q = UpdateDateTime(f)
      OBVIOUS
    <3>2. /\ SameDate(f, q) /\ q.time = f.time /\ q.formatted = f.formatted /\ q.timeDefined = f.timeDefined
          /\ q.field = Text(Written(q), q.formatted)
      BY <3>1, <2>5, UpdateKeeps
    <3>3. (Steady(f) => Steady(q)) /\ SameDate(p, q)
      BY <3>2, <2>5, SteadyMeans DEF SameDate
    <3>4. Formatted(p, q)
      BY <3>2, <3>3, <2>5, <2>6 DEF Formatted
    <3> QED
      BY <2>3, <2>5, <2>6, <2>8, <3>1, <3>2, <3>3, <3>4
  <2> QED
    BY <2>7, <2>8
<1> QED
  BY <1>2, <1>3 DEF Versions

LEMMA AddKeeps ==
    ASSUME limits \in Limits, version \in Versions, NEW p \in PickerStates
    PROVE  LET q == AddTimePicker(p)
           IN  /\ SameDate(p, q) /\ Steady(q) /\ q.formatted = q.time /\ q.timeDefined = TimeDefined(p)
               /\ q.field \in {p.field, Text(Written(q), q.time)}
<1>1. PICK a : a = Parsed(p)
  OBVIOUS
<1>2. a \in PickerStates /\ SameDate(p, a) /\ a.field = p.field
  BY <1>1 DEF Parsed, TimeDefined, PickerStates, FieldTexts, SameDate
<1>3. PICK l : l = Limited(a)
  OBVIOUS
<1>4. l \in PickerStates /\ Steady(l) /\ l = [a EXCEPT !.time = l.time]
  BY <1>2, <1>3, LimitedTime
<1>5. SameDate(p, l) /\ l.field = p.field
  BY <1>2, <1>4 DEF SameDate, PickerStates
<1>6. PICK c : c = TimeChanged(l, FALSE)
  OBVIOUS
<1>7. Formatted(l, c)
  BY <1>4, <1>6, TimeChangedKeeps
<1>8. c \in PickerStates /\ Steady(c) /\ SameDate(p, c) /\ c.formatted = c.time
      /\ c.field \in {p.field, Text(Written(c), c.time)}
  BY <1>4, <1>5, <1>7 DEF Formatted, SameDate
<1>9. PICK d : d = [c EXCEPT !.timeDefined = TimeDefined(p)]
  OBVIOUS
<1>10. d \in PickerStates /\ d.time = c.time /\ d.formatted = c.formatted /\ d.selected = c.selected
       /\ d.current = c.current /\ d.field = c.field /\ d.showing = c.showing /\ d.timeDefined = TimeDefined(p)
  <2>1. TimeDefined(p) \in BOOLEAN
    BY DEF TimeDefined
  <2> QED
    BY <1>8, <1>9, <2>1 DEF PickerStates
<1>11. Steady(d) /\ SameDate(p, d) /\ Written(d) = Written(c)
  BY <1>8, <1>10, SteadyMeans DEF SameDate, Written
<1>12. AddTimePicker(p) = d
  <2>1. CASE version = "1.3"
    BY <2>1, <1>1, <1>3, <1>6, <1>9 DEF AddTimePicker, KnxAddTimePicker
  <2>2. CASE version # "1.3"
    <3>1. AddTimePicker(p) = Limited(d)
      BY <2>2, <1>1, <1>3, <1>6, <1>9 DEF AddTimePicker
    <3>2. Limited(d) = d
      BY <1>10, <1>11, LimitedTime
    <3> QED
      BY <3>1, <3>2
  <2> QED
    BY <2>1, <2>2
<1> QED
  BY <1>8, <1>10, <1>11, <1>12

\* What says the date written stays so while the calendar is drawn anew, and where the calendar shows that date the
\* moment is within the limits.
LEMMA AddAtPicked ==
    ASSUME limits \in Limits, version \in Versions, NEW p \in PickerStates,
           Written(p) > 0, Selectable(Written(p)), p.field.date = Written(p), p.field.time \in Times
    PROVE  LET q == AddTimePicker(p)
           IN  /\ SameDate(p, q) /\ AtPicked(q)
               /\ Written(q) = q.selected => InLimits(Written(q), q.time)
<1>1. PICK q : q = AddTimePicker(p)
  OBVIOUS
<1>2. /\ SameDate(p, q) /\ Steady(q) /\ q.formatted = q.time /\ q.timeDefined = TimeDefined(p)
      /\ q.field \in {p.field, Text(Written(q), q.time)}
  BY <1>1, AddKeeps
<1>3. TimeDefined(p)
  BY TimesTyped DEF TimeDefined, PickerStates, FieldTexts
<1>4. Written(q) = Written(p) /\ q.time \in Times /\ q \in PickerStates
  BY <1>2, SameWritten DEF SameDate, PickerStates
<1>5. q.field.date = Written(q) /\ q.field.time \in Times
  BY <1>2, <1>4 DEF Text
<1>6. AtPicked(q)
  BY <1>2, <1>3, <1>4, <1>5 DEF AtPicked
<1>7. Written(q) = q.selected => InLimits(Written(q), q.time)
  BY <1>2, <1>4, SteadyInLimits
<1> QED
  BY <1>1, <1>2, <1>6, <1>7

LEMMA SelectDayPicks ==
    ASSUME limits \in Limits, version \in Versions, NEW p \in PickerStates, NEW d \in Dates, Selectable(d), p.showing
    PROVE  LET q == SelectDay(p, d) IN q \in PickerStates /\ q.showing /\ PickKept(q, d, FALSE, FALSE)
<1>0. d \in Nat /\ d > 0
  BY LimitsAssumption
<1>1. PICK c : c = [p EXCEPT !.selected = d, !.current = d]
  OBVIOUS
<1>2. c \in PickerStates /\ c.selected = d /\ c.current = d /\ c.showing
  BY <1>0, <1>1 DEF PickerStates
<1>3. PICK u : u = UpdateDateTime(c)
  OBVIOUS
<1>4. u \in PickerStates /\ u.selected = d /\ u.current = d /\ u.showing
  BY <1>2, <1>3, UpdateKeeps DEF SameDate
<1>5. PICK l : l = Limited(u)
  OBVIOUS
<1>6. l \in PickerStates /\ l.selected = d /\ l.current = d /\ l.showing
  <2>1. l \in PickerStates /\ l = [u EXCEPT !.time = l.time]
    BY <1>4, <1>5, LimitedTime
  <2> QED
    BY <2>1, <1>4 DEF PickerStates
<1>7. PICK w : w = UpdateDateTime(l)
  OBVIOUS
<1>8. w \in PickerStates /\ w.selected = d /\ w.current = d /\ w.showing /\ w.field = Text(Written(w), w.formatted)
  BY <1>6, <1>7, UpdateKeeps DEF SameDate
<1>9. Written(w) = d /\ w.field.date = d /\ w.field.time \in Times
  BY <1>8 DEF Text, PickerStates, Written
<1>10. PICK q : q = AddTimePicker(w)
  OBVIOUS
<1>11. SameDate(w, q) /\ AtPicked(q) /\ (Written(q) = q.selected => InLimits(Written(q), q.time))
  BY <1>0, <1>8, <1>9, <1>10, AddAtPicked
<1>12. q \in PickerStates /\ q.showing /\ q.selected = d /\ q.current = d /\ Written(q) = d
  BY <1>8, <1>11 DEF SameDate, Written
<1>13. SelectDay(p, d) = q
  BY <1>1, <1>3, <1>5, <1>7, <1>10 DEF SelectDay
<1> QED
  BY <1>11, <1>12, <1>13 DEF PickKept

LEMMA SetTimePicks ==
    ASSUME limits \in Limits, version \in Versions, NEW p \in PickerStates, NEW t \in Times
    PROVE  LET q == SetTime(p, t)
           IN  /\ SameDate(p, q)
               /\ Written(p) > 0 /\ Selectable(Written(p)) =>
                    /\ AtPicked(q) /\ q.field = Text(Written(q), q.time)
                    /\ Written(q) = q.selected => InLimits(Written(q), q.time)
<1>1. PICK a : a = [p EXCEPT !.time = t]
  OBVIOUS
<1>2. SameDate(p, a)
  BY <1>1 DEF SameDate, PickerStates
<1>3. PICK l : l = Limited(a)
  OBVIOUS
<1>4. SameDate(p, l) /\ Steady(l)
  <2>1. l \in PickerStates /\ Steady(l) /\ l = [a EXCEPT !.time = l.time]
    BY <1>2, <1>3, LimitedTime DEF SameDate
  <2> QED
    BY <2>1, <1>2 DEF SameDate, PickerStates
<1>5. PICK c : c = TimeChanged(l, FALSE)
  OBVIOUS
<1>6. Formatted(l, c)
  BY <1>4, <1>5, TimeChangedKeeps DEF SameDate
<1>7. SameDate(p, c) /\ Steady(c) /\ c.formatted = c.time /\ c.timeDefined
  BY <1>4, <1>6 DEF Formatted, SameDate
<1>8. PICK q : q = UpdateDateTime(c)
  OBVIOUS
<1>9. /\ SameDate(c, q) /\ q.time = c.time /\ q.formatted = c.formatted /\ q.timeDefined = c.timeDefined
      /\ q.field = Text(Written(q), q.formatted)
  BY <1>7, <1>8, UpdateKeeps DEF SameDate
<1>10. SameDate(p, q) /\ Steady(q) /\ q.formatted = q.time /\ q.timeDefined /\ q.time \in Times /\ q \in PickerStates
  BY <1>7, <1>9, SteadyMeans DEF SameDate, PickerStates
<1>11. Written(q) = Written(p)
  BY <1>10, SameWritten
<1>12. ASSUME Written(p) > 0, Selectable(Written(p))
       PROVE  AtPicked(q) /\ q.field = Text(Written(q), q.time)
  <2>1. q.field = Text(Written(q), q.time)
    BY <1>9, <1>10
  <2> QED
    BY <1>10, <1>11, <1>12, <2>1 DEF AtPicked, Text
<1>13. ASSUME Selectable(Written(p)), Written(q) = q.selected
       PROVE  InLimits(Written(q), q.time)
  BY <1>10, <1>11, <1>13, SteadyInLimits
<1>14. SetTime(p, t) = q
  BY <1>1, <1>3, <1>5, <1>8 DEF SetTime
<1> QED
  BY <1>10, <1>12, <1>13, <1>14

LEMMA FromFieldKeeps ==
    ASSUME limits \in Limits, NEW p \in PickerStates
    PROVE  LET q == FromField(p)
           IN  /\ q \in PickerStates /\ q.showing = p.showing /\ q.field = p.field /\ q.time = p.time
               /\ q.formatted = p.formatted /\ q.timeDefined = p.timeDefined
               /\ p.field.date > 0 /\ Selectable(p.field.date) /\ (p.field # p.lastVal \/ (p.current = p.selected /\ p.current = p.field.date))
                    => q.selected = p.field.date /\ q.current = p.field.date
<1>1. p.field.date \in Nat \cup {-1} /\ Today \in Nat /\ Today > 0
  BY TimesTyped DEF PickerStates, FieldTexts
<1>2. /\ p.field.date > 0 => Restricted(p.field.date) \in Nat
      /\ Restricted(Today) \in Nat /\ Restricted(Restricted(Today)) \in Nat
      /\ Selectable(p.field.date) => Restricted(p.field.date) = p.field.date
  BY <1>1, RestrictedDates
<1>3. CASE p.field = p.lastVal
  BY <1>3 DEF FromField
<1>4. CASE p.field # p.lastVal
  <2>1. PICK date : date = IF p.field.date > 0 THEN p.field.date ELSE Restricted(Today)
    OBVIOUS
  <2>2. date \in Nat /\ Restricted(date) \in Nat
    BY <2>1, <1>1, <1>2
  <2>3. FromField(p) = [p EXCEPT !.lastVal = p.field, !.selected = Restricted(date),
                                 !.current = IF p.field = NoText THEN 0 ELSE date]
    BY <1>4, <2>1 DEF FromField
  <2>4. p.field.date > 0 => p.field # NoText
    BY DEF NoText
  <2>5. PICK q : q = FromField(p)
    OBVIOUS
  <2>6. PICK current : current = IF p.field = NoText THEN 0 ELSE date
    OBVIOUS
  <2>7. q = [p EXCEPT !.lastVal = p.field, !.selected = Restricted(date), !.current = current] /\ current \in Nat
    BY <2>2, <2>3, <2>5, <2>6
  <2>8. q \in PickerStates /\ q.showing = p.showing /\ q.field = p.field /\ q.time = p.time /\ q.formatted = p.formatted
        /\ q.timeDefined = p.timeDefined /\ q.selected = Restricted(date) /\ q.current = current
    BY <2>2, <2>7 DEF PickerStates
  <2> QED
    BY <2>1, <2>4, <2>5, <2>6, <2>8, <1>2
<1> QED
  BY <1>3, <1>4

-----------------------------------------------------------------------------

\* Once what an action leaves is known, only this is to be shown.
LEMMA PickerLeft ==
    ASSUME PickerTyped, picker' \in PickerStates, UNCHANGED <<limits, version>>,
           picked' \in Nat, strayed' \in BOOLEAN, browsed' \in BOOLEAN,
           picked' > 0 => PickKept(picker', picked', strayed', browsed')
    PROVE  PickerInv'
<1>1. PickerTyped'
  BY DEF PickerTyped
<1>2. picked' > 0 => PickKept(picker, picked, strayed, browsed)'
  BY DEF PickKept, AtPicked, Steady, Written, Selectable, Restricted, InLimits
<1> QED
  BY <1>1, <1>2 DEF PickerInv

LEMMA PickerIs ==
    ASSUME PickerInv
    PROVE  /\ PickerTyped /\ picker \in PickerStates /\ limits \in Limits /\ version \in Versions
           /\ picked \in Nat /\ strayed \in BOOLEAN /\ browsed \in BOOLEAN
           /\ picked > 0 => /\ PickKept(picker, picked, strayed, browsed)
                            /\ picker.field # NoText /\ picker.field.date > 0 /\ picker.field.date = Written(picker)
BY DEF PickerInv, PickerTyped, Versions, PickKept, AtPicked, NoText

LEMMA OpenPickerKept == ASSUME PickerInv, OpenPicker PROVE PickerInv'
<1>0. PickerTyped /\ picker \in PickerStates /\ limits \in Limits /\ version \in Versions /\ picked \in Nat /\ browsed \in BOOLEAN
  BY PickerIs
<1>1. PICK a : a = [picker EXCEPT !.showing = TRUE, !.lastVal = Unread]
  OBVIOUS
<1>2. a \in PickerStates /\ a.field = picker.field /\ a.showing /\ a.field # a.lastVal
  <2>1. a \in PickerStates /\ a.field = picker.field /\ a.lastVal = Unread /\ a.showing
    BY <1>0, <1>1 DEF PickerStates
  <2>2. picker.field \in FieldTexts
    BY <1>0 DEF PickerStates
  <2>3. picker.field.date # -2
    BY <2>2 DEF FieldTexts
  <2>4. Unread.date = -2
    BY DEF Unread
  <2> QED
    BY <2>1, <2>3, <2>4
<1>3. PICK f : f = FromField(a)
  OBVIOUS
<1>4. /\ f \in PickerStates /\ f.showing /\ f.field = picker.field
      /\ picker.field.date > 0 /\ Selectable(picker.field.date)
            => f.selected = picker.field.date /\ f.current = picker.field.date
  BY <1>0, <1>2, <1>3, FromFieldKeeps
<1>5. PICK q : q = AddTimePicker(f)
  OBVIOUS
<1>6. picker' = q /\ strayed' = FALSE /\ UNCHANGED <<limits, version, picked, browsed>>
  BY <1>1, <1>3, <1>5 DEF OpenPicker, OnPicker
<1>7. q \in PickerStates /\ q.showing
  BY <1>0, <1>4, <1>5, AddKeeps DEF SameDate
<1>8. ASSUME picked > 0
      PROVE  PickKept(q, picked, FALSE, browsed)
  <2>1. PickKept(picker, picked, strayed, browsed) /\ picker.field.date > 0 /\ picker.field.date = Written(picker)
    BY <1>8, PickerIs
  <2>2. Selectable(picker.field.date) /\ picker.field.time \in Times
    BY <2>1 DEF PickKept, AtPicked
  <2>3. f.selected = picker.field.date /\ f.current = picker.field.date
    BY <1>4, <2>1, <2>2
  <2>4. Written(f) = picker.field.date
    BY <2>3 DEF Written
  <2>5. SameDate(f, q) /\ AtPicked(q) /\ (Written(q) = q.selected => InLimits(Written(q), q.time))
    BY <1>0, <1>4, <1>5, <2>1, <2>2, <2>4, AddAtPicked
  <2>6. q.current = picker.field.date /\ q.selected = picker.field.date /\ Written(q) = picker.field.date
    BY <2>3, <2>5 DEF SameDate, Written
  <2>7. ~browsed => picker.field.date = picked
    BY <1>0, <1>8, <2>1 DEF PickKept, Written
  <2> QED
    BY <1>7, <2>1, <2>5, <2>6, <2>7 DEF PickKept
<1> QED
  BY <1>0, <1>6, <1>7, <1>8, PickerLeft

LEMMA ClosePickerKept == ASSUME PickerInv, ClosePicker PROVE PickerInv'
<1>0. /\ PickerTyped /\ picker \in PickerStates /\ limits \in Limits /\ version \in Versions
      /\ picked \in Nat /\ strayed \in BOOLEAN /\ browsed \in BOOLEAN
  BY PickerIs
<1>1. PICK p : p = [picker EXCEPT !.showing = FALSE]
  OBVIOUS
<1>2. p \in PickerStates /\ ~p.showing
      /\ p.selected = picker.selected /\ p.current = picker.current /\ p.time = picker.time /\ p.field = picker.field
      /\ p.formatted = picker.formatted /\ p.timeDefined = picker.timeDefined
  BY <1>0, <1>1 DEF PickerStates
<1>3. PICK q : q = UpdateDateTime(p)
  OBVIOUS
<1>4. /\ SameDate(p, q) /\ q.time = p.time /\ q.formatted = p.formatted /\ q.timeDefined = p.timeDefined
      /\ q.field = Text(Written(q), q.formatted)
  BY <1>2, <1>3, UpdateKeeps
<1>5. picker' = (IF p.timeDefined /\ p.field # NoText THEN q ELSE p)
      /\ UNCHANGED <<limits, version, picked, strayed, browsed>>
  BY <1>1, <1>3 DEF ClosePicker, OnPicker, KeepsPick
<1>6. picker' \in PickerStates /\ q \in PickerStates /\ ~q.showing
  BY <1>2, <1>4, <1>5 DEF SameDate
<1>7. ASSUME picked > 0
      PROVE  PickKept(picker', picked, strayed, browsed)
  <2>1. PickKept(picker, picked, strayed, browsed) /\ AtPicked(picker) /\ picker.field # NoText
    BY <1>7, PickerIs DEF PickKept
  <2>2. picker' = q
    BY <1>2, <1>5, <2>1 DEF AtPicked
  <2>3. Written(q) = Written(picker) /\ q.selected = picker.selected /\ q.time = picker.time /\ q.formatted = q.time /\ q.timeDefined
    BY <1>2, <1>4, <2>1 DEF AtPicked, SameDate, Written
  <2>4. ~browsed => q.current = picked /\ (version = "1.3" => q.selected = picked)
    BY <1>2, <1>4, <2>1 DEF SameDate, PickKept
  <2>5. q.field = Text(Written(q), q.time) /\ q.time \in Times
    BY <1>4, <1>6, <2>3 DEF PickerStates
  <2>6. AtPicked(q)
    BY <2>1, <2>3, <2>5 DEF AtPicked, Text
  <2> QED
    BY <2>1, <2>2, <2>3, <2>4, <2>5, <2>6 DEF PickKept
<1> QED
  BY <1>0, <1>5, <1>6, <1>7, PickerLeft

LEMMA PickDayKept == ASSUME PickerInv, NEW d \in Dates, PickDay(d) PROVE PickerInv'
<1>0. PickerTyped /\ picker \in PickerStates /\ limits \in Limits /\ version \in Versions /\ d \in Nat
  BY PickerIs, LimitsAssumption
<1>1. picker' = SelectDay(picker, d) /\ UNCHANGED <<limits, version>> /\ picked' = d /\ strayed' = FALSE /\ browsed' = FALSE
      /\ picker.showing /\ Selectable(d)
  BY DEF PickDay, OnPicker, Picks
<1>2. picker' \in PickerStates /\ PickKept(picker', d, FALSE, FALSE)
  BY <1>0, <1>1, SelectDayPicks
<1> QED
  BY <1>0, <1>1, <1>2, PickerLeft

LEMMA SlideKept == ASSUME PickerInv, NEW i \in 1..Units, NEW v \in 0..LastUnit, Slide(i, v) PROVE PickerInv'
<1>0. /\ PickerTyped /\ picker \in PickerStates /\ limits \in Limits /\ version \in Versions
      /\ picked \in Nat /\ strayed \in BOOLEAN /\ browsed \in BOOLEAN
  BY PickerIs
<1>1. PICK a : a = [picker EXCEPT !.time[i] = v]
  OBVIOUS
<1>2. a \in PickerStates /\ a.selected = picker.selected /\ a.current = picker.current /\ a.showing = picker.showing
  <2>1. a = [picker EXCEPT !.time = [picker.time EXCEPT ![i] = v]]
    BY <1>1
  <2>2. [picker.time EXCEPT ![i] = v] \in Times
    BY <1>0 DEF PickerStates, Times
  <2> QED
    BY <1>0, <2>1, <2>2 DEF PickerStates
<1>3. PICK q : q = TimeChanged(a, TRUE)
  OBVIOUS
<1>4. picker' = q /\ UNCHANGED <<limits, version, picked, browsed>> /\ strayed' = (strayed \/ Strays(q)) /\ picker.showing
  BY <1>1, <1>3 DEF Slide, OnPicker, Strays
<1>5. Formatted(a, q) /\ Steady(q) /\ q.field = Text(Written(q), q.time)
  BY <1>0, <1>2, <1>3, TimeChangedKeeps
<1>6. SameDate(picker, q) /\ q.formatted = q.time /\ q.timeDefined
  BY <1>2, <1>5 DEF Formatted, SameDate
<1>7. q \in PickerStates /\ q.showing /\ q.time \in Times
  BY <1>4, <1>6 DEF SameDate, PickerStates
<1>8. Strays(q) \in BOOLEAN
  BY DEF Strays
<1>9. ASSUME picked > 0
      PROVE  PickKept(q, picked, strayed', browsed)
  <2>1. PickKept(picker, picked, strayed, browsed) /\ AtPicked(picker)
    BY <1>9, PickerIs DEF PickKept
  <2>2. Written(q) = Written(picker)
    BY <1>6, SameWritten
  <2>3. AtPicked(q)
    BY <1>5, <1>6, <1>7, <2>1, <2>2 DEF AtPicked, Text
  <2>4. ~browsed => q.current = picked /\ (version = "1.3" => q.selected = picked)
    BY <1>6, <2>1 DEF SameDate, PickKept
  <2>5. ~strayed' => InLimits(Written(q), q.time)
    <3>1. CASE Written(q) = q.selected
      <4>1. Selectable(q.selected)
        BY <2>3, <3>1 DEF AtPicked
      <4>2. InLimits(q.selected, q.time)
        BY <1>0, <1>5, <1>7, <4>1, SteadyInLimits
      <4> QED
        BY <3>1, <4>2
    <3>2. CASE Written(q) # q.selected
      <4>1. version = "1.4" /\ q.current # q.selected
        BY <1>0, <3>2 DEF Written, Versions
      <4>2. ~strayed' => ~strayed /\ q.time = picker.time
        BY <1>4, <4>1 DEF Strays
      <4> QED
        BY <2>1, <2>2, <4>2 DEF PickKept
    <3> QED
      BY <3>1, <3>2
  <2> QED
    BY <1>7, <2>1, <2>3, <2>4, <2>5 DEF PickKept
<1> QED
  BY <1>0, <1>4, <1>7, <1>8, <1>9, PickerLeft

LEMMA BrowseKept == ASSUME PickerInv, NEW d \in Dates, Browse(d) PROVE PickerInv'
<1>0. /\ PickerTyped /\ picker \in PickerStates /\ limits \in Limits /\ version \in Versions
      /\ picked \in Nat /\ strayed \in BOOLEAN /\ browsed \in BOOLEAN /\ d \in Nat /\ d > 0
  BY PickerIs, LimitsAssumption
<1>1. PICK a : a = [picker EXCEPT !.selected = d]
  OBVIOUS
<1>2. a \in PickerStates /\ a.selected = d /\ a.current = picker.current /\ a.showing = picker.showing /\ a.time = picker.time
  BY <1>0, <1>1 DEF PickerStates
<1>3. PICK u : u = UpdateDateTime(a)
  OBVIOUS
<1>4. SameDate(a, u) /\ u.field = Text(Written(u), u.formatted) /\ u \in PickerStates
  BY <1>2, <1>3, UpdateKeeps DEF SameDate
<1>5. PICK q : q = AddTimePicker(u)
  OBVIOUS
<1>6. q \in PickerStates /\ q.showing = picker.showing /\ SameDate(u, q)
  BY <1>0, <1>2, <1>4, <1>5, AddKeeps DEF SameDate
<1>7. /\ picker' = q /\ UNCHANGED <<limits, version, picked>> /\ picker.showing /\ Selectable(d)
      /\ strayed' = (strayed \/ Strays(q)) /\ browsed' = (browsed \/ version = "1.3")
  BY <1>1, <1>3, <1>5 DEF Browse, OnPicker, Browses, Strays
<1>8. Strays(q) \in BOOLEAN
  BY DEF Strays
<1>9. ASSUME picked > 0
      PROVE  PickKept(q, picked, strayed', browsed')
  <2>1. PickKept(picker, picked, strayed, browsed) /\ Written(picker) > 0 /\ Selectable(Written(picker))
    BY <1>9, PickerIs DEF PickKept, AtPicked
  <2>2. Written(u) = Written(a)
    BY <1>4, SameWritten
  <2>3. Written(u) \in {d, Written(picker)} /\ (version = "1.4" => u.current = picked /\ Written(u) = Written(picker))
    BY <1>0, <1>2, <1>4, <1>9, <2>1, <2>2 DEF Written, Versions, PickKept, SameDate
  <2>4. Written(u) > 0 /\ Selectable(Written(u)) /\ u.field.date = Written(u) /\ u.field.time \in Times
    BY <1>0, <1>4, <1>7, <2>1, <2>3 DEF Text, PickerStates
  <2>5. AtPicked(q) /\ (Written(q) = q.selected => InLimits(Written(q), q.time))
    BY <1>0, <1>4, <1>5, <2>4, AddAtPicked
  <2>6. Written(q) = Written(u) /\ (version = "1.4" => q.current = picked)
    BY <1>6, <2>3, SameWritten DEF SameDate
  <2>7. ~strayed' => InLimits(Written(q), q.time)
    <3>1. CASE Written(q) = q.selected
      BY <2>5, <3>1
    <3>2. CASE Written(q) # q.selected
      <4>1. version = "1.4" /\ q.current # q.selected
        BY <1>0, <3>2 DEF Written, Versions
      <4>2. ~strayed' => ~strayed /\ q.time = picker.time
        BY <1>7, <4>1 DEF Strays
      <4> QED
        BY <2>1, <2>3, <2>6, <4>1, <4>2 DEF PickKept
    <3> QED
      BY <3>1, <3>2
  <2>8. (version = "1.4" => ~browsed') /\ (~browsed' => q.current = picked /\ version # "1.3")
    BY <1>0, <1>7, <2>1, <2>6 DEF PickKept, Versions
  <2> QED
    BY <1>6, <1>7, <2>5, <2>7, <2>8 DEF PickKept
<1> QED
  BY <1>0, <1>6, <1>7, <1>8, <1>9, PickerLeft

LEMMA PressNowKept == ASSUME PickerInv, NEW t \in Times, PressNow(t) PROVE PickerInv'
<1>0. /\ PickerTyped /\ picker \in PickerStates /\ limits \in Limits /\ version \in Versions
      /\ picked \in Nat /\ strayed \in BOOLEAN /\ browsed \in BOOLEAN
  BY PickerIs
<1>1. Today \in Dates /\ Today \in Nat /\ Today > 0
  BY LimitsAssumption
<1>2. Restricted(Today) \in Nat /\ Restricted(Today) > 0 /\ Selectable(Restricted(Today))
  BY <1>0, <1>1, RestrictedDates
<1>3. PICK a : a = [picker EXCEPT !.selected = Today]
  OBVIOUS
<1>4. a \in PickerStates /\ a.showing = picker.showing /\ a.current = picker.current
  BY <1>0, <1>1, <1>3 DEF PickerStates
<1>5. PICK u : u = UpdateDateTime(a)
  OBVIOUS
<1>6. u \in PickerStates /\ u.showing = picker.showing /\ (version = "1.4" => u.current = picker.current)
  BY <1>4, <1>5, UpdateKeeps DEF SameDate
<1>7. PICK b : b = [u EXCEPT !.selected = Restricted(Today)]
  OBVIOUS
<1>8. b \in PickerStates /\ b.showing = picker.showing /\ b.selected = Restricted(Today)
      /\ (version = "1.4" => b.current = picker.current)
  BY <1>2, <1>6, <1>7 DEF PickerStates
<1>9. PICK c : c = AddTimePicker(b)
  OBVIOUS
<1>10. c \in PickerStates /\ c.showing = picker.showing /\ c.selected = Restricted(Today)
       /\ (version = "1.4" => c.current = picker.current)
  BY <1>0, <1>8, <1>9, AddKeeps DEF SameDate
<1>11. PICK q : q = SetTime(c, t)
  OBVIOUS
<1>12. /\ SameDate(c, q) /\ q \in PickerStates /\ q.showing = picker.showing /\ (version = "1.4" => q.current = picker.current)
       /\ Written(c) > 0 /\ Selectable(Written(c)) =>
              AtPicked(q) /\ (Written(q) = q.selected => InLimits(Written(q), q.time))
  BY <1>0, <1>10, <1>11, SetTimePicks DEF SameDate
<1>13. /\ picker.showing /\ UNCHANGED <<limits, version>>
       /\ picker' = IF Selectable(Today) THEN SelectDay(q, Today) ELSE q
       /\ IF Selectable(Today) THEN Picks(Today) ELSE Browses(q)
  BY <1>3, <1>5, <1>7, <1>9, <1>11 DEF PressNow, OnPicker
<1>14. CASE Selectable(Today)
  <2>1. picker' \in PickerStates /\ PickKept(picker', Today, FALSE, FALSE)
    BY <1>0, <1>1, <1>12, <1>13, <1>14, SelectDayPicks
  <2>2. picked' = Today /\ strayed' = FALSE /\ browsed' = FALSE
    BY <1>13, <1>14 DEF Picks
  <2> QED
    BY <1>0, <1>1, <1>13, <2>1, <2>2, PickerLeft
<1>15. CASE ~Selectable(Today)
  <2>1. /\ picker' = q /\ UNCHANGED picked
        /\ strayed' = (strayed \/ Strays(q)) /\ browsed' = (browsed \/ version = "1.3")
    BY <1>13, <1>15 DEF Browses
  <2>2. Strays(q) \in BOOLEAN
    BY DEF Strays
  <2>3. ASSUME picked > 0
        PROVE  PickKept(q, picked, strayed', browsed')
    <3>1. PickKept(picker, picked, strayed, browsed) /\ Written(picker) > 0 /\ Selectable(Written(picker))
      BY <2>3, PickerIs DEF PickKept, AtPicked
    <3>2. version = "1.4" => picker.current = picked /\ ~browsed /\ Written(picker) = picked /\ Written(c) = picked
      BY <1>0, <1>10, <2>3, <3>1 DEF Written, PickKept
    <3>3. version = "1.3" => Written(c) = Restricted(Today)
      BY <1>10 DEF Written
    <3>4. Written(c) > 0 /\ Selectable(Written(c))
      BY <1>0, <1>2, <3>1, <3>2, <3>3 DEF Versions
    <3>5. AtPicked(q) /\ (Written(q) = q.selected => InLimits(Written(q), q.time))
      BY <1>12, <3>4
    <3>6. Written(q) = Written(c)
      BY <1>12, SameWritten
    <3>7. ~strayed' => InLimits(Written(q), q.time)
      <4>1. CASE Written(q) = q.selected
        BY <3>5, <4>1
      <4>2. CASE Written(q) # q.selected
        <5>1. version = "1.4" /\ q.current # q.selected
          BY <1>0, <4>2 DEF Written, Versions
        <5>2. ~strayed' => ~strayed /\ q.time = picker.time
          BY <2>1, <5>1 DEF Strays
        <5> QED
          BY <3>1, <3>2, <3>6, <5>1, <5>2 DEF PickKept
      <4> QED
        BY <4>1, <4>2
    <3>8. (version = "1.4" => ~browsed') /\ (~browsed' => q.current = picked /\ version # "1.3")
      BY <1>0, <1>12, <2>1, <3>2 DEF Versions
    <3> QED
      BY <1>12, <1>13, <3>5, <3>7, <3>8 DEF PickKept
  <2> QED
    BY <1>0, <1>12, <1>13, <2>1, <2>2, <2>3, PickerLeft
<1> QED
  BY <1>14, <1>15

LEMMA TextsTyped ==
    /\ Texts \subseteq FieldTexts /\ Given \subseteq Times
    /\ \A d \in Dates, t \in Given \cup {NoTime} : Text(d, t) \in FieldTexts
BY LimitsAssumption DEF Texts, FieldTexts, NoText, Garbage, Text, NoTime

LEMMA TypeTextKept == ASSUME PickerInv, NEW text \in Texts, TypeText(text) PROVE PickerInv'
<1>0. /\ PickerTyped /\ picker \in PickerStates /\ limits \in Limits /\ version \in Versions
      /\ strayed \in BOOLEAN /\ browsed \in BOOLEAN
  BY PickerIs
<1>1. PICK p : p = [picker EXCEPT !.field = text]
  OBVIOUS
<1>2. p \in PickerStates
  BY <1>0, <1>1, TextsTyped DEF PickerStates
<1>3. FromField(p) \in PickerStates
  BY <1>0, <1>2, FromFieldKeeps
<1>4. AddTimePicker(FromField(p)) \in PickerStates
  BY <1>0, <1>3, AddKeeps DEF SameDate
<1>5. picker' \in {p, AddTimePicker(FromField(p))} /\ UNCHANGED <<limits, version, strayed, browsed>> /\ picked' = 0
  BY <1>1 DEF TypeText, OnPicker, Unpicks
<1> QED
  BY <1>0, <1>2, <1>4, <1>5, PickerLeft

LEMMA SetTextKept == ASSUME PickerInv, NEW d \in Dates, NEW t \in Given \cup {NoTime}, SetText(d, t) PROVE PickerInv'
<1>0. PickerTyped /\ picker \in PickerStates /\ strayed \in BOOLEAN /\ browsed \in BOOLEAN
  BY PickerIs
<1>1. picker' = [picker EXCEPT !.field = Text(d, t)] /\ UNCHANGED <<limits, version, strayed, browsed>> /\ picked' = 0
  BY DEF SetText, OnPicker, Unpicks
<1>2. picker' \in PickerStates
  BY <1>0, <1>1, TextsTyped DEF PickerStates
<1> QED
  BY <1>0, <1>1, <1>2, PickerLeft

LEMMA SetDateKept == ASSUME PickerInv, NEW d \in Dates, NEW t \in Times, SetDate(d, t) PROVE PickerInv'
<1>0. PickerTyped /\ picker \in PickerStates /\ limits \in Limits /\ version \in Versions
  BY PickerIs
<1>1. PICK a : a = [picker EXCEPT !.numeric = TRUE]
  OBVIOUS
<1>2. a \in PickerStates
  BY <1>0, <1>1 DEF PickerStates
<1>3. PICK drawn : drawn = AddTimePicker(a)
  OBVIOUS
<1>4. drawn \in PickerStates
  BY <1>0, <1>2, <1>3, AddKeeps DEF SameDate
<1>5. PICK date : date = Restricted(d)
  OBVIOUS
<1>6. date \in Nat /\ date > 0 /\ Selectable(date)
  BY <1>0, <1>5, RestrictedDates, LimitsAssumption
<1>7. PICK b : b = [drawn EXCEPT !.selected = date, !.current = date]
  OBVIOUS
<1>8. b \in PickerStates /\ b.selected = date /\ b.current = date
  BY <1>4, <1>6, <1>7 DEF PickerStates
<1>9. PICK u : u = UpdateDateTime(b)
  OBVIOUS
<1>10. u \in PickerStates /\ u.selected = date /\ u.current = date /\ u.field = Text(Written(u), u.formatted)
  BY <1>8, <1>9, UpdateKeeps DEF SameDate
<1>11. PICK based : based = AddTimePicker(u)
  OBVIOUS
<1>12. based \in PickerStates /\ based.selected = date /\ based.current = date /\ based.field.date = date
  <2>1. SameDate(u, based) /\ based.field \in {u.field, Text(Written(based), based.time)}
    BY <1>0, <1>10, <1>11, AddKeeps
  <2>2. based \in PickerStates /\ based.selected = date /\ based.current = date
    BY <1>10, <2>1 DEF SameDate
  <2> QED
    BY <1>10, <2>1, <2>2 DEF Text, Written
<1>13. PICK f : f = FromField(based)
  OBVIOUS
<1>14. f \in PickerStates /\ f.selected = date /\ f.current = date
  BY <1>0, <1>6, <1>12, <1>13, FromFieldKeeps
<1>15. PICK q : q = SetTime(f, t)
  OBVIOUS
<1>16. Written(f) = date
  BY <1>14 DEF Written
<1>17. /\ SameDate(f, q) /\ AtPicked(q) /\ q.field = Text(Written(q), q.time)
       /\ Written(q) = q.selected => InLimits(Written(q), q.time)
  BY <1>0, <1>6, <1>14, <1>15, <1>16, SetTimePicks
<1>18. q \in PickerStates /\ q.current = date /\ q.selected = date /\ Written(q) = date
  BY <1>14, <1>17 DEF SameDate, Written
<1>19. PickKept(q, date, FALSE, FALSE)
  BY <1>17, <1>18 DEF PickKept
<1>20. picker' = q /\ UNCHANGED <<limits, version>> /\ picked' = date /\ strayed' = FALSE /\ browsed' = FALSE
  BY <1>1, <1>3, <1>5, <1>7, <1>9, <1>11, <1>13, <1>15 DEF SetDate, OnPicker, Picks
<1> QED
  BY <1>0, <1>6, <1>18, <1>19, <1>20, PickerLeft

LEMMA GetDateKept == ASSUME PickerInv, GetDate PROVE PickerInv'
<1>0. /\ PickerTyped /\ picker \in PickerStates /\ limits \in Limits /\ version \in Versions
      /\ picked \in Nat /\ strayed \in BOOLEAN /\ browsed \in BOOLEAN
  BY PickerIs
<1>1. PICK p : p = IF picker.lastVal = Unread THEN FromField(picker) ELSE picker
  OBVIOUS
<1>2. picker.field # Unread
  BY <1>0 DEF PickerStates, FieldTexts, Unread
<1>3. /\ p \in PickerStates /\ p.showing = picker.showing /\ p.field = picker.field /\ p.time = picker.time
      /\ p.formatted = picker.formatted /\ p.timeDefined = picker.timeDefined
      /\ \/ p.selected = picker.selected /\ p.current = picker.current
         \/ picker.field.date > 0 /\ Selectable(picker.field.date) =>
                p.selected = picker.field.date /\ p.current = picker.field.date
  BY <1>0, <1>1, <1>2, FromFieldKeeps
<1>4. PICK q : q = IF p.current > 0 /\ p.field.date > 0 /\ p.field.time # NoTime
                   THEN [p EXCEPT !.time = p.field.time, !.numeric = TRUE] ELSE p
  OBVIOUS
<1>5. q \in PickerStates /\ q.showing = p.showing /\ q.field = p.field /\ q.formatted = p.formatted /\ q.timeDefined = p.timeDefined
      /\ q.selected = p.selected /\ q.current = p.current /\ q.time \in {p.time, p.field.time}
  BY <1>3, <1>4 DEF PickerStates, FieldTexts
<1>6. picker' = q /\ ~picker.showing /\ UNCHANGED <<limits, version, picked, strayed, browsed>>
  BY <1>1, <1>4 DEF GetDate, OnPicker, KeepsPick
<1>7. ASSUME picked > 0
      PROVE  PickKept(q, picked, strayed, browsed)
  <2>1. PickKept(picker, picked, strayed, browsed) /\ AtPicked(picker) /\ picker.field = Text(Written(picker), picker.time)
        /\ Selectable(picker.field.date) /\ picker.field.date > 0 /\ picker.field.date = Written(picker)
    BY <1>6, <1>7, PickerIs DEF PickKept, AtPicked
  <2>2. q.time = picker.time /\ q.field = picker.field /\ q.formatted = picker.formatted /\ q.timeDefined = picker.timeDefined
    BY <1>3, <1>5, <2>1 DEF Text
  <2>3. Written(q) = Written(picker) /\ (~browsed => q.current = picked /\ (version = "1.3" => q.selected = picked))
    BY <1>0, <1>3, <1>5, <1>7, <2>1 DEF Written, PickKept, Versions
  <2> QED
    BY <1>3, <1>5, <2>1, <2>2, <2>3 DEF PickKept, AtPicked
<1> QED
  BY <1>0, <1>5, <1>6, <1>7, PickerLeft

LEMMA PickerKept == ASSUME PickerInv, PickerNext PROVE PickerInv'
BY OpenPickerKept, ClosePickerKept, PickDayKept, SlideKept, BrowseKept, PressNowKept, TypeTextKept, SetTextKept,
   SetDateKept, GetDateKept, TextsTyped DEF PickerNext

\* For any dates, times and limits of different hours, whatever is clicked, slid, shown, typed and set: the field of
\* a closed picker and getDate say the date that was picked last, with the time of the sliders.  Where version 1.3
\* loses that date, as it does by showing another month, the field says the one shown; and the moment is within the
\* limits, but where version 1.4 moved or limited the time while another month was shown.
THEOREM PickedIsInField == Spec => []FieldAsPicked
<1>1. Init => PickerInv
  <2> SUFFICES ASSUME PickerInit
               PROVE  PickerInv
    BY DEF Init
  <2>1. limits \in Limits /\ version \in {"1.3", "1.4"} /\ picked = 0 /\ strayed = FALSE /\ browsed = FALSE
    BY DEF PickerInit
  <2>2. Restricted(Today) \in Nat
    BY <2>1, RestrictedDates, LimitsAssumption
  <2>3. [i \in 1..Units |-> 0] \in Times /\ NoText \in FieldTexts
    BY LimitsAssumption DEF Times, NoText, FieldTexts, NoTime
  <2>4. picker \in PickerStates
    BY <2>2, <2>3 DEF PickerInit, PickerStates
  <2>5. PickerTyped
    BY <2>1, <2>4 DEF PickerTyped, Versions
  <2> QED
    BY <2>1, <2>5 DEF PickerInv
<1>2. PickerInv /\ [Next]_vars => PickerInv'
  <2>1. [Next]_vars => PickerNext \/ UNCHANGED pickerVars
    BY DEF Next, vars, widgetVars
  <2>2. ASSUME PickerInv, UNCHANGED pickerVars
        PROVE  PickerInv'
    BY <2>2, PickerIs, PickerLeft DEF pickerVars
  <2> QED
    BY <2>1, <2>2, PickerKept
<1>3. PickerInv => FieldAsPicked
  <2> SUFFICES ASSUME PickerInv, picked > 0, ~picker.showing
               PROVE  /\ picker.field = Text(IF browsed THEN picker.selected ELSE picked, picker.time)
                      /\ ~browsed => picker.current = picked
                      /\ ~strayed => InLimits(picker.field.date, picker.field.time)
    BY DEF FieldAsPicked
  <2>1. PickKept(picker, picked, strayed, browsed) /\ version \in Versions /\ picked \in Nat
    BY PickerIs
  <2>2. picker.field = Text(Written(picker), picker.time)
    BY <2>1 DEF PickKept
  <2>3. Written(picker) = IF browsed THEN picker.selected ELSE picked
    BY <2>1 DEF PickKept, Written, Versions
  <2> QED
    BY <2>1, <2>2, <2>3 DEF PickKept, Text
<1> QED
  BY <1>1, <1>2, <1>3, PTL DEF Spec

-----------------------------------------------------------------------------
(* The accordion. *)

\* A group that moves is open if it will have been opened at the end; the others have come to rest.
CollapseInv ==
    /\ opened \subseteq Groups /\ ending \in [Groups -> {"nothing", "show", "hide"}] /\ smooth \in BOOLEAN
    /\ height \in [Groups -> {"none", "auto", "fixed"}]
    /\ \A g, h \in opened : g = h
    /\ transitioning = {g \in Groups : ending[g] # "nothing"}
    /\ ~smooth => transitioning = {}
    /\ \A g \in Groups :
        /\ ending[g] = "nothing" => height[g] = IF g \in opened THEN "auto" ELSE "none"
        /\ ending[g] = "show" => g \in opened
        /\ ending[g] = "hide" => g \notin opened /\ height[g] = "none"

LEMMA OpenGroupKept == ASSUME CollapseInv, NEW g \in Groups, OpenGroup(g), UNCHANGED smooth PROVE CollapseInv'
<1> DEFINE event == [other \in Groups |-> IF other = g THEN "show" ELSE "hide"]
           moved == {g} \cup opened
<1>1. /\ g \notin transitioning \cup opened /\ opened \cap transitioning = {} /\ opened' = {g}
      /\ transitioning' = (IF smooth THEN transitioning \cup moved ELSE transitioning)
      /\ ending' = (IF smooth THEN [h \in Groups |-> IF h \in moved THEN event[h] ELSE ending[h]] ELSE ending)
      /\ height' = [other \in Groups |-> IF other \in opened THEN "none"
                                         ELSE IF other # g THEN height[other]
                                         ELSE IF smooth THEN "fixed" ELSE "auto"]
  BY DEF OpenGroup, Transition, Active
<1>2. height' \in [Groups -> {"none", "auto", "fixed"}]
  BY <1>1 DEF CollapseInv
<1>3. CASE smooth
  <2>1. /\ ending' \in [Groups -> {"nothing", "show", "hide"}]
        /\ \A h \in Groups : ending'[h] = IF h = g THEN "show" ELSE IF h \in opened THEN "hide" ELSE ending[h]
    BY <1>1, <1>3 DEF CollapseInv
  <2>2. transitioning' = {h \in Groups : ending'[h] # "nothing"}
    BY <1>1, <1>3, <2>1 DEF CollapseInv
  <2>3. ASSUME NEW h \in Groups
        PROVE  /\ ending'[h] = "nothing" => height'[h] = IF h \in opened' THEN "auto" ELSE "none"
               /\ ending'[h] = "show" => h \in opened'
               /\ ending'[h] = "hide" => h \notin opened' /\ height'[h] = "none"
    BY <1>1, <2>1 DEF CollapseInv
  <2> QED
    BY <1>1, <1>2, <1>3, <2>1, <2>2, <2>3 DEF CollapseInv
<1>4. CASE ~smooth
  <2>1. \A h \in Groups : ending[h] = "nothing"
    BY <1>4 DEF CollapseInv
  <2>2. \A h \in Groups : height'[h] = IF h \in opened' THEN "auto" ELSE "none"
    BY <1>1, <1>4, <2>1 DEF CollapseInv
  <2> QED
    BY <1>1, <1>2, <1>4, <2>1, <2>2 DEF CollapseInv
<1> QED
  BY <1>3, <1>4

LEMMA CloseGroupKept == ASSUME CollapseInv, NEW g \in Groups, CloseGroup(g), UNCHANGED smooth PROVE CollapseInv'
<1>1. /\ g \in opened /\ g \notin transitioning /\ opened' = opened \ {g}
      /\ transitioning' = (IF smooth THEN transitioning \cup {g} ELSE transitioning)
      /\ ending' = (IF smooth THEN [h \in Groups |-> IF h \in {g} THEN "hide" ELSE ending[h]] ELSE ending)
      /\ height' = [height EXCEPT ![g] = "none"]
  BY DEF CloseGroup, Transition
<1>2. height' \in [Groups -> {"none", "auto", "fixed"}]
  BY <1>1 DEF CollapseInv
<1>3. \A h \in Groups : height'[h] = IF h = g THEN "none" ELSE height[h]
  BY <1>1 DEF CollapseInv
<1>4. CASE smooth
  <2>1. /\ ending' \in [Groups -> {"nothing", "show", "hide"}]
        /\ \A h \in Groups : ending'[h] = IF h = g THEN "hide" ELSE ending[h]
    BY <1>1, <1>4 DEF CollapseInv
  <2>2. transitioning' = {h \in Groups : ending'[h] # "nothing"}
    BY <1>1, <1>4, <2>1 DEF CollapseInv
  <2> QED
    BY <1>1, <1>2, <1>3, <1>4, <2>1, <2>2 DEF CollapseInv
<1>5. CASE ~smooth
  BY <1>1, <1>2, <1>3, <1>5 DEF CollapseInv
<1> QED
  BY <1>4, <1>5

LEMMA GroupMovedKept == ASSUME CollapseInv, NEW g \in Groups, GroupMoved(g) PROVE CollapseInv'
<1>1. /\ ending[g] # "nothing" /\ transitioning' = transitioning \ {g} /\ ending' = [ending EXCEPT ![g] = "nothing"]
      /\ height' = (IF ending[g] = "show" THEN [height EXCEPT ![g] = "auto"] ELSE height)
      /\ UNCHANGED <<opened, smooth>>
  BY DEF GroupMoved
<1>2. /\ ending' \in [Groups -> {"nothing", "show", "hide"}] /\ height' \in [Groups -> {"none", "auto", "fixed"}]
      /\ \A h \in Groups : ending'[h] = IF h = g THEN "nothing" ELSE ending[h]
      /\ \A h \in Groups : height'[h] = IF h = g /\ ending[g] = "show" THEN "auto" ELSE height[h]
  BY <1>1 DEF CollapseInv
<1>3. transitioning' = {h \in Groups : ending'[h] # "nothing"}
  BY <1>1, <1>2 DEF CollapseInv
<1> QED
  BY <1>1, <1>2, <1>3 DEF CollapseInv

LEMMA CollapseKept == ASSUME CollapseInv, CollapseNext PROVE CollapseInv'
BY OpenGroupKept, CloseGroupKept, GroupMovedKept DEF CollapseNext, ClickHeading

LEMMA CollapseUnchanged == ASSUME CollapseInv, UNCHANGED collapseVars PROVE CollapseInv'
BY DEF CollapseInv, collapseVars

LEMMA CollapseStarts == ASSUME CollapseInit PROVE CollapseInv
BY DEF CollapseInit, CollapseInv

LEMMA CollapseSettles == ASSUME CollapseInv PROVE OneGroupOpen
<1>1. Cardinality(opened) =< 1
  <2>1. CASE opened = {}
    BY <2>1, FS_EmptySet
  <2>2. CASE opened # {}
    <3>1. PICK g : opened = {g}
      BY <2>2 DEF CollapseInv
    <3> QED
      BY <3>1, FS_Singleton
  <2> QED
    BY <2>1, <2>2
<1> QED
  BY <1>1 DEF OneGroupOpen, CollapseInv

-----------------------------------------------------------------------------
(* The pop-ups. *)

Ids == Nat \ {0}
PopUps ==
    [isShown : BOOLEAN, displayed : BOOLEAN, in : BOOLEAN, timeouts : SUBSET Ids, ends : Seq(Nat), backdrop : Nat,
     keyups : Nat]
Backs == [owner : Modals, ends : Seq({"reveal", "remove"})]

\* A pop-up's backdrop is one of its own.
PageOK(p) ==
    /\ p = [modals |-> p.modals, backs |-> p.backs, focusins |-> p.focusins]
    /\ p.modals \in [Modals -> PopUps] /\ p.focusins \in [Modals -> Nat]
    /\ IsFiniteSet(DOMAIN p.backs) /\ DOMAIN p.backs \subseteq Ids /\ p.backs \in [DOMAIN p.backs -> Backs]
    /\ \A m \in Modals : IsFiniteSet(p.modals[m].timeouts)
    /\ \A m \in Modals : p.modals[m].backdrop # NoBackdrop =>
            p.modals[m].backdrop \in DOMAIN p.backs /\ p.backs[p.modals[m].backdrop].owner = m

Handling(op, m, x) == [op |-> op, of |-> m, handler |-> x]
Handlings == [op : {"transition"}, of : Modals, handler : Nat] \cup [op : {"backdrop"}, of : Modals, handler : {"reveal", "remove"}]

\* What has been done to the pop-up m has left the others, and what is behind them, as they were.
LeavesOthers(p, q, m) ==
    /\ PageOK(q)
    /\ \A o \in Modals \ {m} : q.modals[o] = p.modals[o]
    /\ \A b \in DOMAIN q.backs : q.backs[b].owner # m => b \in DOMAIN p.backs /\ q.backs[b] = p.backs[b]
    /\ \A b \in DOMAIN p.backs : p.backs[b].owner # m => b \in DOMAIN q.backs /\ q.backs[b] = p.backs[b]
LeavesFocus(p, q, m) == \A o \in Modals \ {m} : q.focusins[o] = p.focusins[o]

\* The backdrops of a pop-up.
OneBack(p, m, ends) ==
    /\ p.modals[m].backdrop \in DOMAIN p.backs
    /\ p.backs[p.modals[m].backdrop] = [owner |-> m, ends |-> ends]
    /\ \A b \in DOMAIN p.backs : p.backs[b].owner = m => b = p.modals[m].backdrop
NoBack(p, m) == p.modals[m].backdrop = NoBackdrop /\ \A b \in DOMAIN p.backs : p.backs[b].owner # m
KeepsBack(p, q, m) == \A ends : OneBack(p, m, ends) => OneBack(q, m, ends)
GetsEnds(p, q, m, ends) == \A was : OneBack(p, m, was) => OneBack(q, m, ends)
LosesBack(p, q, m) == \A ends : OneBack(p, m, ends) => NoBack(q, m)
Away(h, m) == \A i \in DOMAIN h : h[i].of # m

\* The life of a pop-up that is neither shown while it is being hidden nor hidden before it is revealed.
Closed(p, h, m) ==
    LET modal == p.modals[m]
    IN  /\ ~modal.isShown /\ ~modal.displayed /\ modal.timeouts = {} /\ modal.ends = <<>> /\ modal.keyups = 0
        /\ p.focusins[m] = 0 /\ NoBack(p, m) /\ Away(h, m)
Opening(p, h, m) ==
    LET modal == p.modals[m]
    IN  /\ fades /\ modal.isShown /\ ~modal.displayed /\ modal.timeouts = {} /\ modal.ends = <<>> /\ modal.keyups = 1
        /\ p.focusins[m] = 0
        /\ \/ OneBack(p, m, <<"reveal">>) /\ Away(h, m)
           \/ OneBack(p, m, <<>>) /\ h = <<Handling("backdrop", m, "reveal")>>
Opened(p, h, m) ==
    LET modal == p.modals[m]
    IN  /\ modal.isShown /\ modal.displayed /\ modal.timeouts = {} /\ modal.keyups = 1
        /\ m \notin unguarded => p.focusins[m] = 1
        /\ OneBack(p, m, <<>>)
        /\ \/ modal.ends = <<>> /\ Away(h, m)
           \/ fades /\ modal.ends = <<Shown>> /\ Away(h, m)
           \/ fades /\ modal.ends = <<>> /\ h = <<Handling("transition", m, Shown)>>
ClosingBy(p, h, m, id) ==
    LET modal == p.modals[m]
    IN  /\ modal.timeouts = {id}
        /\ \/ modal.ends \in {<<id>>, <<Shown, id>>} /\ Away(h, m)
           \/ modal.ends = <<>> /\ h \in {<<Handling("transition", m, id)>>,
                                          <<Handling("transition", m, Shown), Handling("transition", m, id)>>}
Closing(p, h, m) ==
    LET modal == p.modals[m]
    IN  /\ fades /\ ~modal.isShown /\ modal.displayed /\ modal.keyups = 0
        /\ p.focusins[m] = 0 /\ OneBack(p, m, <<>>)
        /\ \E id \in Ids : ClosingBy(p, h, m, id)
Fading(p, h, m) ==
    LET modal == p.modals[m]
    IN  /\ fades /\ ~modal.isShown /\ ~modal.displayed /\ modal.timeouts = {} /\ modal.ends = <<>> /\ modal.keyups = 0
        /\ p.focusins[m] = 0
        /\ \/ OneBack(p, m, <<"remove">>) /\ Away(h, m)
           \/ OneBack(p, m, <<>>) /\ h = <<Handling("backdrop", m, "remove")>>

Stage(p, h, m) == Closed(p, h, m) \/ Opening(p, h, m) \/ Opened(p, h, m) \/ Closing(p, h, m) \/ Fading(p, h, m)

HandlingOK(h) == h \in Seq(Handlings) /\ \A i, j \in DOMAIN h : h[i].of = h[j].of

ModalInv ==
    /\ PageOK(page) /\ HandlingOK(handling) /\ fades \in BOOLEAN
    /\ \A m \in Modals \ (overlapped \cup hasty) : Stage(page, handling, m)

LEMMA FreshIsFresh ==
    ASSUME NEW used, IsFiniteSet(used)
    PROVE  FreshId(used) \in Ids /\ FreshId(used) \notin used
<1>1. PICK n \in Nat : n = Cardinality(used)
  BY FS_CardinalityType
<1>2. \E i \in 1..(n + 1) : i \notin used
  <2> SUFFICES ASSUME 1..(n + 1) \subseteq used
               PROVE  FALSE
    OBVIOUS
  <2>1. Cardinality(1..(n + 1)) =< n
    BY <1>1, FS_Subset
  <2>2. Cardinality(1..(n + 1)) = n + 1
    BY FS_Interval
  <2> QED
    BY <1>1, <2>1, <2>2
<1> QED
  BY <1>1, <1>2 DEF FreshId, Ids

\* What is a page, and what is done to it, field by field.
Page(q) == q = [modals |-> q.modals, backs |-> q.backs, focusins |-> q.focusins]

SetsPopUp(p, q, m, modal) ==
    /\ Page(q) /\ q.modals = [p.modals EXCEPT ![m] = modal] /\ q.backs = p.backs /\ q.focusins \in [Modals -> Nat]
    /\ modal \in PopUps /\ IsFiniteSet(modal.timeouts) /\ modal.backdrop = p.modals[m].backdrop
AddsBack(p, q, m, new, ends) ==
    /\ Page(q) /\ q.modals = [p.modals EXCEPT ![m] = [p.modals[m] EXCEPT !.backdrop = new]] /\ q.focusins = p.focusins
    /\ q.backs = [b \in DOMAIN p.backs \cup {new} |-> IF b # new THEN p.backs[b] ELSE [owner |-> m, ends |-> ends]]
SetsEnds(p, q, b, ends) ==
    /\ Page(q) /\ q.modals = p.modals /\ q.focusins = p.focusins
    /\ q.backs = [p.backs EXCEPT ![b] = [p.backs[b] EXCEPT !.ends = ends]]
RemovesBack(p, q, m) ==
    /\ Page(q) /\ q.modals = [p.modals EXCEPT ![m] = [p.modals[m] EXCEPT !.backdrop = NoBackdrop]]
    /\ q.focusins = p.focusins /\ q.backs = [b \in DOMAIN p.backs \ {p.modals[m].backdrop} |-> p.backs[b]]

LEMMA LeavesTwice ==
    ASSUME NEW p, NEW q, NEW r, NEW m, LeavesOthers(p, q, m), LeavesOthers(q, r, m)
    PROVE  LeavesOthers(p, r, m)
BY DEF LeavesOthers

\* The pop-up itself changes.
LEMMA ModalSet ==
    ASSUME NEW p, PageOK(p), NEW m \in Modals, NEW modal, NEW q, SetsPopUp(p, q, m, modal)
    PROVE  /\ LeavesOthers(p, q, m) /\ q.modals[m] = modal
           /\ KeepsBack(p, q, m)
           /\ NoBack(p, m) => NoBack(q, m)
<1>1. q.modals \in [Modals -> PopUps] /\ q.modals[m] = modal /\ \A o \in Modals \ {m} : q.modals[o] = p.modals[o]
  BY DEF PageOK, SetsPopUp
<1>2. PageOK(q)
  BY <1>1 DEF PageOK, Page, SetsPopUp
<1> QED
  BY <1>1, <1>2 DEF SetsPopUp, LeavesOthers, KeepsBack, OneBack, NoBack

LEMMA BackdropSet ==
    ASSUME NEW modal \in PopUps, NEW b \in Nat, NEW new, new = [modal EXCEPT !.backdrop = b]
    PROVE  new \in PopUps /\ new.timeouts = modal.timeouts /\ new.backdrop = b
BY DEF PopUps

\* It gets a backdrop.
LEMMA BackAdded ==
    ASSUME NEW p, PageOK(p), NEW m \in Modals, NEW new \in Ids, new \notin DOMAIN p.backs,
           NEW ends \in Seq({"reveal", "remove"}), NEW q, AddsBack(p, q, m, new, ends)
    PROVE  /\ LeavesOthers(p, q, m) /\ q.modals[m] = [p.modals[m] EXCEPT !.backdrop = new]
           /\ NoBack(p, m) => OneBack(q, m, ends)
<1> USE DEF AddsBack
<1>1. PICK modal : modal = [p.modals[m] EXCEPT !.backdrop = new]
  OBVIOUS
<1>2. modal \in PopUps /\ modal.timeouts = p.modals[m].timeouts /\ modal.backdrop = new
  BY <1>1, BackdropSet DEF PageOK, Ids
<1>3. q.modals \in [Modals -> PopUps] /\ q.modals[m] = modal /\ \A o \in Modals \ {m} : q.modals[o] = p.modals[o]
  BY <1>1, <1>2 DEF PageOK
<1>4. PICK back : back = [owner |-> m, ends |-> ends]
  OBVIOUS
<1>5. back \in Backs /\ back.owner = m
  BY <1>4 DEF Backs
<1>6. /\ DOMAIN q.backs = DOMAIN p.backs \cup {new} /\ q.backs[new] = back
      /\ \A b \in DOMAIN p.backs : q.backs[b] = p.backs[b]
  BY <1>4
<1>7. q.backs \in [DOMAIN q.backs -> Backs]
  BY <1>4, <1>5, <1>6 DEF PageOK
<1>8. IsFiniteSet(DOMAIN q.backs) /\ DOMAIN q.backs \subseteq Ids
  BY <1>6, FS_AddElement DEF PageOK
<1>9. \A o \in Modals : IsFiniteSet(q.modals[o].timeouts)
  BY <1>2, <1>3 DEF PageOK
<1>10. \A o \in Modals : q.modals[o].backdrop # NoBackdrop =>
            q.modals[o].backdrop \in DOMAIN q.backs /\ q.backs[q.modals[o].backdrop].owner = o
  BY <1>2, <1>3, <1>5, <1>6 DEF PageOK
<1>11. PageOK(q)
  BY <1>3, <1>7, <1>8, <1>9, <1>10 DEF PageOK, Page
<1>12. LeavesOthers(p, q, m)
  BY <1>3, <1>5, <1>6, <1>11 DEF LeavesOthers
<1>13. NoBack(p, m) => OneBack(q, m, ends)
  BY <1>2, <1>3, <1>4, <1>5, <1>6 DEF NoBack, OneBack
<1> QED
  BY <1>1, <1>3, <1>12, <1>13

\* The handlers of the end of its backdrop's transition change.
LEMMA BackEndsSet ==
    ASSUME NEW p, PageOK(p), NEW b \in DOMAIN p.backs, NEW ends \in Seq({"reveal", "remove"}), NEW m, m = p.backs[b].owner,
           NEW q, SetsEnds(p, q, b, ends)
    PROVE  LeavesOthers(p, q, m) /\ GetsEnds(p, q, m, ends)
<1> USE DEF SetsEnds
<1>1. p.backs[b] \in Backs
  BY DEF PageOK
<1>2. [p.backs[b] EXCEPT !.ends = ends] \in Backs
      /\ [p.backs[b] EXCEPT !.ends = ends] = [owner |-> m, ends |-> ends]
  BY <1>1 DEF Backs
<1>3. /\ DOMAIN q.backs = DOMAIN p.backs /\ q.backs[b] = [owner |-> m, ends |-> ends]
      /\ q.backs \in [DOMAIN q.backs -> Backs]
      /\ \A c \in DOMAIN p.backs : q.backs[c].owner = p.backs[c].owner /\ (c # b => q.backs[c] = p.backs[c])
  BY <1>2 DEF PageOK
<1>4. PageOK(q)
  BY <1>3 DEF PageOK, Page
<1>5. LeavesOthers(p, q, m)
  BY <1>3, <1>4 DEF LeavesOthers
<1>6. ASSUME NEW was, OneBack(p, m, was)
      PROVE  OneBack(q, m, ends)
  BY <1>3, <1>6 DEF OneBack
<1> QED
  BY <1>5, <1>6 DEF GetsEnds

\* Its backdrop goes.
LEMMA BackRemoved ==
    ASSUME NEW p, PageOK(p), NEW m \in Modals, NEW q, RemovesBack(p, q, m)
    PROVE  /\ LeavesOthers(p, q, m) /\ q.modals[m] = [p.modals[m] EXCEPT !.backdrop = NoBackdrop]
           /\ LosesBack(p, q, m)
<1> USE DEF RemovesBack
<1>1. PICK modal : modal = [p.modals[m] EXCEPT !.backdrop = NoBackdrop]
  OBVIOUS
<1>2. modal \in PopUps /\ modal.timeouts = p.modals[m].timeouts /\ modal.backdrop = NoBackdrop
  <2>1. p.modals[m] \in PopUps /\ NoBackdrop \in Nat
    BY DEF PageOK, NoBackdrop
  <2> QED
    BY <1>1, <2>1, BackdropSet
<1>3. q.modals \in [Modals -> PopUps] /\ q.modals[m] = modal /\ \A o \in Modals \ {m} : q.modals[o] = p.modals[o]
  BY <1>1, <1>2 DEF PageOK
<1>4. PICK old : old = p.modals[m].backdrop
  OBVIOUS
<1>5. DOMAIN q.backs = DOMAIN p.backs \ {old} /\ \A b \in DOMAIN q.backs : q.backs[b] = p.backs[b]
  BY <1>4
<1>6. \A b \in DOMAIN p.backs : b = old => p.backs[b].owner = m
  BY <1>4 DEF PageOK, Ids, NoBackdrop
<1>7. q.backs \in [DOMAIN q.backs -> Backs]
  BY <1>4, <1>5 DEF PageOK
<1>8. IsFiniteSet(DOMAIN q.backs) /\ DOMAIN q.backs \subseteq Ids
  BY <1>5, FS_Subset DEF PageOK
<1>9. \A o \in Modals : IsFiniteSet(q.modals[o].timeouts)
  BY <1>2, <1>3 DEF PageOK
<1>10. \A o \in Modals : q.modals[o].backdrop # NoBackdrop =>
            q.modals[o].backdrop \in DOMAIN q.backs /\ q.backs[q.modals[o].backdrop].owner = o
  BY <1>2, <1>3, <1>5, <1>6 DEF PageOK
<1>11. PageOK(q)
  BY <1>3, <1>7, <1>8, <1>9, <1>10 DEF PageOK, Page
<1>12. LeavesOthers(p, q, m)
  BY <1>3, <1>5, <1>6, <1>11 DEF LeavesOthers
<1>13. ASSUME NEW ends, OneBack(p, m, ends)
       PROVE  NoBack(q, m)
  BY <1>2, <1>3, <1>4, <1>5, <1>13 DEF NoBack, OneBack
<1> QED
  BY <1>1, <1>3, <1>12, <1>13 DEF LosesBack

\* What the functions of the code do to a page.
KeepsPopUp(p, q, m) ==
    LET was == p.modals[m]
        is == q.modals[m]
    IN  /\ is.isShown = was.isShown /\ is.displayed = was.displayed /\ is.timeouts = was.timeouts
        /\ is.ends = was.ends /\ is.keyups = was.keyups
RevealsPopUp(p, q, m) ==
    LET was == p.modals[m]
        is == q.modals[m]
    IN  /\ is.isShown = was.isShown /\ is.displayed /\ is.timeouts = was.timeouts
        /\ is.ends = (IF fades THEN Append(was.ends, Shown) ELSE was.ends) /\ is.keyups = was.keyups
        /\ q.focusins[m] = p.focusins[m] + 1
HidesPopUp(p, q, m) ==
    LET was == p.modals[m]
        is == q.modals[m]
    IN  /\ is.isShown = was.isShown /\ ~is.displayed /\ is.timeouts = was.timeouts
        /\ is.ends = was.ends /\ is.keyups = was.keyups

LEMMA RevealDoes ==
    ASSUME NEW p, PageOK(p), fades \in BOOLEAN, NEW m \in Modals, NEW q, q = Reveal(p, m)
    PROVE  /\ LeavesOthers(p, q, m) /\ LeavesFocus(p, q, m)
           /\ RevealsPopUp(p, q, m) /\ KeepsBack(p, q, m)
<1>1. p.modals[m] \in PopUps /\ p.focusins[m] \in Nat
  BY DEF PageOK
<1>2. PICK modal : modal = Revealed(p.modals[m])
  OBVIOUS
<1>3. /\ modal.isShown = p.modals[m].isShown /\ modal.displayed /\ modal.timeouts = p.modals[m].timeouts
      /\ modal.ends = (IF fades THEN Append(p.modals[m].ends, Shown) ELSE p.modals[m].ends)
      /\ modal.keyups = p.modals[m].keyups /\ modal.backdrop = p.modals[m].backdrop
  BY <1>1, <1>2 DEF Revealed, PopUps
<1>4. modal \in PopUps
  <2>1. p.modals[m].ends \in Seq(Nat) /\ Shown \in Nat
    BY <1>1 DEF PopUps, Shown
  <2>2. Append(p.modals[m].ends, Shown) \in Seq(Nat)
    BY <2>1
  <2>3. modal = [p.modals[m] EXCEPT !.displayed = TRUE, !.in = TRUE, !.ends = modal.ends] /\ modal.ends \in Seq(Nat)
    BY <1>1, <1>2, <2>1, <2>2 DEF Revealed, PopUps
  <2> QED
    BY <1>1, <2>3 DEF PopUps
<1>5. q = [p EXCEPT !.modals[m] = modal, !.focusins[m] = @ + 1]
  BY <1>2 DEF Reveal
<1>6. /\ Page(q) /\ q.modals = [p.modals EXCEPT ![m] = modal] /\ q.backs = p.backs
      /\ q.focusins = [p.focusins EXCEPT ![m] = p.focusins[m] + 1]
  BY <1>5 DEF PageOK, Page
<1>7. q.focusins \in [Modals -> Nat] /\ q.focusins[m] = p.focusins[m] + 1 /\ LeavesFocus(p, q, m)
  BY <1>1, <1>6 DEF PageOK, LeavesFocus
<1>8. IsFiniteSet(modal.timeouts)
  BY <1>3 DEF PageOK
<1>10. SetsPopUp(p, q, m, modal)
  BY <1>3, <1>4, <1>6, <1>7, <1>8 DEF SetsPopUp
<1>11. LeavesOthers(p, q, m) /\ q.modals[m] = modal /\ KeepsBack(p, q, m)
  BY <1>10, ModalSet
<1> QED
  BY <1>3, <1>7, <1>11 DEF RevealsPopUp

LEMMA RemoveDoes ==
    ASSUME NEW p, PageOK(p), NEW m \in Modals, NEW q, q = RemoveBackdrop(p, m)
    PROVE  /\ LeavesOthers(p, q, m) /\ q.focusins = p.focusins /\ KeepsPopUp(p, q, m)
           /\ LosesBack(p, q, m)
<1>1. q = [p EXCEPT !.modals = [p.modals EXCEPT ![m] = [p.modals[m] EXCEPT !.backdrop = NoBackdrop]],
                    !.backs = [b \in DOMAIN p.backs \ {p.modals[m].backdrop} |-> p.backs[b]]]
  BY DEF RemoveBackdrop, PageOK
<1>2. /\ Page(q) /\ q.modals = [p.modals EXCEPT ![m] = [p.modals[m] EXCEPT !.backdrop = NoBackdrop]]
      /\ q.focusins = p.focusins /\ q.backs = [b \in DOMAIN p.backs \ {p.modals[m].backdrop} |-> p.backs[b]]
  BY <1>1 DEF PageOK, Page
<1>3. /\ LeavesOthers(p, q, m) /\ q.modals[m] = [p.modals[m] EXCEPT !.backdrop = NoBackdrop]
      /\ LosesBack(p, q, m)
  <2>1. RemovesBack(p, q, m)
    BY <1>2 DEF RemovesBack
  <2> QED
    BY <2>1, BackRemoved
<1>4. KeepsPopUp(p, q, m)
  BY <1>3 DEF KeepsPopUp, PageOK, PopUps
<1> QED
  BY <1>2, <1>3, <1>4

LEMMA AfterFadingDoes ==
    ASSUME NEW p, PageOK(p), fades \in BOOLEAN, NEW m \in Modals, NEW callback, NEW q, q = AfterFading(p, m, callback)
    PROVE  LeavesOthers(p, q, m) /\ LeavesFocus(p, q, m)
<1>1. CASE callback = "reveal"
  BY <1>1, RevealDoes DEF AfterFading
<1>2. CASE callback # "reveal"
  BY <1>2, RemoveDoes DEF AfterFading, LeavesFocus
<1> QED
  BY <1>1, <1>2

LEMMA LeavesFocusTwice ==
    ASSUME NEW p, NEW q, NEW r, NEW m, LeavesFocus(p, q, m), LeavesFocus(q, r, m)
    PROVE  LeavesFocus(p, r, m)
BY DEF LeavesFocus

LEMMA BackdropShown ==
    ASSUME NEW p, PageOK(p), fades \in BOOLEAN, NEW m \in Modals, NEW callback \in {"reveal", "remove"},
           p.modals[m].isShown, NEW q, q = Backdrop(p, m, callback)
    PROVE  /\ LeavesOthers(p, q, m) /\ LeavesFocus(p, q, m)
           /\ NoBack(p, m) /\ callback = "reveal" =>
                IF fades
                THEN KeepsPopUp(p, q, m) /\ q.focusins = p.focusins /\ OneBack(q, m, <<"reveal">>)
                ELSE RevealsPopUp(p, q, m) /\ OneBack(q, m, <<>>)
<1>1. PICK new \in Ids : new = FreshId(DOMAIN p.backs) /\ new \notin DOMAIN p.backs
  BY FreshIsFresh DEF PageOK
<1>2. PICK ends : ends = IF fades THEN <<callback>> ELSE <<>>
  BY Zenon
<1>11. ends \in Seq({"reveal", "remove"})
  <2>1. <<callback>> \in Seq({"reveal", "remove"}) /\ <<>> \in Seq({"reveal", "remove"})
    OBVIOUS
  <2> QED
    BY <1>2, <2>1, Zenon
<1>3. PICK d : d = [p EXCEPT !.modals = [p.modals EXCEPT ![m] = [p.modals[m] EXCEPT !.backdrop = new]],
                             !.backs = [b \in DOMAIN p.backs \cup {new} |->
                                           IF b # new THEN p.backs[b] ELSE [owner |-> m, ends |-> ends]]]
  BY Zenon
<1>4. q = IF fades THEN d ELSE AfterFading(d, m, callback)
  BY <1>1, <1>2, <1>3 DEF Backdrop, PageOK
<1>5. /\ Page(d) /\ d.modals = [p.modals EXCEPT ![m] = [p.modals[m] EXCEPT !.backdrop = new]]
      /\ d.focusins = p.focusins
      /\ d.backs = [b \in DOMAIN p.backs \cup {new} |-> IF b # new THEN p.backs[b] ELSE [owner |-> m, ends |-> ends]]
  BY <1>3 DEF PageOK, Page
<1>6. /\ LeavesOthers(p, d, m) /\ d.modals[m] = [p.modals[m] EXCEPT !.backdrop = new]
      /\ NoBack(p, m) => OneBack(d, m, ends)
  <2>1. AddsBack(p, d, m, new, ends)
    BY <1>5 DEF AddsBack
  <2> QED
    BY <1>1, <1>11, <2>1, BackAdded
<1>7. LeavesFocus(p, d, m) /\ PageOK(d)
  BY <1>5, <1>6 DEF LeavesFocus, LeavesOthers
<1>8. KeepsPopUp(p, d, m)
  <2>1. p.modals[m] \in PopUps
    BY DEF PageOK
  <2> QED
    BY <1>6, <2>1 DEF KeepsPopUp, PopUps
<1>9. CASE fades
  BY <1>2, <1>4, <1>5, <1>6, <1>7, <1>8, <1>9
<1>10. CASE ~fades
  <2>1. LeavesOthers(d, q, m) /\ LeavesFocus(d, q, m)
    BY <1>4, <1>7, <1>10, AfterFadingDoes
  <2>2. LeavesOthers(p, q, m) /\ LeavesFocus(p, q, m)
    BY <1>6, <1>7, <2>1, LeavesTwice, LeavesFocusTwice
  <2>3. ASSUME NoBack(p, m), callback = "reveal"
        PROVE  RevealsPopUp(p, q, m) /\ OneBack(q, m, <<>>)
    <3>1. q = Reveal(d, m)
      BY <1>4, <1>10, <2>3 DEF AfterFading
    <3>2. RevealsPopUp(d, q, m) /\ KeepsBack(d, q, m)
      BY <1>7, <3>1, RevealDoes
    <3>4. RevealsPopUp(p, q, m)
      BY <1>5, <1>8, <3>2 DEF RevealsPopUp, KeepsPopUp
    <3> QED
      BY <1>2, <1>5, <1>6, <1>10, <2>3, <3>2, <3>4 DEF KeepsBack
  <2> QED
    BY <1>10, <2>2, <2>3
<1> QED
  BY <1>9, <1>10

LEMMA BackdropHidden ==
    ASSUME NEW p, PageOK(p), fades \in BOOLEAN, NEW m \in Modals, NEW callback \in {"reveal", "remove"},
           ~p.modals[m].isShown, NEW q, q = Backdrop(p, m, callback)
    PROVE  /\ LeavesOthers(p, q, m) /\ LeavesFocus(p, q, m)
           /\ OneBack(p, m, <<>>) /\ callback = "remove" =>
                /\ KeepsPopUp(p, q, m) /\ q.focusins = p.focusins
                /\ IF fades THEN OneBack(q, m, <<"remove">>) ELSE NoBack(q, m)
<1>1. PICK old : old = p.modals[m].backdrop
  OBVIOUS
<1>2. CASE old # NoBackdrop /\ fades
  <2>1. q = [p EXCEPT !.backs[old].ends = Append(@, callback)]
    BY <1>1, <1>2 DEF Backdrop
  <2>2. old \in DOMAIN p.backs /\ p.backs[old].owner = m /\ p.backs[old] \in Backs
    BY <1>1, <1>2 DEF PageOK
  <2>3. PICK ends : ends = Append(p.backs[old].ends, callback)
    BY Zenon
  <2>9. ends \in Seq({"reveal", "remove"})
    <3>1. p.backs[old].ends \in Seq({"reveal", "remove"})
      BY <2>2 DEF Backs
    <3> QED
      BY <2>3, <3>1
  <2>4. q = [p EXCEPT !.backs = [p.backs EXCEPT ![old] = [p.backs[old] EXCEPT !.ends = ends]]]
    BY <2>1, <2>2, <2>3 DEF PageOK
  <2>5. /\ Page(q) /\ q.modals = p.modals /\ q.focusins = p.focusins
        /\ q.backs = [p.backs EXCEPT ![old] = [p.backs[old] EXCEPT !.ends = ends]]
    BY <2>4 DEF PageOK, Page
  <2>6. LeavesOthers(p, q, m) /\ GetsEnds(p, q, m, ends)
    <3>1. SetsEnds(p, q, old, ends)
      BY <2>5 DEF SetsEnds
    <3> QED
      BY <2>2, <2>9, <3>1, BackEndsSet
  <2>7. LeavesFocus(p, q, m) /\ KeepsPopUp(p, q, m)
    BY <2>5 DEF LeavesFocus, KeepsPopUp, PageOK, PopUps
  <2>8. OneBack(p, m, <<>>) /\ callback = "remove" => ends = <<"remove">>
    <3> SUFFICES ASSUME OneBack(p, m, <<>>), callback = "remove"
                 PROVE  ends = <<"remove">>
      OBVIOUS
    <3>1. p.backs[old].ends = <<>>
      BY <1>1 DEF OneBack
    <3> QED
      BY <2>3, <3>1
  <2> QED
    BY <1>2, <2>5, <2>6, <2>7, <2>8 DEF GetsEnds
<1>3. CASE ~(old # NoBackdrop /\ fades)
  <2>1. q = AfterFading(p, m, callback)
    BY <1>1, <1>3 DEF Backdrop
  <2>2. LeavesOthers(p, q, m) /\ LeavesFocus(p, q, m)
    BY <2>1, AfterFadingDoes
  <2>3. ASSUME OneBack(p, m, <<>>), callback = "remove"
        PROVE  ~fades /\ KeepsPopUp(p, q, m) /\ q.focusins = p.focusins /\ NoBack(q, m)
    <3>1. old # NoBackdrop
      BY <1>1, <2>3 DEF OneBack, PageOK, Ids, NoBackdrop
    <3>2. q = RemoveBackdrop(p, m)
      BY <2>1, <2>3 DEF AfterFading
    <3> QED
      BY <1>3, <2>3, <3>1, <3>2, RemoveDoes DEF LosesBack
  <2> QED
    BY <2>2, <2>3
<1> QED
  BY <1>2, <1>3

LEMMA HideModalDoes ==
    ASSUME NEW p, PageOK(p), fades \in BOOLEAN, NEW m \in Modals, NEW q, q = HideModal(p, m)
    PROVE  /\ LeavesOthers(p, q, m) /\ LeavesFocus(p, q, m)
           /\ ~p.modals[m].isShown /\ OneBack(p, m, <<>>) =>
                /\ HidesPopUp(p, q, m) /\ q.focusins = p.focusins
                /\ IF fades THEN OneBack(q, m, <<"remove">>) ELSE NoBack(q, m)
<1>1. p.modals[m] \in PopUps /\ IsFiniteSet(p.modals[m].timeouts)
  BY DEF PageOK
<1>2. PICK modal : modal = [p.modals[m] EXCEPT !.displayed = FALSE]
  OBVIOUS
<1>3. /\ modal \in PopUps /\ modal.isShown = p.modals[m].isShown /\ ~modal.displayed
      /\ modal.timeouts = p.modals[m].timeouts /\ modal.ends = p.modals[m].ends
      /\ modal.keyups = p.modals[m].keyups /\ modal.backdrop = p.modals[m].backdrop
  BY <1>1, <1>2 DEF PopUps
<1>4. PICK h : h = [p EXCEPT !.modals[m].displayed = FALSE]
  OBVIOUS
<1>5. Page(h) /\ h.modals = [p.modals EXCEPT ![m] = modal] /\ h.backs = p.backs /\ h.focusins = p.focusins
  BY <1>2, <1>4 DEF PageOK, Page
<1>6. SetsPopUp(p, h, m, modal)
  BY <1>1, <1>3, <1>5 DEF SetsPopUp, PageOK
<1>7. LeavesOthers(p, h, m) /\ h.modals[m] = modal /\ KeepsBack(p, h, m) /\ LeavesFocus(p, h, m)
  <2>1. LeavesOthers(p, h, m) /\ h.modals[m] = modal /\ KeepsBack(p, h, m)
    BY <1>6, ModalSet
  <2>2. LeavesFocus(p, h, m)
    BY <1>5 DEF LeavesFocus
  <2> QED
    BY <2>1, <2>2
<1>8. PageOK(h) /\ q = Backdrop(h, m, "remove") /\ "remove" \in {"reveal", "remove"}
  BY <1>4, <1>7 DEF HideModal, LeavesOthers
<1>9. LeavesOthers(h, q, m) /\ LeavesFocus(h, q, m)
  <2>1. CASE h.modals[m].isShown
    BY <1>8, <2>1, BackdropShown
  <2>2. CASE ~h.modals[m].isShown
    BY <1>8, <2>2, BackdropHidden
  <2> QED
    BY <2>1, <2>2
<1>10. LeavesOthers(p, q, m) /\ LeavesFocus(p, q, m)
  BY <1>7, <1>9, LeavesTwice, LeavesFocusTwice
<1>11. ASSUME ~p.modals[m].isShown, OneBack(p, m, <<>>)
       PROVE  /\ HidesPopUp(p, q, m) /\ q.focusins = p.focusins
              /\ IF fades THEN OneBack(q, m, <<"remove">>) ELSE NoBack(q, m)
  <2>1. ~h.modals[m].isShown /\ OneBack(h, m, <<>>)
    BY <1>3, <1>7, <1>11 DEF KeepsBack
  <2>2. /\ KeepsPopUp(h, q, m) /\ q.focusins = h.focusins
        /\ IF fades THEN OneBack(q, m, <<"remove">>) ELSE NoBack(q, m)
    BY <1>8, <2>1, BackdropHidden
  <2>3. HidesPopUp(p, q, m)
    BY <1>3, <1>7, <2>2 DEF KeepsPopUp, HidesPopUp
  <2> QED
    BY <1>5, <2>2, <2>3
<1> QED
  BY <1>10, <1>11

\* Hide begins with the pop-up itself, the focus and the escape key.
HiddenPage(p, m) ==
    Escape([p EXCEPT !.modals[m].isShown = FALSE, !.modals[m].in = FALSE, !.focusins = [other \in Modals |-> 0]], m)

LEMMA ShownFirst ==
    ASSUME NEW p, PageOK(p), NEW m \in Modals, NEW q, q = Escape([p EXCEPT !.modals[m].isShown = TRUE], m)
    PROVE  /\ LeavesOthers(p, q, m) /\ q.focusins = p.focusins /\ q.modals[m].isShown
           /\ q.modals[m].displayed = p.modals[m].displayed /\ q.modals[m].timeouts = p.modals[m].timeouts
           /\ q.modals[m].ends = p.modals[m].ends /\ q.modals[m].keyups = p.modals[m].keyups + 1
           /\ NoBack(p, m) => NoBack(q, m)
<1>1. p.modals[m] \in PopUps /\ IsFiniteSet(p.modals[m].timeouts)
  BY DEF PageOK
<1>2. PICK h : h = [p EXCEPT !.modals[m].isShown = TRUE]
  OBVIOUS
<1>3. PICK visible : visible = [p.modals[m] EXCEPT !.isShown = TRUE]
  OBVIOUS
<1>4. /\ visible \in PopUps /\ visible.isShown /\ visible.displayed = p.modals[m].displayed
      /\ visible.timeouts = p.modals[m].timeouts /\ visible.ends = p.modals[m].ends
      /\ visible.keyups = p.modals[m].keyups /\ visible.backdrop = p.modals[m].backdrop
  BY <1>1, <1>3 DEF PopUps
<1>5. /\ h = [modals |-> [p.modals EXCEPT ![m] = visible], backs |-> p.backs, focusins |-> p.focusins]
      /\ h.modals[m] = visible
  BY <1>2, <1>3 DEF PageOK
<1>6. PICK modal : modal = [visible EXCEPT !.keyups = visible.keyups + 1]
  OBVIOUS
<1>10. /\ modal \in PopUps /\ modal.isShown /\ modal.displayed = p.modals[m].displayed
       /\ modal.timeouts = p.modals[m].timeouts /\ modal.ends = p.modals[m].ends
       /\ modal.keyups = p.modals[m].keyups + 1 /\ modal.backdrop = p.modals[m].backdrop
  <2>1. PICK oneMore \in Nat : oneMore = visible.keyups + 1
    BY <1>4 DEF PopUps
  <2>2. modal = [visible EXCEPT !.keyups = oneMore]
    BY <1>6, <2>1
  <2> QED
    BY <1>4, <2>1, <2>2 DEF PopUps
<1>7. Page(q) /\ q.modals = [p.modals EXCEPT ![m] = modal] /\ q.backs = p.backs /\ q.focusins = p.focusins
  <2>1. q = Escape(h, m)
    BY <1>2
  <2>5. h.modals[m].isShown /\ h.modals[m].keyups = visible.keyups
    BY <1>4, <1>5
  <2>6. q = [h EXCEPT !.modals[m].keyups = @ + 1]
    BY <2>1, <2>5 DEF Escape
  <2>2. q = [h EXCEPT !.modals[m].keyups = visible.keyups + 1]
    BY <2>5, <2>6
  <2>3. q = [h EXCEPT !.modals = [h.modals EXCEPT ![m] = modal]]
    BY <1>5, <1>6, <2>2
  <2>4. [h.modals EXCEPT ![m] = modal] = [p.modals EXCEPT ![m] = modal]
    BY <1>5 DEF PageOK
  <2> QED
    BY <1>5, <2>3, <2>4 DEF Page
<1>8. SetsPopUp(p, q, m, modal)
  BY <1>1, <1>10, <1>7 DEF SetsPopUp, PageOK
<1>9. LeavesOthers(p, q, m) /\ q.modals[m] = modal /\ (NoBack(p, m) => NoBack(q, m))
  BY <1>8, ModalSet
<1> QED
  BY <1>10, <1>7, <1>9

LEMMA HiddenFirst ==
    ASSUME NEW p, PageOK(p), NEW m \in Modals,
           NEW none, none = [other \in Modals |-> 0],
           NEW q, q = HiddenPage(p, m)
    PROVE  /\ LeavesOthers(p, q, m) /\ q.focusins = none /\ ~q.modals[m].isShown
           /\ q.modals[m].displayed = p.modals[m].displayed /\ q.modals[m].timeouts = p.modals[m].timeouts
           /\ q.modals[m].ends = p.modals[m].ends /\ q.modals[m].keyups = 0
           /\ KeepsBack(p, q, m)
<1>1. p.modals[m] \in PopUps /\ IsFiniteSet(p.modals[m].timeouts)
  BY DEF PageOK
<1>2. PICK hidden : hidden = [p.modals[m] EXCEPT !.isShown = FALSE, !.in = FALSE]
  OBVIOUS
<1>3. PICK modal : modal = [hidden EXCEPT !.keyups = 0]
  OBVIOUS
<1>12. /\ hidden \in PopUps /\ ~hidden.isShown /\ hidden.displayed = p.modals[m].displayed
       /\ hidden.timeouts = p.modals[m].timeouts /\ hidden.ends = p.modals[m].ends
       /\ hidden.backdrop = p.modals[m].backdrop
  BY <1>1, <1>2 DEF PopUps
<1>13. /\ modal \in PopUps /\ ~modal.isShown /\ modal.displayed = p.modals[m].displayed
       /\ modal.timeouts = p.modals[m].timeouts /\ modal.ends = p.modals[m].ends
       /\ modal.keyups = 0 /\ modal.backdrop = p.modals[m].backdrop
  BY <1>3, <1>12 DEF PopUps
<1>5. PICK h : h = [p EXCEPT !.modals[m].isShown = FALSE, !.modals[m].in = FALSE, !.focusins = none]
  OBVIOUS
<1>6. /\ h = [modals |-> [p.modals EXCEPT ![m] = hidden], backs |-> p.backs, focusins |-> none]
      /\ h.modals[m] = hidden
  BY <1>1, <1>2, <1>5 DEF PageOK
<1>8. Page(q) /\ q.modals = [p.modals EXCEPT ![m] = modal] /\ q.backs = p.backs /\ q.focusins = none
  <2>1. q = Escape(h, m)
    BY <1>5 DEF HiddenPage
  <2>5. ~h.modals[m].isShown
    BY <1>6, <1>12
  <2>2. q = [h EXCEPT !.modals[m].keyups = 0]
    BY <2>1, <2>5 DEF Escape
  <2>3. q = [h EXCEPT !.modals = [h.modals EXCEPT ![m] = modal]]
    BY <1>3, <1>6, <2>2
  <2>4. [h.modals EXCEPT ![m] = modal] = [p.modals EXCEPT ![m] = modal]
    BY <1>6 DEF PageOK
  <2> QED
    BY <1>6, <2>3, <2>4 DEF Page
<1>9. none \in [Modals -> Nat]
  OBVIOUS
<1>10. SetsPopUp(p, q, m, modal)
  BY <1>1, <1>13, <1>8, <1>9 DEF SetsPopUp
<1>11. LeavesOthers(p, q, m) /\ q.modals[m] = modal /\ KeepsBack(p, q, m)
  BY <1>10, ModalSet
<1> QED
  BY <1>13, <1>8, <1>11

LEMMA HideWithTransitionDoes ==
    ASSUME NEW p, PageOK(p), NEW m \in Modals, NEW q, q = HideWithTransition(p, m)
    PROVE  /\ LeavesOthers(p, q, m) /\ q.focusins = p.focusins /\ q.modals[m].isShown = p.modals[m].isShown
           /\ q.modals[m].displayed = p.modals[m].displayed /\ q.modals[m].keyups = p.modals[m].keyups
           /\ KeepsBack(p, q, m)
           /\ \E id \in Ids : /\ q.modals[m].timeouts = p.modals[m].timeouts \cup {id}
                              /\ q.modals[m].ends = Append(p.modals[m].ends, id)
<1>1. p.modals[m] \in PopUps /\ IsFiniteSet(p.modals[m].timeouts) /\ p.modals[m].ends \in Seq(Nat)
  BY DEF PageOK, PopUps
<1>2. PICK id : id = FreshId(p.modals[m].timeouts \cup ToSet(p.modals[m].ends))
  OBVIOUS
<1>3. id \in Ids
  <2>1. ToSet(p.modals[m].ends) = {p.modals[m].ends[i] : i \in DOMAIN p.modals[m].ends}
    BY DEF ToSet
  <2>2. IsFiniteSet(DOMAIN p.modals[m].ends)
    <3>1. DOMAIN p.modals[m].ends = 1..Len(p.modals[m].ends) /\ Len(p.modals[m].ends) \in Nat
      BY <1>1
    <3> QED
      BY <3>1, FS_Interval
  <2>3. IsFiniteSet(ToSet(p.modals[m].ends))
    <3>1. p.modals[m].ends \in Surjection(DOMAIN p.modals[m].ends, ToSet(p.modals[m].ends))
      BY <1>1, <2>1 DEF Surjection
    <3> QED
      BY <2>2, <3>1, FS_Surjection
  <2> QED
    BY <1>1, <1>2, <2>3, FS_Union, FreshIsFresh
<1>4. PICK ends : ends = Append(p.modals[m].ends, id)
  OBVIOUS
<1>5. ends \in Seq(Nat) /\ id \in Nat
  BY <1>1, <1>3, <1>4 DEF Ids
<1>6. PICK modal : modal = [p.modals[m] EXCEPT !.timeouts = @ \cup {id}, !.ends = Append(@, id)]
  OBVIOUS
<1>7. /\ modal \in PopUps /\ modal.isShown = p.modals[m].isShown /\ modal.displayed = p.modals[m].displayed
      /\ modal.timeouts = p.modals[m].timeouts \cup {id} /\ modal.ends = ends
      /\ modal.keyups = p.modals[m].keyups /\ modal.backdrop = p.modals[m].backdrop
  <2>1. modal = [p.modals[m] EXCEPT !.timeouts = p.modals[m].timeouts \cup {id}, !.ends = ends]
    BY <1>1, <1>4, <1>6 DEF PopUps
  <2> QED
    BY <1>1, <1>3, <1>5, <2>1 DEF PopUps
<1>8. IsFiniteSet(modal.timeouts)
  BY <1>1, <1>7, FS_AddElement
<1>9. q = [p EXCEPT !.modals[m] = modal]
  BY <1>2, <1>6, Zenon DEF HideWithTransition
<1>10. Page(q) /\ q.modals = [p.modals EXCEPT ![m] = modal] /\ q.backs = p.backs /\ q.focusins = p.focusins
  BY <1>9 DEF PageOK, Page
<1>11. SetsPopUp(p, q, m, modal)
  BY <1>7, <1>8, <1>10 DEF SetsPopUp, PageOK
<1>12. LeavesOthers(p, q, m) /\ q.modals[m] = modal /\ KeepsBack(p, q, m)
  BY <1>11, ModalSet
<1> QED
  BY <1>3, <1>4, <1>7, <1>10, <1>12

\* Whom the handlers that are yet to be called are about.
LEMMA NobodyHandled == ASSUME NEW m PROVE Away(<<>>, m)
BY DEF Away

LEMMA AboutOne ==
    ASSUME NEW h, HandlingOK(h), h # <<>>
    PROVE  /\ Head(h) \in Handlings /\ HandlingOK(Tail(h))
           /\ \A o : o # Head(h).of => Away(h, o) /\ Away(Tail(h), o)
<1>1. h \in Seq(Handlings) /\ Len(h) \in Nat \ {0} /\ DOMAIN h = 1..Len(h) /\ Head(h) = h[1]
  BY DEF HandlingOK
<1>2. /\ Tail(h) \in Seq(Handlings) /\ DOMAIN Tail(h) = 1..(Len(h) - 1)
      /\ \A i \in DOMAIN Tail(h) : Tail(h)[i] = h[i + 1] /\ i + 1 \in DOMAIN h
  BY <1>1
<1>3. h[1] \in Handlings
  BY <1>1
<1>4. \A i \in DOMAIN h : h[i].of = h[1].of
  BY <1>1 DEF HandlingOK
<1>5. \A i \in DOMAIN Tail(h) : Tail(h)[i].of = h[1].of
  BY <1>2, <1>4
<1> QED
  BY <1>1, <1>2, <1>3, <1>4, <1>5 DEF HandlingOK, Away

LEMMA HandlersCalled ==
    ASSUME NEW op \in {"transition", "backdrop"}, NEW m \in Modals, NEW handlers,
           handlers \in Seq(IF op = "transition" THEN Nat ELSE {"reveal", "remove"})
    PROVE  /\ HandlingOK(ToHandle(op, m, handlers))
           /\ \A o : o # m => Away(ToHandle(op, m, handlers), o)
<1>1. PICK h : h = ToHandle(op, m, handlers)
  OBVIOUS
<1>2. h = [i \in DOMAIN handlers |-> [op |-> op, of |-> m, handler |-> handlers[i]]]
  BY <1>1 DEF ToHandle
<1>3. DOMAIN handlers = 1..Len(handlers) /\ Len(handlers) \in Nat
  BY Zenon, LenProperties
<1>4. ASSUME NEW i \in DOMAIN handlers
      PROVE  h[i] \in Handlings /\ h[i].of = m
  <2>1. CASE op = "transition"
    <3>1. handlers[i] \in Nat
      BY <2>1
    <3> QED
      BY <1>2, <2>1, <3>1 DEF Handlings
  <2>2. CASE op = "backdrop"
    <3>1. handlers[i] \in {"reveal", "remove"}
      BY <2>2
    <3> QED
      BY <1>2, <2>2, <3>1 DEF Handlings
  <2> QED
    BY <2>1, <2>2
<1>5. h \in Seq(Handlings)
  BY <1>2, <1>3, <1>4
<1> QED
  BY <1>1, <1>2, <1>4, <1>5 DEF HandlingOK, Away

\* What is done to another pop-up changes nothing.
LEMMA StageKept ==
    ASSUME ModalInv, NEW m \in Modals, LeavesOthers(page, page', m), UNCHANGED fades,
           NEW o \in Modals \ {m}, Away(handling, o), Away(handling', o), unguarded \subseteq unguarded',
           \/ page'.focusins[o] = page.focusins[o]
           \/ page'.focusins[o] = 0 /\ (page.focusins[o] > 0 => o \in unguarded'),
           Stage(page, handling, o)
    PROVE  Stage(page, handling, o)'
<1>1. page'.modals[o] = page.modals[o]
  BY DEF LeavesOthers
<1>2. \A ends : OneBack(page, o, ends) => OneBack(page, o, ends)'
  BY <1>1 DEF LeavesOthers, OneBack
<1>3. NoBack(page, o) => NoBack(page, o)'
  BY <1>1 DEF LeavesOthers, NoBack
<1>4. page.focusins[o] \in Nat
  BY DEF ModalInv, PageOK
<1>5. page.focusins[o] = 0 => page'.focusins[o] = 0
  OBVIOUS
<1>6. \A x, y, z : handling # <<Handling(x, o, y)>> /\ handling # <<Handling(x, o, y), Handling(x, o, z)>>
  BY DEF Away, Handling
<1>7. CASE Closed(page, handling, o)
  BY <1>1, <1>3, <1>5, <1>7 DEF Stage, Closed
<1>8. CASE Opening(page, handling, o)
  <2>1. OneBack(page, o, <<"reveal">>)'
    BY <1>2, <1>6, <1>8 DEF Opening
  <2> QED
    BY <1>1, <1>5, <1>8, <2>1 DEF Stage, Opening
<1>9. CASE Opened(page, handling, o)
  <2>1. OneBack(page, o, <<>>)'
    BY <1>2, <1>9 DEF Opened
  <2>2. o \notin unguarded' => page'.focusins[o] = 1
    BY <1>9 DEF Opened
  <2>3. page.modals[o].ends = <<>> \/ (fades /\ page.modals[o].ends = <<Shown>>)
    BY <1>9 DEF Opened
  <2> QED
    BY <1>1, <1>9, <2>1, <2>2, <2>3 DEF Stage, Opened
<1>10. CASE Closing(page, handling, o)
  <2>1. OneBack(page, o, <<>>)'
    BY <1>2, <1>10 DEF Closing
  <2>2. PICK id \in Ids : ClosingBy(page, handling, o, id)
    BY <1>10 DEF Closing
  <2>3. ClosingBy(page, handling, o, id)'
    BY <1>1, <1>6, <2>2 DEF ClosingBy
  <2> QED
    BY <1>1, <1>5, <1>10, <2>1, <2>3 DEF Stage, Closing
<1>11. CASE Fading(page, handling, o)
  <2>1. OneBack(page, o, <<"remove">>)'
    BY <1>2, <1>6, <1>11 DEF Fading
  <2> QED
    BY <1>1, <1>5, <1>11, <2>1 DEF Stage, Fading
<1> QED
  BY <1>7, <1>8, <1>9, <1>10, <1>11 DEF Stage

LEMMA OthersKept ==
    ASSUME ModalInv, NEW m \in Modals, LeavesOthers(page, page', m), UNCHANGED fades, HandlingOK(handling'),
           \A o \in Modals \ {m} : Away(handling, o) /\ Away(handling', o),
           overlapped \subseteq overlapped', hasty \subseteq hasty', unguarded \subseteq unguarded',
           \A o \in Modals \ {m} :
                \/ page'.focusins[o] = page.focusins[o]
                \/ page'.focusins[o] = 0 /\ (page.focusins[o] > 0 => o \in unguarded'),
           m \notin overlapped' \cup hasty' => Stage(page, handling, m)'
    PROVE  ModalInv'
<1>1. ASSUME NEW o \in Modals \ {m}, o \notin overlapped' \cup hasty'
      PROVE  Stage(page, handling, o)'
  <2>1. Stage(page, handling, o)
    BY <1>1 DEF ModalInv
  <2> QED
    BY <2>1, StageKept
<1>2. PageOK(page') /\ fades' \in BOOLEAN
  BY DEF LeavesOthers, ModalInv
<1> QED
  BY <1>1, <1>2 DEF ModalInv

LEMMA ShowKept == ASSUME ModalInv, NEW m \in Modals, Show(m) PROVE ModalInv'
<1>1. /\ PageOK(page) /\ fades \in BOOLEAN /\ ~page.modals[m].isShown /\ handling = <<>> /\ UNCHANGED <<handling, fades>>
      /\ page' = Backdrop(Escape([page EXCEPT !.modals[m].isShown = TRUE], m), m, "reveal")
      /\ overlapped' = (IF BeingHidden(m) THEN overlapped \cup {m} ELSE overlapped)
      /\ UNCHANGED <<hasty, unguarded>>
  BY DEF Show, ModalCall, ModalInv
<1>2. PICK visible : visible = Escape([page EXCEPT !.modals[m].isShown = TRUE], m)
  OBVIOUS
<1>3. /\ LeavesOthers(page, visible, m) /\ visible.focusins = page.focusins /\ visible.modals[m].isShown
      /\ visible.modals[m].displayed = page.modals[m].displayed /\ visible.modals[m].timeouts = page.modals[m].timeouts
      /\ visible.modals[m].ends = page.modals[m].ends /\ visible.modals[m].keyups = page.modals[m].keyups + 1
      /\ NoBack(page, m) => NoBack(visible, m)
  BY <1>1, <1>2, ShownFirst
<1>4. /\ LeavesOthers(visible, page', m) /\ LeavesFocus(visible, page', m)
      /\ NoBack(visible, m) =>
            IF fades
            THEN KeepsPopUp(visible, page', m) /\ page'.focusins = visible.focusins /\ OneBack(page', m, <<"reveal">>)
            ELSE RevealsPopUp(visible, page', m) /\ OneBack(page', m, <<>>)
  <2>1. PageOK(visible) /\ "reveal" \in {"reveal", "remove"} /\ page' = Backdrop(visible, m, "reveal")
    BY <1>1, <1>2, <1>3 DEF LeavesOthers
  <2> QED
    BY <1>1, <1>3, <2>1, BackdropShown
<1>5. LeavesOthers(page, page', m)
  BY <1>3, <1>4, LeavesTwice
<1>6. \A o \in Modals : Away(handling, o) /\ Away(handling', o)
  BY <1>1, NobodyHandled
<1>7. \A o \in Modals \ {m} : page'.focusins[o] = page.focusins[o]
  BY <1>3, <1>4 DEF LeavesFocus
<1>8. ASSUME m \notin overlapped' \cup hasty'
      PROVE  Stage(page, handling, m)'
  <2>1. m \notin overlapped \cup hasty /\ ~BeingHidden(m)
    BY <1>1, <1>8
  <2>2. Stage(page, handling, m)
    BY <2>1 DEF ModalInv
  <2>3. page.modals[m].timeouts = {} /\ ~OneBack(page, m, <<"remove">>)
    <3>1. ASSUME OneBack(page, m, <<"remove">>)
          PROVE  FALSE
      <4>1. PICK b : b = page.modals[m].backdrop
        OBVIOUS
      <4>2. b \in Of(m) /\ page.backs[b].ends = <<"remove">>
        BY <3>1, <4>1 DEF OneBack, Of
      <4>3. "remove" \in ToSet(page.backs[b].ends)
        BY <4>2 DEF ToSet
      <4> QED
        BY <2>1, <4>2, <4>3 DEF BeingHidden
    <3> QED
      BY <2>1, <3>1 DEF BeingHidden
  <2>4. Closed(page, handling, m)
    <3>1. ~Opening(page, handling, m) /\ ~Opened(page, handling, m)
      BY <1>1 DEF Opening, Opened
    <3>2. ~Closing(page, handling, m)
      BY <2>3 DEF Closing, ClosingBy
    <3>3. ~Fading(page, handling, m)
      BY <1>1, <2>3 DEF Fading
    <3> QED
      BY <2>2, <3>1, <3>2, <3>3 DEF Stage
  <2>5. NoBack(visible, m) /\ visible.modals[m].keyups = 1 /\ visible.focusins[m] = 0 /\ visible.modals[m].ends = <<>>
        /\ ~visible.modals[m].displayed /\ visible.modals[m].timeouts = {}
    BY <1>3, <2>4 DEF Closed
  <2>6. CASE fades
    <3>1. OneBack(page, m, <<"reveal">>)'
      BY <1>4, <2>5, <2>6 DEF OneBack
    <3>2. Opening(page, handling, m)'
      BY <1>1, <1>3, <1>4, <1>6, <2>5, <2>6, <3>1 DEF Opening, KeepsPopUp
    <3> QED
      BY <3>2 DEF Stage
  <2>7. CASE ~fades
    <3>1. OneBack(page, m, <<>>)'
      BY <1>4, <2>5, <2>7 DEF OneBack
    <3>2. Opened(page, handling, m)'
      <4>1. RevealsPopUp(visible, page', m)
        BY <1>4, <2>5, <2>7
      <4>2. page'.focusins[m] = 1 /\ page'.modals[m].keyups = 1
        BY <2>5, <4>1 DEF RevealsPopUp
      <4>3. page'.modals[m].isShown /\ page'.modals[m].displayed /\ page'.modals[m].timeouts = {}
            /\ page'.modals[m].ends = <<>>
        BY <1>3, <2>5, <2>7, <4>1 DEF RevealsPopUp
      <4> QED
        BY <1>6, <3>1, <4>2, <4>3 DEF Opened
    <3> QED
      BY <3>2 DEF Stage
  <2> QED
    BY <2>6, <2>7
<1>9. HandlingOK(handling')
  BY <1>1 DEF ModalInv
<1>10. overlapped \subseteq overlapped' /\ hasty \subseteq hasty' /\ unguarded \subseteq unguarded' /\ UNCHANGED fades
  BY <1>1
<1> QED
  BY <1>5, <1>6, <1>7, <1>8, <1>9, <1>10, OthersKept

LEMMA HideKept == ASSUME ModalInv, NEW m \in Modals, Hide(m) PROVE ModalInv'
<1>12. PICK none : none = [other \in Modals |-> 0]
  OBVIOUS
<1>1. PICK hidden : hidden = HiddenPage(page, m)
  OBVIOUS
<1>2. /\ PageOK(page) /\ fades \in BOOLEAN /\ page.modals[m].isShown /\ handling = <<>> /\ UNCHANGED <<handling, fades>>
      /\ page' = (IF fades THEN HideWithTransition(hidden, m) ELSE HideModal(hidden, m))
      /\ hasty' = (IF \E b \in Of(m) : "reveal" \in ToSet(page.backs[b].ends) THEN hasty \cup {m} ELSE hasty)
      /\ unguarded' = unguarded \cup {other \in Modals \ {m} : page.focusins[other] > 0}
      /\ UNCHANGED overlapped
  BY <1>1 DEF Hide, ModalCall, ModalInv, HiddenPage
<1>3. /\ LeavesOthers(page, hidden, m) /\ hidden.focusins = none /\ ~hidden.modals[m].isShown
      /\ hidden.modals[m].displayed = page.modals[m].displayed /\ hidden.modals[m].timeouts = page.modals[m].timeouts
      /\ hidden.modals[m].ends = page.modals[m].ends /\ hidden.modals[m].keyups = 0
      /\ KeepsBack(page, hidden, m)
  BY <1>1, <1>2, <1>12, HiddenFirst
<1>4. PageOK(hidden) /\ \A o \in Modals : hidden.focusins[o] = 0
  BY <1>3, <1>12 DEF LeavesOthers
<1>5. LeavesOthers(hidden, page', m) /\ LeavesFocus(hidden, page', m)
  <2>1. CASE fades
    BY <1>2, <1>4, <2>1, HideWithTransitionDoes DEF LeavesFocus
  <2>2. CASE ~fades
    BY <1>2, <1>4, <2>2, HideModalDoes
  <2> QED
    BY <2>1, <2>2
<1>6. LeavesOthers(page, page', m)
  BY <1>3, <1>5, LeavesTwice
<1>7. \A o \in Modals : Away(handling, o) /\ Away(handling', o)
  BY <1>2, NobodyHandled
<1>8. \A o \in Modals \ {m} : page'.focusins[o] = 0 /\ (page.focusins[o] > 0 => o \in unguarded')
  BY <1>2, <1>4, <1>5 DEF LeavesFocus
<1>9. ASSUME m \notin overlapped' \cup hasty'
      PROVE  Stage(page, handling, m)'
  <2>1. m \notin overlapped \cup hasty /\ ~\E b \in Of(m) : "reveal" \in ToSet(page.backs[b].ends)
    BY <1>2, <1>9
  <2>2. Stage(page, handling, m)
    BY <2>1 DEF ModalInv
  <2>3. ~OneBack(page, m, <<"reveal">>)
    <3> SUFFICES ASSUME OneBack(page, m, <<"reveal">>)
                 PROVE  FALSE
      OBVIOUS
    <3>1. PICK b : b = page.modals[m].backdrop
      OBVIOUS
    <3>2. b \in Of(m) /\ page.backs[b].ends = <<"reveal">>
      BY <3>1 DEF OneBack, Of
    <3>3. "reveal" \in ToSet(page.backs[b].ends)
      BY <3>2 DEF ToSet
    <3> QED
      BY <2>1, <3>2, <3>3
  <2>4. Opened(page, handling, m)
    <3>1. ~Closed(page, handling, m) /\ ~Closing(page, handling, m) /\ ~Fading(page, handling, m)
      BY <1>2 DEF Closed, Closing, Fading
    <3>2. ~Opening(page, handling, m)
      BY <1>2, <2>3 DEF Opening
    <3> QED
      BY <2>2, <3>1, <3>2 DEF Stage
  <2>5. OneBack(hidden, m, <<>>) /\ hidden.modals[m].displayed /\ hidden.modals[m].timeouts = {}
        /\ (hidden.modals[m].ends = <<>> \/ (fades /\ hidden.modals[m].ends = <<Shown>>))
    BY <1>2, <1>3, <2>4 DEF Opened, KeepsBack
  <2>6. CASE fades
    <3>1. /\ page'.focusins = hidden.focusins /\ page'.modals[m].isShown = hidden.modals[m].isShown
          /\ page'.modals[m].displayed = hidden.modals[m].displayed /\ page'.modals[m].keyups = hidden.modals[m].keyups
          /\ KeepsBack(hidden, page', m)
          /\ \E id \in Ids : /\ page'.modals[m].timeouts = hidden.modals[m].timeouts \cup {id}
                             /\ page'.modals[m].ends = Append(hidden.modals[m].ends, id)
      BY <1>2, <1>4, <2>6, HideWithTransitionDoes
    <3>2. PICK id \in Ids : /\ page'.modals[m].timeouts = hidden.modals[m].timeouts \cup {id}
                            /\ page'.modals[m].ends = Append(hidden.modals[m].ends, id)
      BY <3>1
    <3>3. OneBack(page, m, <<>>)'
      <4>1. OneBack(page', m, <<>>)
        BY <2>5, <3>1 DEF KeepsBack
      <4> QED
        BY <4>1 DEF OneBack
    <3>4. page'.modals[m].timeouts = {id} /\ page'.modals[m].ends \in {<<id>>, <<Shown, id>>}
      <4>1. hidden.modals[m].ends = <<>> => page'.modals[m].ends = <<id>>
        BY <3>2
      <4>2. Append(<<Shown>>, id) = <<Shown, id>>
        <5>1. Append(<<Shown>>, id) \in Seq(Nat) /\ <<Shown, id>> \in Seq(Nat)
          BY DEF Shown, Ids
        <5>2. /\ Len(Append(<<Shown>>, id)) = 2 /\ Append(<<Shown>>, id)[1] = Shown /\ Append(<<Shown>>, id)[2] = id
              /\ Len(<<Shown, id>>) = 2 /\ <<Shown, id>>[1] = Shown /\ <<Shown, id>>[2] = id
          BY DEF Shown, Ids
        <5>3. \A i \in 1..Len(Append(<<Shown>>, id)) : Append(<<Shown>>, id)[i] = <<Shown, id>>[i]
          <6>1. \A i \in 1..2 : i = 1 \/ i = 2
            OBVIOUS
          <6> QED
            BY <5>2, <6>1
        <5> QED
          BY <5>1, <5>2, <5>3, SeqEqual
      <4>3. hidden.modals[m].ends = <<Shown>> => page'.modals[m].ends = <<Shown, id>>
        BY <3>2, <4>2, Zenon
      <4> QED
        BY <2>5, <3>2, <4>1, <4>3
    <3>5. ClosingBy(page, handling, m, id)'
      BY <1>7, <3>4 DEF ClosingBy
    <3>6. Closing(page, handling, m)'
      BY <1>2, <1>3, <1>4, <2>5, <2>6, <3>1, <3>3, <3>5 DEF Closing
    <3> QED
      BY <3>6 DEF Stage
  <2>7. CASE ~fades
    <3>1. HidesPopUp(hidden, page', m) /\ page'.focusins = hidden.focusins /\ NoBack(page', m)
      BY <1>2, <1>3, <1>4, <2>5, <2>7, HideModalDoes
    <3>2. NoBack(page, m)'
      BY <3>1 DEF NoBack
    <3>3. Closed(page, handling, m)'
      BY <1>3, <1>4, <1>7, <2>5, <2>7, <3>1, <3>2 DEF Closed, HidesPopUp
    <3> QED
      BY <3>3 DEF Stage
  <2> QED
    BY <2>6, <2>7
<1>10. HandlingOK(handling')
  BY <1>2 DEF ModalInv
<1>11. overlapped \subseteq overlapped' /\ hasty \subseteq hasty' /\ unguarded \subseteq unguarded' /\ UNCHANGED fades
  BY <1>2
<1> QED
  BY <1>6, <1>7, <1>8, <1>9, <1>10, <1>11, OthersKept

\* The pop-up whose handlers of the end of the transition, or whose timeout, are used up
ClearEnds(p, m) == [p EXCEPT !.modals[m].ends = <<>>]
ClearTimeout(p, m, id) == [p EXCEPT !.modals[m].timeouts = @ \ {id}]

LEMMA EndsCleared ==
    ASSUME NEW p, PageOK(p), NEW m \in Modals, NEW q, q = ClearEnds(p, m)
    PROVE  /\ LeavesOthers(p, q, m) /\ q.focusins = p.focusins /\ q.modals[m].isShown = p.modals[m].isShown
           /\ q.modals[m].displayed = p.modals[m].displayed /\ q.modals[m].keyups = p.modals[m].keyups
           /\ q.modals[m].timeouts = p.modals[m].timeouts /\ q.modals[m].ends = <<>>
           /\ KeepsBack(p, q, m)
<1>1. p.modals[m] \in PopUps /\ IsFiniteSet(p.modals[m].timeouts)
  BY DEF PageOK
<1>2. PICK modal : modal = [p.modals[m] EXCEPT !.ends = <<>>]
  OBVIOUS
<1>3. /\ modal \in PopUps /\ modal.isShown = p.modals[m].isShown /\ modal.displayed = p.modals[m].displayed
      /\ modal.timeouts = p.modals[m].timeouts /\ modal.ends = <<>>
      /\ modal.keyups = p.modals[m].keyups /\ modal.backdrop = p.modals[m].backdrop
  <2>1. <<>> \in Seq(Nat)
    OBVIOUS
  <2> QED
    BY <1>1, <1>2, <2>1 DEF PopUps
<1>4. Page(q) /\ q.modals = [p.modals EXCEPT ![m] = modal] /\ q.backs = p.backs /\ q.focusins = p.focusins
  BY <1>2 DEF PageOK, Page, ClearEnds
<1>5. SetsPopUp(p, q, m, modal)
  BY <1>1, <1>3, <1>4 DEF SetsPopUp, PageOK
<1>6. LeavesOthers(p, q, m) /\ q.modals[m] = modal /\ KeepsBack(p, q, m)
  BY <1>5, ModalSet
<1> QED
  BY <1>3, <1>4, <1>6

LEMMA TimeoutCleared ==
    ASSUME NEW p, PageOK(p), NEW m \in Modals, NEW id, NEW q, q = ClearTimeout(p, m, id)
    PROVE  /\ LeavesOthers(p, q, m) /\ q.focusins = p.focusins /\ q.modals[m].isShown = p.modals[m].isShown
           /\ q.modals[m].displayed = p.modals[m].displayed /\ q.modals[m].keyups = p.modals[m].keyups
           /\ q.modals[m].timeouts = p.modals[m].timeouts \ {id} /\ q.modals[m].ends = p.modals[m].ends
           /\ KeepsBack(p, q, m)
<1>1. p.modals[m] \in PopUps /\ IsFiniteSet(p.modals[m].timeouts)
  BY DEF PageOK
<1>2. PICK modal : modal = [p.modals[m] EXCEPT !.timeouts = p.modals[m].timeouts \ {id}]
  OBVIOUS
<1>3. /\ modal \in PopUps /\ modal.isShown = p.modals[m].isShown /\ modal.displayed = p.modals[m].displayed
      /\ modal.timeouts = p.modals[m].timeouts \ {id} /\ modal.ends = p.modals[m].ends
      /\ modal.keyups = p.modals[m].keyups /\ modal.backdrop = p.modals[m].backdrop
  BY <1>1, <1>2 DEF PopUps
<1>4. Page(q) /\ q.modals = [p.modals EXCEPT ![m] = modal] /\ q.backs = p.backs /\ q.focusins = p.focusins
  BY <1>2 DEF PageOK, Page, ClearTimeout
<1>7. IsFiniteSet(modal.timeouts)
  BY <1>1, <1>3, FS_Subset
<1>5. SetsPopUp(p, q, m, modal)
  BY <1>1, <1>3, <1>4, <1>7 DEF SetsPopUp, PageOK
<1>6. LeavesOthers(p, q, m) /\ q.modals[m] = modal /\ KeepsBack(p, q, m)
  BY <1>5, ModalSet
<1> QED
  BY <1>3, <1>4, <1>6

LEMMA TransitionEndsKept == ASSUME ModalInv, NEW m \in Modals, TransitionEnds(m) PROVE ModalInv'
<1>1. /\ PageOK(page) /\ handling = <<>> /\ page.modals[m].displayed /\ page.modals[m].ends # <<>>
      /\ page' = ClearEnds(page, m)
      /\ handling' = ToHandle("transition", m, page.modals[m].ends)
      /\ UNCHANGED <<fades, overlapped, hasty, unguarded>>
  BY DEF TransitionEnds, OnlyPage, ModalInv, ClearEnds
<1>2. /\ LeavesOthers(page, page', m) /\ page'.focusins = page.focusins
      /\ page'.modals[m].isShown = page.modals[m].isShown
      /\ page'.modals[m].displayed = page.modals[m].displayed /\ page'.modals[m].keyups = page.modals[m].keyups
      /\ page'.modals[m].timeouts = page.modals[m].timeouts /\ page'.modals[m].ends = <<>>
      /\ KeepsBack(page, page', m)
  <2>1. PageOK(page) /\ page' = ClearEnds(page, m)
    BY <1>1
  <2> QED
    BY <2>1, EndsCleared
<1>3. page.modals[m].ends \in Seq(Nat)
  BY <1>1 DEF PageOK, PopUps
<1>4. HandlingOK(handling') /\ \A o \in Modals \ {m} : Away(handling, o) /\ Away(handling', o)
  BY <1>1, <1>3, HandlersCalled, NobodyHandled
<1>5. \A x : ToHandle("transition", m, <<x>>) = <<Handling("transition", m, x)>>
  BY DEF ToHandle, Handling
<1>6. \A x, y : ToHandle("transition", m, <<x, y>>) = <<Handling("transition", m, x), Handling("transition", m, y)>>
  BY DEF ToHandle, Handling
<1>7. ASSUME m \notin overlapped' \cup hasty'
      PROVE  Stage(page, handling, m)'
  <2>1. Stage(page, handling, m)
    BY <1>1, <1>7 DEF ModalInv
  <2>2. Opened(page, handling, m) \/ Closing(page, handling, m)
    BY <1>1, <2>1 DEF Stage, Closed, Opening, Fading
  <2>3. OneBack(page, m, <<>>)'
    <3>1. OneBack(page', m, <<>>)
      BY <1>2, <2>2 DEF Opened, Closing, KeepsBack
    <3> QED
      BY <3>1 DEF OneBack
  <2>4. CASE Opened(page, handling, m)
    <3>1. fades /\ page.modals[m].ends = <<Shown>>
      BY <1>1, <2>4 DEF Opened, Away, Handling
    <3>2. handling' = <<Handling("transition", m, Shown)>>
      BY <1>1, <1>5, <3>1
    <3>3. Opened(page, handling, m)'
      BY <1>1, <1>2, <2>3, <2>4, <3>1, <3>2 DEF Opened, Handling
    <3> QED
      BY <3>3 DEF Stage
  <2>5. CASE Closing(page, handling, m)
    <3>1. PICK id \in Ids : ClosingBy(page, handling, m, id)
      BY <2>5 DEF Closing
    <3>2. page.modals[m].ends \in {<<id>>, <<Shown, id>>} /\ page.modals[m].timeouts = {id}
      BY <1>1, <3>1 DEF ClosingBy
    <3>3. handling' \in {<<Handling("transition", m, id)>>,
                         <<Handling("transition", m, Shown), Handling("transition", m, id)>>}
      BY <1>1, <1>5, <1>6, <3>2
    <3>4. ClosingBy(page, handling, m, id)'
      BY <1>2, <3>2, <3>3 DEF ClosingBy, Handling
    <3>5. Closing(page, handling, m)'
      BY <1>1, <1>2, <2>3, <2>5, <3>4 DEF Closing
    <3> QED
      BY <3>5 DEF Stage
  <2> QED
    BY <2>2, <2>4, <2>5
<1>8. overlapped \subseteq overlapped' /\ hasty \subseteq hasty' /\ unguarded \subseteq unguarded' /\ UNCHANGED fades
      /\ \A o \in Modals \ {m} : page'.focusins[o] = page.focusins[o]
  BY <1>1, <1>2
<1> QED
  BY <1>2, <1>4, <1>7, <1>8, OthersKept

\* hideModal, for the timeout that has been cleared: the pop-up goes and its backdrop begins to fade.
LEMMA HiddenAtLast ==
    ASSUME NEW p, PageOK(p), fades, NEW m \in Modals, NEW id, NEW q, q = HideModal(p, m),
           ~p.modals[m].isShown, p.modals[m].timeouts = {}, p.modals[m].ends = <<>>, p.modals[m].keyups = 0,
           p.focusins[m] = 0, OneBack(p, m, <<>>), NEW h, Away(h, m)
    PROVE  Fading(q, h, m)
<1>1. HidesPopUp(p, q, m) /\ q.focusins = p.focusins /\ OneBack(q, m, <<"remove">>)
  BY HideModalDoes
<1> QED
  BY <1>1 DEF Fading, HidesPopUp

LEMMA HideTimeoutKept ==
    ASSUME ModalInv, NEW m \in Modals, NEW id \in page.modals[m].timeouts, HideTimeout(m, id)
    PROVE  ModalInv'
<1>1. PICK cleared : cleared = ClearTimeout(page, m, id)
  OBVIOUS
<1>2. PICK done : done = ClearEnds(cleared, m)
  OBVIOUS
<1>3. /\ PageOK(page) /\ fades \in BOOLEAN /\ handling = <<>> /\ page' = HideModal(done, m)
      /\ UNCHANGED <<handling, fades, overlapped, hasty, unguarded>>
  BY <1>1, <1>2 DEF HideTimeout, OnlyPage, ModalInv, ClearEnds, ClearTimeout
<1>4. /\ LeavesOthers(page, cleared, m) /\ cleared.focusins = page.focusins
      /\ cleared.modals[m].isShown = page.modals[m].isShown
      /\ cleared.modals[m].keyups = page.modals[m].keyups
      /\ cleared.modals[m].timeouts = page.modals[m].timeouts \ {id}
      /\ KeepsBack(page, cleared, m)
  BY <1>1, <1>3, TimeoutCleared
<1>5. PageOK(cleared)
  BY <1>4 DEF LeavesOthers
<1>6. /\ LeavesOthers(cleared, done, m) /\ done.focusins = cleared.focusins
      /\ done.modals[m].isShown = cleared.modals[m].isShown /\ done.modals[m].keyups = cleared.modals[m].keyups
      /\ done.modals[m].timeouts = cleared.modals[m].timeouts /\ done.modals[m].ends = <<>>
      /\ KeepsBack(cleared, done, m)
  BY <1>2, <1>5, EndsCleared
<1>7. PageOK(done)
  BY <1>6 DEF LeavesOthers
<1>8. LeavesOthers(done, page', m) /\ LeavesFocus(done, page', m)
  BY <1>3, <1>7, HideModalDoes
<1>9. LeavesOthers(page, page', m)
  BY <1>4, <1>6, <1>8, LeavesTwice
<1>10. \A o \in Modals : Away(handling, o) /\ Away(handling', o)
  BY <1>3, NobodyHandled
<1>11. ASSUME m \notin overlapped' \cup hasty'
       PROVE  Stage(page, handling, m)'
  <2>1. Stage(page, handling, m)
    BY <1>3, <1>11 DEF ModalInv
  <2>2. Closing(page, handling, m)
    BY <2>1 DEF Stage, Closed, Opening, Opened, Fading
  <2>3. PICK i \in Ids : ClosingBy(page, handling, m, i)
    BY <2>2 DEF Closing
  <2>4. page.modals[m].timeouts \ {id} = {}
    BY <2>3 DEF ClosingBy
  <2>5. /\ fades /\ ~done.modals[m].isShown /\ done.modals[m].timeouts = {} /\ done.modals[m].ends = <<>>
        /\ done.modals[m].keyups = 0 /\ done.focusins[m] = 0 /\ OneBack(done, m, <<>>)
    BY <1>4, <1>6, <2>2, <2>4 DEF Closing, KeepsBack
  <2>6. Fading(page', <<>>, m)
    BY <1>3, <1>7, <2>5, HiddenAtLast, NobodyHandled
  <2>7. Fading(page, handling, m)'
    BY <1>3, <2>6 DEF Fading, OneBack
  <2> QED
    BY <2>7 DEF Stage
<1>12. HandlingOK(handling')
  BY <1>3 DEF ModalInv
<1>13. overlapped \subseteq overlapped' /\ hasty \subseteq hasty' /\ unguarded \subseteq unguarded' /\ UNCHANGED fades
       /\ \A o \in Modals \ {m} : page'.focusins[o] = page.focusins[o]
  BY <1>3, <1>4, <1>6, <1>8 DEF LeavesFocus
<1> QED
  BY <1>9, <1>10, <1>11, <1>12, <1>13, OthersKept

LEMMA HeadNotAway == ASSUME NEW h, HandlingOK(h), h # <<>> PROVE ~Away(h, Head(h).of)
<1>1. 1 \in DOMAIN h /\ Head(h) = h[1]
  BY DEF HandlingOK
<1> QED
  BY <1>1 DEF Away

LEMMA CallTransitionKept == ASSUME ModalInv, CallTransition PROVE ModalInv'
<1>1. PICK m : m = Head(handling).of
  OBVIOUS
<1>2. PICK id : id = Head(handling).handler
  OBVIOUS
<1>3. PICK cleared : cleared = ClearTimeout(page, m, id)
  OBVIOUS
<1>4. /\ PageOK(page) /\ HandlingOK(handling) /\ fades \in BOOLEAN /\ handling # <<>> /\ Head(handling).op = "transition"
      /\ page' = (IF id = Shown THEN page ELSE HideModal(cleared, m))
      /\ handling' = Tail(handling)
      /\ UNCHANGED <<fades, overlapped, hasty, unguarded>>
  BY <1>1, <1>2, <1>3 DEF CallTransition, Calling, OnlyPage, ModalInv, ClearTimeout
<1>5. m \in Modals /\ HandlingOK(handling') /\ \A o \in Modals \ {m} : Away(handling, o) /\ Away(handling', o)
  BY <1>1, <1>4, AboutOne DEF Handlings
<1>6. ~Away(handling, m)
  BY <1>1, <1>4, HeadNotAway
<1>7. /\ LeavesOthers(page, cleared, m) /\ cleared.focusins = page.focusins
      /\ cleared.modals[m].isShown = page.modals[m].isShown /\ cleared.modals[m].keyups = page.modals[m].keyups
      /\ cleared.modals[m].timeouts = page.modals[m].timeouts \ {id} /\ cleared.modals[m].ends = page.modals[m].ends
      /\ KeepsBack(page, cleared, m)
  BY <1>3, <1>4, <1>5, TimeoutCleared
<1>8. PageOK(cleared)
  BY <1>7 DEF LeavesOthers
<1>9. LeavesOthers(page, page', m) /\ LeavesFocus(page, page', m)
  <2>1. CASE id = Shown
    BY <1>4, <2>1 DEF LeavesOthers, LeavesFocus
  <2>2. CASE id # Shown
    <3>1. page' = HideModal(cleared, m)
      BY <1>4, <2>2
    <3>2. LeavesOthers(cleared, page', m) /\ LeavesFocus(cleared, page', m)
      BY <1>4, <1>5, <1>8, <3>1, HideModalDoes
    <3>3. LeavesFocus(page, cleared, m)
      BY <1>7 DEF LeavesFocus
    <3> QED
      BY <1>7, <3>2, <3>3, LeavesTwice, LeavesFocusTwice
  <2> QED
    BY <2>1, <2>2
<1>10. ASSUME m \notin overlapped' \cup hasty'
       PROVE  Stage(page, handling, m)'
  <2>1. Stage(page, handling, m)
    BY <1>4, <1>5, <1>10 DEF ModalInv
  <2>2. ~Closed(page, handling, m)
    BY <1>6 DEF Closed
  <2>3. ~Opening(page, handling, m) /\ ~Fading(page, handling, m)
    <3>1. \A x : Head(<<Handling("backdrop", m, x)>>).op = "backdrop"
      BY DEF Handling
    <3> QED
      BY <1>4, <1>6, <3>1 DEF Opening, Fading
  <2>4. \A x : Head(<<Handling("transition", m, x)>>).handler = x /\ Tail(<<Handling("transition", m, x)>>) = <<>>
    BY DEF Handling
  <2>5. \A x, y : /\ Head(<<Handling("transition", m, x), Handling("transition", m, y)>>).handler = x
                  /\ Tail(<<Handling("transition", m, x), Handling("transition", m, y)>>) = <<Handling("transition", m, y)>>
    BY DEF Handling
  <2>6. CASE Opened(page, handling, m)
    <3>1. handling = <<Handling("transition", m, Shown)>> /\ fades /\ page.modals[m].ends = <<>>
      BY <1>6, <2>6 DEF Opened
    <3>2. id = Shown /\ handling' = <<>>
      BY <1>2, <1>4, <2>4, <3>1
    <3>3. page' = page
      BY <1>4, <3>2
    <3>4. Opened(page, handling, m)'
      BY <1>4, <2>6, <3>1, <3>2, <3>3, NobodyHandled DEF Opened, OneBack
    <3> QED
      BY <3>4 DEF Stage
  <2>7. CASE Closing(page, handling, m)
    <3>1. PICK i \in Ids : ClosingBy(page, handling, m, i)
      BY <2>7 DEF Closing
    <3>2. /\ page.modals[m].timeouts = {i} /\ page.modals[m].ends = <<>>
          /\ handling \in {<<Handling("transition", m, i)>>,
                           <<Handling("transition", m, Shown), Handling("transition", m, i)>>}
      BY <1>6, <3>1 DEF ClosingBy
    <3>3. CASE handling = <<Handling("transition", m, i)>>
      <4>1. id = i /\ handling' = <<>> /\ id # Shown
        BY <1>2, <1>4, <2>4, <3>3 DEF Ids, Shown
      <4>2. page' = HideModal(cleared, m)
        BY <1>4, <4>1
      <4>3. cleared.modals[m].timeouts = {} /\ cleared.modals[m].ends = <<>>
        BY <1>7, <3>2, <4>1
      <4>4. /\ fades /\ ~cleared.modals[m].isShown /\ cleared.modals[m].keyups = 0 /\ cleared.focusins[m] = 0
            /\ OneBack(cleared, m, <<>>)
        BY <1>7, <2>7 DEF Closing, KeepsBack
      <4>5. Fading(page', <<>>, m)
        BY <1>5, <1>8, <4>2, <4>3, <4>4, HiddenAtLast, NobodyHandled
      <4>6. Fading(page, handling, m)'
        BY <1>4, <4>1, <4>5 DEF Fading, OneBack
      <4> QED
        BY <4>6 DEF Stage
    <3>4. CASE handling = <<Handling("transition", m, Shown), Handling("transition", m, i)>>
      <4>1. id = Shown /\ handling' = <<Handling("transition", m, i)>>
        BY <1>2, <1>4, <2>5, <3>4
      <4>2. page' = page
        BY <1>4, <4>1
      <4>3. ClosingBy(page, handling, m, i)'
        BY <3>2, <4>1, <4>2 DEF ClosingBy, Handling
      <4>4. Closing(page, handling, m)'
        BY <1>4, <2>7, <4>2, <4>3 DEF Closing, OneBack
      <4> QED
        BY <4>4 DEF Stage
    <3> QED
      BY <3>2, <3>3, <3>4
  <2> QED
    BY <2>1, <2>2, <2>3, <2>6, <2>7 DEF Stage
<1>11. overlapped \subseteq overlapped' /\ hasty \subseteq hasty' /\ unguarded \subseteq unguarded' /\ UNCHANGED fades
       /\ \A o \in Modals \ {m} : page'.focusins[o] = page.focusins[o]
  BY <1>4, <1>9 DEF LeavesFocus
<1> QED
  BY <1>5, <1>9, <1>10, <1>11, OthersKept

LEMMA BackdropFadedKept ==
    ASSUME ModalInv, NEW b \in DOMAIN page.backs, BackdropFaded(b)
    PROVE  ModalInv'
<1>1. PICK m : m = page.backs[b].owner
  OBVIOUS
<1>2. /\ PageOK(page) /\ handling = <<>> /\ page.backs[b].ends # <<>>
      /\ page' = [page EXCEPT !.backs[b].ends = <<>>]
      /\ handling' = ToHandle("backdrop", m, page.backs[b].ends)
      /\ UNCHANGED <<fades, overlapped, hasty, unguarded>>
  BY <1>1 DEF BackdropFaded, OnlyPage, ModalInv
<1>3. page.backs[b] \in Backs /\ m \in Modals
  BY <1>1, <1>2 DEF PageOK, Backs
<1>4. HandlingOK(handling') /\ \A o \in Modals \ {m} : Away(handling, o) /\ Away(handling', o)
  <2>1. page.backs[b].ends \in Seq({"reveal", "remove"})
    BY <1>3 DEF Backs
  <2> QED
    BY <1>2, <1>3, <2>1, HandlersCalled, NobodyHandled
<1>5. SetsEnds(page, page', b, <<>>)
  BY <1>2 DEF SetsEnds, PageOK, Page
<1>6. <<>> \in Seq({"reveal", "remove"})
  OBVIOUS
<1>7. LeavesOthers(page, page', m) /\ GetsEnds(page, page', m, <<>>)
  BY <1>1, <1>2, <1>5, <1>6, BackEndsSet
<1>8. page'.modals = page.modals /\ page'.focusins = page.focusins
  BY <1>5 DEF SetsEnds
<1>9. \A x : ToHandle("backdrop", m, <<x>>) = <<Handling("backdrop", m, x)>>
  BY DEF ToHandle, Handling
<1>10. ASSUME m \notin overlapped' \cup hasty'
       PROVE  Stage(page, handling, m)'
  <2>1. Stage(page, handling, m)
    BY <1>2, <1>3, <1>10 DEF ModalInv
  <2>2. \A ends : OneBack(page, m, ends) => ends = page.backs[b].ends
    BY <1>1 DEF OneBack
  <2>3. ~NoBack(page, m)
    BY <1>1 DEF NoBack
  <2>4. ~Closed(page, handling, m) /\ ~Opened(page, handling, m) /\ ~Closing(page, handling, m)
    BY <1>2, <2>2, <2>3 DEF Closed, Opened, Closing
  <2>5. CASE Opening(page, handling, m)
    <3>1. OneBack(page, m, <<"reveal">>)
      BY <1>2, <2>5 DEF Opening
    <3>2. handling' = <<Handling("backdrop", m, "reveal")>>
      BY <1>2, <1>9, <2>2, <3>1
    <3>3. OneBack(page, m, <<>>)'
      BY <1>7, <3>1 DEF GetsEnds, OneBack
    <3>4. Opening(page, handling, m)'
      BY <1>2, <1>8, <2>5, <3>2, <3>3 DEF Opening, Handling
    <3> QED
      BY <3>4 DEF Stage
  <2>6. CASE Fading(page, handling, m)
    <3>1. OneBack(page, m, <<"remove">>)
      BY <1>2, <2>6 DEF Fading
    <3>2. handling' = <<Handling("backdrop", m, "remove")>>
      BY <1>2, <1>9, <2>2, <3>1
    <3>3. OneBack(page, m, <<>>)'
      BY <1>7, <3>1 DEF GetsEnds, OneBack
    <3>4. Fading(page, handling, m)'
      BY <1>2, <1>8, <2>6, <3>2, <3>3 DEF Fading, Handling
    <3> QED
      BY <3>4 DEF Stage
  <2> QED
    BY <2>1, <2>4, <2>5, <2>6 DEF Stage
<1>11. overlapped \subseteq overlapped' /\ hasty \subseteq hasty' /\ unguarded \subseteq unguarded' /\ UNCHANGED fades
       /\ \A o \in Modals \ {m} : page'.focusins[o] = page.focusins[o]
  BY <1>2, <1>8
<1> QED
  BY <1>3, <1>4, <1>7, <1>10, <1>11, OthersKept

LEMMA CallBackdropKept == ASSUME ModalInv, CallBackdrop PROVE ModalInv'
<1>1. PICK m : m = Head(handling).of
  OBVIOUS
<1>2. PICK callback : callback = Head(handling).handler
  OBVIOUS
<1>3. /\ PageOK(page) /\ HandlingOK(handling) /\ fades \in BOOLEAN /\ handling # <<>> /\ Head(handling).op = "backdrop"
      /\ page' = AfterFading(page, m, callback)
      /\ handling' = Tail(handling)
      /\ UNCHANGED <<fades, overlapped, hasty, unguarded>>
  BY <1>1, <1>2 DEF CallBackdrop, Calling, OnlyPage, ModalInv
<1>4. m \in Modals /\ HandlingOK(handling') /\ \A o \in Modals \ {m} : Away(handling, o) /\ Away(handling', o)
  BY <1>1, <1>3, AboutOne DEF Handlings
<1>5. ~Away(handling, m)
  BY <1>1, <1>3, HeadNotAway
<1>6. LeavesOthers(page, page', m) /\ LeavesFocus(page, page', m)
  BY <1>3, <1>4, AfterFadingDoes
<1>7. ASSUME m \notin overlapped' \cup hasty'
      PROVE  Stage(page, handling, m)'
  <2>1. Stage(page, handling, m)
    BY <1>3, <1>4, <1>7 DEF ModalInv
  <2>2. ~Closed(page, handling, m)
    BY <1>5 DEF Closed
  <2>3. ~Opened(page, handling, m) /\ ~Closing(page, handling, m)
    <3>1. \A x : Head(<<Handling("transition", m, x)>>).op = "transition"
      BY DEF Handling
    <3>2. \A x, y : Head(<<Handling("transition", m, x), Handling("transition", m, y)>>).op = "transition"
      BY DEF Handling
    <3> QED
      BY <1>3, <1>5, <3>1, <3>2 DEF Opened, Closing, ClosingBy
  <2>4. \A x : Head(<<Handling("backdrop", m, x)>>).handler = x /\ Tail(<<Handling("backdrop", m, x)>>) = <<>>
    BY DEF Handling
  <2>5. CASE Opening(page, handling, m)
    <3>1. handling = <<Handling("backdrop", m, "reveal")>> /\ OneBack(page, m, <<>>)
      BY <1>5, <2>5 DEF Opening
    <3>2. callback = "reveal" /\ handling' = <<>>
      BY <1>2, <1>3, <2>4, <3>1
    <3>3. page' = Reveal(page, m)
      BY <1>3, <3>2 DEF AfterFading
    <3>4. RevealsPopUp(page, page', m) /\ KeepsBack(page, page', m)
      BY <1>3, <1>4, <3>3, RevealDoes
    <3>5. OneBack(page, m, <<>>)'
      BY <3>1, <3>4 DEF KeepsBack, OneBack
    <3>6. page'.focusins[m] = 1
      BY <2>5, <3>4 DEF Opening, RevealsPopUp
    <3>7. page'.modals[m].ends = <<Shown>>
      BY <2>5, <3>4 DEF Opening, RevealsPopUp
    <3>8. Opened(page, handling, m)'
      BY <1>3, <2>5, <3>2, <3>4, <3>5, <3>6, <3>7, NobodyHandled DEF Opening, Opened, RevealsPopUp
    <3> QED
      BY <3>8 DEF Stage
  <2>6. CASE Fading(page, handling, m)
    <3>1. handling = <<Handling("backdrop", m, "remove")>> /\ OneBack(page, m, <<>>)
      BY <1>5, <2>6 DEF Fading
    <3>2. callback = "remove" /\ handling' = <<>>
      BY <1>2, <1>3, <2>4, <3>1
    <3>3. page' = RemoveBackdrop(page, m)
      BY <1>3, <3>2 DEF AfterFading
    <3>4. page'.focusins = page.focusins /\ KeepsPopUp(page, page', m) /\ LosesBack(page, page', m)
      BY <1>3, <1>4, <3>3, RemoveDoes
    <3>5. NoBack(page, m)'
      BY <3>1, <3>4 DEF LosesBack, NoBack
    <3>6. Closed(page, handling, m)'
      BY <2>6, <3>2, <3>4, <3>5, NobodyHandled DEF Fading, Closed, KeepsPopUp
    <3> QED
      BY <3>6 DEF Stage
  <2> QED
    BY <2>1, <2>2, <2>3, <2>5, <2>6 DEF Stage
<1>8. overlapped \subseteq overlapped' /\ hasty \subseteq hasty' /\ unguarded \subseteq unguarded' /\ UNCHANGED fades
      /\ \A o \in Modals \ {m} : page'.focusins[o] = page.focusins[o]
  BY <1>3, <1>6 DEF LeavesFocus
<1> QED
  BY <1>4, <1>6, <1>7, <1>8, OthersKept

LEMMA ModalKept == ASSUME ModalInv, ModalNext PROVE ModalInv'
BY ShowKept, HideKept, TransitionEndsKept, HideTimeoutKept, BackdropFadedKept, CallTransitionKept, CallBackdropKept
   DEF ModalNext, PressEscape

LEMMA ModalStarts == ASSUME ModalInit PROVE ModalInv
<1>1. /\ page.modals = [m \in Modals |-> [isShown |-> FALSE, displayed |-> FALSE, in |-> FALSE, timeouts |-> {},
                                          ends |-> <<>>, backdrop |-> NoBackdrop, keyups |-> 0]]
      /\ page.backs = <<>> /\ page.focusins = [m \in Modals |-> 0]
      /\ page = [modals |-> page.modals, backs |-> page.backs, focusins |-> page.focusins]
      /\ handling = <<>> /\ fades \in BOOLEAN
  BY DEF ModalInit
<1>2. PICK modal : modal = [isShown |-> FALSE, displayed |-> FALSE, in |-> FALSE, timeouts |-> {},
                            ends |-> <<>>, backdrop |-> NoBackdrop, keyups |-> 0]
  OBVIOUS
<1>3. modal \in PopUps
  <2>1. <<>> \in Seq(Nat)
    OBVIOUS
  <2> QED
    BY <1>2, <2>1 DEF PopUps, NoBackdrop
<1>4. page.modals \in [Modals -> PopUps] /\ \A m \in Modals : page.modals[m] = modal
  BY <1>1, <1>2, <1>3
<1>5. /\ ~modal.isShown /\ ~modal.displayed /\ modal.timeouts = {} /\ modal.ends = <<>> /\ modal.keyups = 0
      /\ modal.backdrop = NoBackdrop
  BY <1>2
<1>6. DOMAIN page.backs = {} /\ page.backs \in [DOMAIN page.backs -> Backs]
  BY <1>1
<1>7. PageOK(page)
  <2>1. IsFiniteSet(DOMAIN page.backs) /\ DOMAIN page.backs \subseteq Ids
    BY <1>6, FS_EmptySet
  <2>2. \A m \in Modals : IsFiniteSet(page.modals[m].timeouts) /\ page.modals[m].backdrop = NoBackdrop
    BY <1>4, <1>5, FS_EmptySet
  <2>3. page.focusins \in [Modals -> Nat]
    BY <1>1
  <2> QED
    BY <1>1, <1>4, <1>6, <2>1, <2>2, <2>3 DEF PageOK
<1>8. HandlingOK(handling)
  BY <1>1 DEF HandlingOK
<1>9. ASSUME NEW m \in Modals
      PROVE  Stage(page, handling, m)
  <2>1. NoBack(page, m)
    BY <1>4, <1>5, <1>6 DEF NoBack
  <2>2. page.focusins[m] = 0 /\ Away(handling, m)
    BY <1>1, NobodyHandled
  <2> QED
    BY <1>4, <1>5, <2>1, <2>2 DEF Stage, Closed
<1> QED
  BY <1>1, <1>7, <1>8, <1>9 DEF ModalInv

LEMMA RestIsSettled == ASSUME ModalInv PROVE ModalSettles
<1> SUFFICES ASSUME NEW m \in Modals \ (overlapped \cup hasty), AtRest(m)
             PROVE  LET one == IF page.modals[m].isShown THEN 1 ELSE 0
                    IN  /\ page.modals[m].displayed = page.modals[m].isShown
                        /\ page.modals[m].keyups = one
                        /\ Cardinality(Of(m)) = one
                        /\ m \notin unguarded => page.focusins[m] = one
  BY DEF ModalSettles
<1>1. Stage(page, handling, m)
  BY DEF ModalInv
<1>2. handling = <<>> /\ page.modals[m].timeouts = {} /\ \A b \in Of(m) : page.backs[b].ends = <<>>
  BY DEF AtRest
<1>3. \A ends : OneBack(page, m, ends) => ends = <<>> /\ Cardinality(Of(m)) = 1
  <2> SUFFICES ASSUME NEW ends, OneBack(page, m, ends)
               PROVE  ends = <<>> /\ Cardinality(Of(m)) = 1
    OBVIOUS
  <2>1. PICK b : b = page.modals[m].backdrop
    OBVIOUS
  <2>2. Of(m) = {b} /\ page.backs[b].ends = ends
    BY <2>1 DEF OneBack, Of
  <2> QED
    BY <1>2, <2>2, FS_Singleton
<1>4. CASE Closed(page, handling, m)
  <2>1. Of(m) = {}
    BY <1>4 DEF Closed, NoBack, Of
  <2>2. Cardinality(Of(m)) = 0
    BY <2>1, FS_EmptySet
  <2> QED
    <3>1. page.modals[m].displayed \in BOOLEAN /\ page.modals[m].isShown \in BOOLEAN
      BY DEF ModalInv, PageOK, PopUps
    <3> QED
      BY <1>4, <2>2, <3>1 DEF Closed
<1>5. CASE Opened(page, handling, m)
  BY <1>3, <1>5 DEF Opened
<1>6. ~Opening(page, handling, m) /\ ~Fading(page, handling, m)
  BY <1>2, <1>3 DEF Opening, Fading
<1>7. ~Closing(page, handling, m)
  BY <1>2 DEF Closing, ClosingBy
<1> QED
  BY <1>1, <1>4, <1>5, <1>6, <1>7 DEF Stage

LEMMA ModalUnchanged == ASSUME ModalInv, UNCHANGED modalVars PROVE ModalInv'
<1>1. UNCHANGED <<page, handling, fades, overlapped, hasty, unguarded>>
  BY DEF modalVars
<1>2. ASSUME NEW m \in Modals, Stage(page, handling, m)
      PROVE  Stage(page, handling, m)'
  BY <1>1, <1>2 DEF Stage, Closed, Opening, Opened, Closing, ClosingBy, Fading
<1>3. PageOK(page)' /\ HandlingOK(handling)'
  BY <1>1 DEF ModalInv
<1> QED
  BY <1>1, <1>2, <1>3 DEF ModalInv

\* Whatever the user clicks while Bootstrap's pop-ups fade and its accordion moves, both come to rest as they look.
THEOREM WidgetsAtRest == Spec => []WidgetsSettle
<1> DEFINE Inv == ModalInv /\ CollapseInv
<1>1. Init => Inv
  <2> SUFFICES ASSUME Init
               PROVE  Inv
    OBVIOUS
  <2>1. ModalInit /\ CollapseInit
    BY DEF Init
  <2> QED
    BY <2>1, ModalStarts, CollapseStarts
<1>2. Inv /\ [Next]_vars => Inv'
  <2> SUFFICES ASSUME Inv, [Next]_vars
               PROVE  Inv'
    OBVIOUS
  <2>1. CASE ModalNext /\ UNCHANGED collapseVars
    BY <2>1, ModalKept, CollapseUnchanged
  <2>2. CASE CollapseNext /\ UNCHANGED modalVars
    BY <2>2, CollapseKept, ModalUnchanged
  <2>3. CASE UNCHANGED <<modalVars, collapseVars>>
    BY <2>3, CollapseUnchanged, ModalUnchanged
  <2> QED
    BY <2>1, <2>2, <2>3 DEF Next, vars, widgetVars
<1>3. Inv => WidgetsSettle
  BY RestIsSettled, CollapseSettles DEF WidgetsSettle
<1> QED
  BY <1>1, <1>2, <1>3, PTL DEF Spec

=============================================================================
