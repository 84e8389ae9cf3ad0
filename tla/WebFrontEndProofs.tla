------------------------ MODULE WebFrontEndProofs ------------------------
(***************************************************************************)
(* Proofs about WebFrontEnd, for any rows of the servlet, any numbers of   *)
(* clicks, of calls under way and of failures, and answers in any order.   *)
(*                                                                         *)
(* A step of one part of the pages leaves the calls of the other parts as  *)
(* they are and in their order; that is shown once, in the first half.     *)
(* Then, part by part: a form is saved in the row it was filled from, the  *)
(* cookies of a session agree, a measurement is plotted at its date.       *)
(***************************************************************************)
EXTENDS WebFrontEnd, SequenceTheorems, FiniteSetTheorems, TLAPS

-----------------------------------------------------------------------------
(* The calls. *)

IsCall(c) == c = [fn |-> c.fn, key |-> c.key, data |-> c.data, answer |-> c.answer]
Elements(s) == {s[i] : i \in DOMAIN s}
IsCalls(cs) == cs \in Seq(Elements(cs)) /\ \A i \in DOMAIN cs : IsCall(cs[i])

\* Where the functions of each part call from.
SensorFns == {"getSensorsFromId", "editRorgs", "editFunctions", "editTypes", "getEepRorgs", "getEepFunctions",
              "getEepTypes", "getMeasureTypes", "updateSensor", "deleteSensor", "getSensorsInLearnMode",
              "createSensor", "createLearnSensor", "searchSensor", "addExistingSensor"}
GroupFns == {"getGroups", "getGroup", "addGroup", "updateGroup", "deleteGroup"}
LocationFns == {"manageLocation", "getLocationChilds", "locationTypes", "editLocation", "editLocationTypes",
                "createLocation", "updateLocation", "deleteLocation"}
UserFns == {"getUsers", "getUser", "editUser", "createUser", "updateUser", "deleteUser", "updateProfile"}
LoginFns == {"login", "getUserOfLogin", "logout"}
ConfigFns == {"getConfig", "updateConfig"}
SearchFns == {"searchSensorSelection", "searchGroups", "getGroupDetails", "getGroupSensors"}

\* f says where a call comes from.  But for those of F they stay as they are, all of them and in order.
Matching(f, F) ==
    /\ \A j \in DOMAIN calls' : calls'[j].fn \notin F => f[j] \in DOMAIN calls /\ calls[f[j]] = calls'[j]
    /\ \A j, k \in DOMAIN calls' :
        j < k /\ calls'[j].fn \notin F /\ calls'[k].fn \notin F => f[j] < f[k]
    /\ \A i \in DOMAIN calls : calls[i].fn \notin F => \E j \in DOMAIN calls' : f[j] = i /\ calls'[j].fn \notin F

\* What was disturbed stays so.
Grows == (failures' = 0 => failures = 0) /\ overtaken \subseteq overtaken' /\ hasty \subseteq hasty'

\* A step that touches, answers and makes no calls but of F; or the page goes elsewhere.
Only(F) ==
    /\ Grows
    /\ \/ page' = "left" /\ calls' = <<>>
       \/ page' = page /\ \E f : Matching(f, F)

\* New calls of F.
Making(new, F) == IsCalls(new) /\ \A i \in DOMAIN new : new[i].fn \in F

-----------------------------------------------------------------------------
(* The invariants, part by part. *)

\* What every step finds.
Typed ==
    /\ IsCalls(calls) /\ failures \in Nat
    /\ DOMAIN hidden = {"sensorId", "groupId", "results", "devices"}

\* The token, the rights and the user name of a login are those of one account while the name is not changed.
SessionHeld ==
    /\ login = [username |-> login.username, password |-> login.password, cookies |-> login.cookies]
    /\ DOMAIN login.cookies = {"user", "admin", "token"}
    /\ retyped \in BOOLEAN
    /\ page # "left" => login.cookies.token = None
    /\ SessionAgrees
    /\ \A i \in DOMAIN calls :
        LET c == calls[i]
        IN  /\ c.fn = "login" =>
                /\ ~retyped => c.key = login.username
                /\ c.answer \in {None, Failed, Denied, [token |-> c.key]}
            /\ c.fn = "getUserOfLogin" =>
                /\ ~retyped => c.key = login.username /\ c.data = login.username
                /\ c.answer \in {None, Null, Failed, Denied, [admin |-> c.key \in admins]}

\* The zone in the input is one that was typed or that the servlet has sent, unless that is still to come.
ConfigHeld ==
    /\ DOMAIN config = {"zone", "dns", "enabled"}
    /\ Undisturbed({"getConfig"}) =>
        /\ configRow \in Zones
        /\ page = "config" => config.zone \in Zones \/ "getConfig" \in FunctionsOf(calls)
        /\ \A i \in DOMAIN calls :
            /\ calls[i].fn = "updateConfig" => calls[i].data \in Zones
            /\ calls[i].fn = "getConfig" => calls[i].answer \in Zones \cup {None}

\* The text of group g, or a group that is no more.
Fits(text, g) == g \in Groups /\ groupRows[g] # None => text.of = g
\* The form is about to be filled by a later answer.
Superseded(i) == \E j \in DOMAIN calls : j > i /\ calls[j].fn = "getGroup"
GroupsTyped ==
    /\ groupRows \in [Groups -> Text \cup {None}]
    /\ DOMAIN group = {"options", "chosen", "form", "enabled", "buttons"} /\ group.form \in Text
    /\ \A i \in DOMAIN calls :
        LET c == calls[i]
        IN  /\ c.fn = "updateGroup" => c.data \in Text
            /\ c.fn = "getGroup" => c.key \in Groups /\ c.answer \in {None, Null, Failed, Denied} \cup Text
GroupsHeld ==
    Undisturbed({"getGroup", "deleteGroup"}) =>
        /\ \A g \in Groups : groupRows[g] # None => groupRows[g].of = g
        /\ page = "groups" =>
            Fits(group.form, hidden.groupId) \/ "getGroup" \in FunctionsOf(calls)
        /\ \A i \in DOMAIN calls :
            LET c == calls[i]
            IN  /\ c.fn = "updateGroup" => Fits(c.data, c.key)
                /\ c.fn = "getGroup" =>
                    /\ c.answer \in {None, Null} \cup Text
                    /\ c.answer = Null => groupRows[c.key] = None
                    /\ c.answer \notin {None, Null} => Fits(c.answer, c.key)
                /\ c.fn = "deleteGroup" /\ c.key \in Groups =>
                    c.answer \in {None, Denied} \/ groupRows[c.key] = None
                /\ c.fn \in {"getGroup", "deleteGroup"} => Superseded(i) \/ c.key = hidden.groupId

\* The personal data of u, and its password, hashed once or as ShortHash allows.
IsOf(row, u) == row.of = u /\ (row.password = "rehashed" => u \in ShortHash)
UsersTyped ==
    /\ userRows \in [Users -> UserRow \cup {None}]
    /\ DOMAIN userPage = {"cookie", "isAdmin", "me", "table", "profile", "editing", "open", "saves", "form"}
    /\ userPage.isAdmin \in BOOLEAN /\ userPage.profile \in UserRow /\ userPage.form \in UserRow
    /\ userPage.open \in BOOLEAN /\ userPage.editing \in BOOLEAN
    /\ userPage.me \in Users \cup {None} /\ userPage.saves \in Users \cup {None}
    /\ userPage.editing => userPage.me # None
    /\ \A u \in DOMAIN userPage.table : u \in Users /\ userRows[u] # None
    /\ \A i \in DOMAIN calls :
        LET c == calls[i]
        IN  /\ c.fn \in {"createUser", "updateUser", "updateProfile"} => c.data \in UserRow
            /\ c.fn \in {"updateUser", "updateProfile"} => c.key \in Users
            /\ c.fn \in {"getUser", "editUser"} => c.answer \in {None, Null, Failed, Denied} \cup Account
            /\ c.fn = "editUser" => c.key \in Users /\ userRows[c.key] # None
            /\ c.fn = "getUsers" /\ c.answer \notin {None, Failed, Denied} =>
                \A u \in DOMAIN c.answer : u \in Users /\ userRows[u] # None
UsersHeld ==
    Undisturbed({"getUser", "editUser"}) =>
        /\ \A u \in Users : userRows[u] # None => IsOf(userRows[u], u)
        /\ userPage.me # None => IsOf(userPage.profile, userPage.me)
        /\ page = "users" /\ userPage.open =>
            IF userPage.saves = None THEN userPage.form.of = None /\ userPage.form.password = "typed"
            ELSE IsOf(userPage.form, userPage.saves) \/ "editUser" \in FunctionsOf(calls)
        /\ \A i \in DOMAIN calls :
            LET c == calls[i]
            IN  /\ c.fn \in {"updateUser", "updateProfile"} => IsOf(c.data, c.key)
                /\ c.fn = "createUser" => c.data.of = None /\ c.data.password = "typed"
                /\ c.fn \in {"getUser", "editUser"} =>
                    c.answer \in {None, Null} \/ (c.answer \in Account /\ IsOf(c.answer.row, c.answer.id))
                /\ c.fn = "editUser" =>
                    /\ userPage.open /\ userPage.saves = c.key
                    /\ c.answer # Null /\ (c.answer # None => c.answer.id = c.key)

\* A name that was loaded from the location l, or typed.
NameFits(name, l) == name \in {None, l}
PlacesTyped ==
    /\ DOMAIN placeRows = Places
    /\ \A l \in Places : placeRows[l] # None => DOMAIN placeRows[l] = {"parent", "name", "type"}
    /\ DOMAIN location = {"tree", "form", "buttons", "selected"} /\ DOMAIN location.buttons = {"kind", "of"}
    /\ location.form # None => DOMAIN location.form = {"name", "type", "chosen"}
    /\ \A i \in DOMAIN calls : calls[i].fn = "editLocation" => calls[i].key \in Places
PlacesHeld ==
    Undisturbed({"editLocation"}) =>
        /\ \A l \in Places : placeRows[l] # None => NameFits(placeRows[l].name, l)
        /\ location.form # None =>
            /\ location.buttons.kind = "update" => NameFits(location.form.name, location.buttons.of)
            /\ location.buttons.kind \in {"create", "createRoot"} => location.form.name = None
        /\ \A i \in DOMAIN calls :
            LET c == calls[i]
            IN  /\ c.fn = "updateLocation" => NameFits(c.data.name, c.key)
                /\ c.fn = "createLocation" => c.data.name = None
                /\ c.fn = "editLocation" =>
                    /\ c.answer \in {None, Null, Failed, Denied} \/ NameFits(c.answer.name, c.key)
                    /\ location.buttons = Buttons("update", c.key) \/ location.buttons.kind = "root"

\* A date that has been plotted is one of those measured.
PointHeld ==
    /\ DOMAIN graphPage = {"catalogue", "selection", "drawing", "point"}
    /\ graphPage.point # None =>
        \E date \in Dates, today \in Today :
            graphPage.point = [date |-> date, today |-> today, plotted |-> Plotted(date, today)]


-----------------------------------------------------------------------------
(* Sequences of calls. *)

\* A sequence of calls is a function on 1..n, and each of them is a call.
LEMMA CallsAreSequence ==
    ASSUME NEW cs, IsCalls(cs)
    PROVE  /\ Len(cs) \in Nat /\ DOMAIN cs = 1..Len(cs) /\ cs = [i \in 1..Len(cs) |-> cs[i]]
           /\ \A S : Elements(cs) \subseteq S => cs \in Seq(S)
<1>1. cs \in Seq(Elements(cs))
  BY DEF IsCalls
<1>2. Len(cs) \in Nat /\ DOMAIN cs = 1..Len(cs) /\ cs = [i \in 1..Len(cs) |-> cs[i]]
  BY <1>1
<1>3. ASSUME NEW S, Elements(cs) \subseteq S
      PROVE  cs \in Seq(S)
  <2>1. \A i \in 1..Len(cs) : cs[i] \in S
    BY <1>1, <1>2, <1>3 DEF Elements
  <2>2. QED
    BY <1>2, <2>1
<1>4. QED
  BY <1>2, <1>3

\* What is indexed from 1 on, by calls, is a sequence of calls.
LEMMA SequenceOfCalls ==
    ASSUME NEW n \in Nat, NEW cs, cs = [i \in 1..n |-> cs[i]], \A i \in 1..n : IsCall(cs[i])
    PROVE  IsCalls(cs) /\ Len(cs) = n /\ DOMAIN cs = 1..n
<1>1. DOMAIN cs = 1..n
  BY Zenon
<1>2. \A i \in 1..n : cs[i] \in Elements(cs)
  BY <1>1 DEF Elements
<1>3. [i \in 1..n |-> cs[i]] \in Seq(Elements(cs))
  BY <1>2
<1>4. cs \in Seq(Elements(cs))
  BY <1>3, Zenon
<1>5. Len(cs) = n
  BY <1>1, <1>4
<1>6. QED
  BY <1>1, <1>4, <1>5 DEF IsCalls

\* A new call is one.
LEMMA NewCall ==
    ASSUME NEW fn, NEW key, NEW data
    PROVE  LET c == Call(fn, key, data)
           IN  IsCall(c) /\ c.fn = fn /\ c.key = key /\ c.data = data /\ c.answer = None
BY DEF Call, IsCall

\* A callback may make no calls.
LEMMA MakingNone ==
    ASSUME NEW F
    PROVE  Making(<<>>, F)
<1>1. <<>> = [i \in 1..0 |-> <<>>[i]] /\ \A i \in 1..0 : IsCall(<<>>[i])
  OBVIOUS
<1>2. IsCalls(<<>>) /\ DOMAIN <<>> = 1..0
  BY <1>1, SequenceOfCalls
<1>3. QED
  BY <1>2 DEF Making

\* It may make one.
LEMMA MakingOne ==
    ASSUME NEW F, NEW fn \in F, NEW key, NEW data
    PROVE  LET new == <<Call(fn, key, data)>>
           IN  Making(new, F) /\ Len(new) = 1 /\ DOMAIN new = 1..1 /\ new[1] = Call(fn, key, data)
<1> DEFINE c == Call(fn, key, data)
           new == <<c>>
<1>1. IsCall(c) /\ c.fn = fn
  BY NewCall
<1> HIDE DEF c
<1>2. new = [i \in 1..1 |-> new[i]] /\ new[1] = c
  OBVIOUS
<1>3. \A i \in 1..1 : i = 1
  OBVIOUS
<1>4. \A i \in 1..1 : IsCall(new[i])
  BY <1>1, <1>2, <1>3
<1>5. IsCalls(new) /\ DOMAIN new = 1..1 /\ Len(new) = 1
  BY <1>2, <1>4, SequenceOfCalls
<1>6. QED
  BY <1>1, <1>2, <1>3, <1>5 DEF Making, c

\* Calls in front of calls.
LEMMA CallsAppended ==
    ASSUME NEW cs, NEW new, IsCalls(cs), IsCalls(new)
    PROVE  LET r == cs \o new
           IN  /\ IsCalls(r) /\ Len(r) = Len(cs) + Len(new) /\ DOMAIN r = 1..(Len(cs) + Len(new))
               /\ \A i \in 1..Len(cs) : r[i] = cs[i]
               /\ \A i \in 1..Len(new) : r[Len(cs) + i] = new[i]
<1>0. PICK S : Elements(cs) \subseteq S /\ Elements(new) \subseteq S
  <2>1. Elements(cs) \subseteq Elements(cs) \cup Elements(new) /\ Elements(new) \subseteq Elements(cs) \cup Elements(new)
    OBVIOUS
  <2>2. QED
    BY <2>1
<1>1. cs \in Seq(S) /\ new \in Seq(S)
  BY <1>0, CallsAreSequence
<1>2. /\ Len(cs) \in Nat /\ Len(new) \in Nat /\ Len(cs) + Len(new) \in Nat
      /\ DOMAIN cs = 1..Len(cs) /\ DOMAIN new = 1..Len(new)
  BY <1>1
<1> DEFINE r == cs \o new
<1>3. r \in Seq(S) /\ Len(r) = Len(cs) + Len(new)
  BY <1>1
<1>4. \A i \in 1..(Len(cs) + Len(new)) : r[i] = IF i =< Len(cs) THEN cs[i] ELSE new[i - Len(cs)]
  BY <1>1, <1>2
<1> HIDE DEF r
<1>5. r = [i \in 1..(Len(cs) + Len(new)) |-> r[i]]
  BY <1>3
<1>6. \A i \in 1..Len(cs) : r[i] = cs[i]
  BY <1>2, <1>4
<1>7. \A i \in 1..Len(new) : r[Len(cs) + i] = new[i]
  BY <1>2, <1>4
<1>8. ASSUME NEW i \in 1..(Len(cs) + Len(new))
      PROVE  IsCall(r[i])
  <2>1. CASE i =< Len(cs)
    BY <2>1, <1>2, <1>6 DEF IsCalls
  <2>2. CASE i > Len(cs)
    <3>1. i - Len(cs) \in 1..Len(new) /\ r[i] = new[i - Len(cs)]
      BY <2>2, <1>2, <1>4
    <3>2. QED
      BY <3>1, <1>2 DEF IsCalls
  <2>3. QED
    BY <2>1, <2>2, <1>2
<1>9. IsCalls(r) /\ Len(r) = Len(cs) + Len(new) /\ DOMAIN r = 1..(Len(cs) + Len(new))
  BY <1>2, <1>5, <1>8, SequenceOfCalls
<1>10. QED
  BY <1>6, <1>7, <1>9 DEF r

\* A callback may make several calls.
LEMMA MakingMore ==
    ASSUME NEW F, NEW some, NEW more, Making(some, F), Making(more, F)
    PROVE  Making(some \o more, F)
<1>1. IsCalls(some) /\ IsCalls(more)
  BY DEF Making
<1>2. PICK r : r = some \o more
  OBVIOUS
<1>3. /\ IsCalls(r) /\ DOMAIN r = 1..(Len(some) + Len(more))
      /\ \A i \in 1..Len(some) : r[i] = some[i]
      /\ \A i \in 1..Len(more) : r[Len(some) + i] = more[i]
  BY <1>1, <1>2, CallsAppended
<1>4. /\ Len(some) \in Nat /\ Len(more) \in Nat
      /\ DOMAIN some = 1..Len(some) /\ DOMAIN more = 1..Len(more)
  BY <1>1, CallsAreSequence
<1>5. ASSUME NEW i \in DOMAIN r
      PROVE  r[i].fn \in F
  <2>1. CASE i =< Len(some)
    BY <2>1, <1>3, <1>4 DEF Making
  <2>2. CASE i > Len(some)
    <3>1. PICK k : k = i - Len(some)
      OBVIOUS
    <3>2. k \in 1..Len(more) /\ Len(some) + k = i
      BY <2>2, <3>1, <1>3, <1>4
    <3>3. r[i] = more[k]
      BY <3>2, <1>3
    <3>4. QED
      BY <3>2, <3>3, <1>4 DEF Making
  <2>3. QED
    BY <2>1, <2>2, <1>3, <1>4
<1>6. QED
  BY <1>2, <1>3, <1>5 DEF Making

\* A call is gone, the others move up.
LEMMA CallRemoved ==
    ASSUME NEW cs, IsCalls(cs), NEW i \in DOMAIN cs
    PROVE  LET r == RemoveAt(cs, i)
           IN  /\ IsCalls(r) /\ Len(r) = Len(cs) - 1 /\ DOMAIN r = 1..(Len(cs) - 1) /\ Len(cs) - 1 \in Nat
               /\ \A j \in 1..(Len(cs) - 1) : r[j] = cs[IF j < i THEN j ELSE j + 1]
<1>1. /\ cs \in Seq(Elements(cs)) /\ Len(cs) \in Nat /\ i \in 1..Len(cs) /\ DOMAIN cs = 1..Len(cs)
      /\ \A j \in 1..Len(cs) : cs[j] \in Elements(cs)
  BY CallsAreSequence DEF IsCalls
<1>2. Len(cs) - 1 \in Nat /\ i \in Nat /\ 1 =< i /\ i =< Len(cs) /\ i - 1 \in Nat /\ Len(cs) - i \in Nat
  BY <1>1
<1> DEFINE front == SubSeq(cs, 1, i - 1)
           back == SubSeq(cs, i + 1, Len(cs))
           r == RemoveAt(cs, i)
<1>3. front \in Seq(Elements(cs)) /\ Len(front) = i - 1 /\ \A j \in 1..(i - 1) : front[j] = cs[j]
  BY <1>1, <1>2
<1>4. back \in Seq(Elements(cs)) /\ Len(back) = Len(cs) - i /\ \A j \in 1..(Len(cs) - i) : back[j] = cs[i + j]
  BY <1>1, <1>2, SMTT(20)
<1>5. r = front \o back
  BY DEF RemoveAt
<1> HIDE DEF front, back, r
<1>a. /\ front \o back \in Seq(Elements(cs)) /\ Len(front \o back) = Len(front) + Len(back)
      /\ \A j \in 1..(Len(front) + Len(back)) :
            (front \o back)[j] = IF j =< Len(front) THEN front[j] ELSE back[j - Len(front)]
  BY <1>3, <1>4, ConcatProperties
<1>b. Len(front) = i - 1 /\ Len(front) + Len(back) = Len(cs) - 1
  BY <1>2, <1>3, <1>4
<1>6. r \in Seq(Elements(cs)) /\ Len(r) = Len(cs) - 1
  BY <1>5, <1>a, <1>b
<1>7. \A j \in 1..(Len(cs) - 1) : r[j] = IF j =< i - 1 THEN front[j] ELSE back[j - (i - 1)]
  BY <1>5, <1>a, <1>b
<1>8. ASSUME NEW j \in 1..(Len(cs) - 1)
      PROVE  r[j] = cs[IF j < i THEN j ELSE j + 1] /\ (IF j < i THEN j ELSE j + 1) \in 1..Len(cs)
  <2>1. CASE j < i
    BY <2>1, <1>2, <1>3, <1>7
  <2>2. CASE j >= i
    <3>1. PICK k : k = j - (i - 1)
      OBVIOUS
    <3>2. k \in 1..(Len(cs) - i) /\ i + k = j + 1 /\ ~(j =< i - 1) /\ ~(j < i) /\ j + 1 \in 1..Len(cs)
      BY <2>2, <3>1, <1>2
    <3>3. r[j] = back[k] /\ back[k] = cs[j + 1]
      BY <3>1, <3>2, <1>4, <1>7, SMTT(20)
    <3>4. QED
      BY <3>2, <3>3
  <2>3. QED
    BY <2>1, <2>2, <1>2
<1>9. r = [j \in 1..(Len(cs) - 1) |-> r[j]]
  BY <1>6
<1>10. \A j \in 1..(Len(cs) - 1) : IsCall(r[j])
  BY <1>1, <1>8 DEF IsCalls
<1>11. IsCalls(r) /\ Len(r) = Len(cs) - 1 /\ DOMAIN r = 1..(Len(cs) - 1)
  BY <1>2, <1>9, <1>10, SequenceOfCalls
<1>12. QED
  BY <1>2, <1>8, <1>11 DEF r

-----------------------------------------------------------------------------
(* What a click, an answer and a callback do to the calls. *)

\* A click appends the calls it makes.
LEMMA Sending ==
    ASSUME IsCalls(calls), failures \in Nat, NEW F, NEW p, NEW new, Making(new, F), Click(p, new) \/ EndEdit(p, new)
    PROVE  /\ Only(F) /\ IsCalls(calls)' /\ page = p /\ page' = p /\ failures' = failures /\ overtaken' = overtaken
           /\ hasty' \in {hasty, hasty \cup FunctionsOf(calls)}
           /\ Len(calls) \in Nat /\ DOMAIN calls = 1..Len(calls) /\ DOMAIN calls' = 1..(Len(calls) + Len(new))
           /\ Len(new) \in Nat /\ DOMAIN new = 1..Len(new)
           /\ \A i \in 1..Len(calls) : calls'[i] = calls[i]
           /\ \A i \in 1..Len(new) : calls'[Len(calls) + i] = new[i]
<1>1. /\ calls' = calls \o new /\ page = p /\ page' = p /\ failures' = failures /\ overtaken' = overtaken
      /\ hasty' \in {hasty, hasty \cup FunctionsOf(calls)}
  BY DEF Click, EndEdit, Clicked
<1>2. IsCalls(new)
  BY DEF Making
<1>3. /\ Len(calls) \in Nat /\ DOMAIN calls = 1..Len(calls)
      /\ Len(new) \in Nat /\ DOMAIN new = 1..Len(new)
  BY <1>2, CallsAreSequence
<1>4. PICK later : later = calls'
  OBVIOUS
<1>5. later = calls \o new
  BY <1>1, <1>4
<1>6. /\ IsCalls(later) /\ DOMAIN later = 1..(Len(calls) + Len(new))
      /\ \A i \in 1..Len(calls) : later[i] = calls[i]
      /\ \A i \in 1..Len(new) : later[Len(calls) + i] = new[i]
  BY <1>2, <1>5, CallsAppended
<1>7. Grows
  BY <1>1 DEF Grows
<1>8. ASSUME NEW i \in DOMAIN later, later[i].fn \notin F
      PROVE  i \in DOMAIN calls
  <2>1. CASE i =< Len(calls)
    BY <2>1, <1>3, <1>6
  <2>2. CASE i > Len(calls)
    <3>1. PICK k : k = i - Len(calls)
      OBVIOUS
    <3>2. k \in 1..Len(new) /\ Len(calls) + k = i
      BY <2>2, <3>1, <1>3, <1>6
    <3>3. later[i] = new[k]
      BY <3>2, <1>6
    <3>4. QED
      BY <1>3, <1>8, <3>2, <3>3 DEF Making
  <2>3. QED
    BY <2>1, <2>2, <1>3, <1>6
<1>9. PICK f : f = [i \in Nat |-> i]
  OBVIOUS
<1>10. DOMAIN calls \subseteq DOMAIN later /\ DOMAIN later \subseteq Nat
  BY <1>3, <1>6
<1>11. Matching(f, F)
  BY <1>3, <1>4, <1>6, <1>8, <1>9, <1>10 DEF Matching
<1>12. Only(F)
  BY <1>1, <1>7, <1>11 DEF Only
<1>13. IsCalls(calls)'
  BY <1>4, <1>6 DEF IsCalls, Elements, IsCall
<1>14. QED
  BY <1>1, <1>3, <1>4, <1>6, <1>12, <1>13

\* An answer is set in one call, and nothing else.
LEMMA Answering ==
    ASSUME IsCalls(calls), failures \in Nat, NEW F, NEW i \in DOMAIN calls, calls[i].fn \in F, NEW answer,
           Answer(i, answer), failures' \in {failures, failures + 1}
    PROVE  /\ Only(F) /\ IsCalls(calls)' /\ failures' \in Nat /\ page' = page /\ hasty' = hasty
           /\ overtaken' = overtaken \cup {calls[j].fn : j \in {k \in 1..(i - 1) : calls[k].answer = None}}
           /\ DOMAIN calls = 1..Len(calls) /\ Len(calls) \in Nat /\ DOMAIN calls' = DOMAIN calls
           /\ calls[i].answer = None
           /\ calls'[i] = [fn |-> calls[i].fn, key |-> calls[i].key, data |-> calls[i].data, answer |-> answer]
           /\ \A j \in DOMAIN calls : j # i => calls'[j] = calls[j]
<1>1. /\ calls' = [calls EXCEPT ![i].answer = answer] /\ page' = page /\ hasty' = hasty
      /\ overtaken' = overtaken \cup {calls[j].fn : j \in {k \in 1..(i - 1) : calls[k].answer = None}}
      /\ calls[i].answer = None
  BY DEF Answer
<1>2. Len(calls) \in Nat /\ DOMAIN calls = 1..Len(calls) /\ calls = [j \in 1..Len(calls) |-> calls[j]]
  BY CallsAreSequence
<1>3. PICK c : c = [fn |-> calls[i].fn, key |-> calls[i].key, data |-> calls[i].data, answer |-> answer]
  OBVIOUS
<1>4. IsCall(c) /\ c.fn = calls[i].fn
  BY <1>3 DEF IsCall
<1>5. calls[i] = [fn |-> calls[i].fn, key |-> calls[i].key, data |-> calls[i].data, answer |-> calls[i].answer]
  BY DEF IsCalls, IsCall
<1>6. [calls[i] EXCEPT !.answer = answer] = c
  BY <1>3, <1>5
<1>7. calls' = [j \in 1..Len(calls) |-> IF j = i THEN c ELSE calls[j]]
  BY <1>1, <1>2, <1>6
<1>8. PICK later : later = calls'
  OBVIOUS
<1>9. /\ later = [j \in 1..Len(calls) |-> later[j]] /\ later[i] = c
      /\ \A j \in 1..Len(calls) : j # i => later[j] = calls[j]
  BY <1>2, <1>7, <1>8
<1>10. \A j \in 1..Len(calls) : IsCall(later[j])
  BY <1>2, <1>4, <1>9 DEF IsCalls
<1>11. IsCalls(later) /\ DOMAIN later = 1..Len(calls)
  BY <1>2, <1>9, <1>10, SequenceOfCalls
<1>12. Grows
  BY <1>1 DEF Grows
<1>13. PICK f : f = [j \in Nat |-> j]
  OBVIOUS
<1>14. DOMAIN later \subseteq Nat
  BY <1>11
<1>15. Matching(f, F)
  BY <1>2, <1>4, <1>8, <1>9, <1>11, <1>13, <1>14 DEF Matching
<1>16. IsCalls(calls)'
  BY <1>8, <1>11
<1>17. calls'[i] = c /\ DOMAIN calls' = DOMAIN calls /\ \A j \in DOMAIN calls : j # i => calls'[j] = calls[j]
  BY <1>2, <1>8, <1>9, <1>11
<1>18. Only(F)
  BY <1>1, <1>12, <1>15 DEF Only
<1>19. failures' \in Nat
  OBVIOUS
<1>20. QED
  BY <1>1, <1>2, <1>3, <1>16, <1>17, <1>18, <1>19

\* So do the ways a call is answered.
LEMMA Executing ==
    ASSUME IsCalls(calls), failures \in Nat, NEW F, NEW i \in DOMAIN calls, calls[i].fn \in F, NEW answer,
           Executed(i, answer) \/ Reply(i, answer) \/ AnswerBadly(i)
    PROVE  /\ Only(F) /\ IsCalls(calls)' /\ failures' \in Nat /\ page' = page /\ hasty' = hasty
           /\ DOMAIN calls = 1..Len(calls) /\ Len(calls) \in Nat /\ DOMAIN calls' = DOMAIN calls
           /\ \E a \in {answer, Failed, Denied} :
                /\ calls'[i] = [fn |-> calls[i].fn, key |-> calls[i].key, data |-> calls[i].data, answer |-> a]
                /\ Answer(i, a)
                /\ a = answer \/ failures' # 0
           /\ \A j \in DOMAIN calls : j # i => calls'[j] = calls[j]
           /\ overtaken' = overtaken \cup {calls[j].fn : j \in {k \in 1..(i - 1) : calls[k].answer = None}}
<1>1. PICK a \in {answer, Failed, Denied} :
        /\ Answer(i, a) /\ failures' \in {failures, failures + 1}
        /\ a = answer \/ failures' = failures + 1
  BY DEF Executed, Reply, AnswerBadly
<1>2. a = answer \/ failures' # 0
  BY <1>1
<1>3. QED
  BY <1>1, <1>2, Answering

\* A call that is heard goes, and the callback appends the calls it makes.
LEMMA Hearing ==
    ASSUME IsCalls(calls), failures \in Nat, NEW F, NEW i \in DOMAIN calls, calls[i].fn \in F, NEW new,
           Making(new, F), Hear(i, new)
    PROVE  /\ Only(F) /\ IsCalls(calls)' /\ page' = page /\ failures' = failures /\ hasty' = hasty
           /\ overtaken' = overtaken \cup {calls[j].fn : j \in 1..(i - 1)}
           /\ Len(calls) \in Nat /\ Len(calls) - 1 \in Nat /\ DOMAIN calls = 1..Len(calls)
           /\ Len(new) \in Nat /\ DOMAIN new = 1..Len(new)
           /\ DOMAIN calls' = 1..(Len(calls) - 1 + Len(new))
           /\ \A j \in 1..(Len(calls) - 1) : calls'[j] = calls[IF j < i THEN j ELSE j + 1]
           /\ \A j \in 1..Len(new) : calls'[Len(calls) - 1 + j] = new[j]
<1>1. /\ calls' = RemoveAt(calls, i) \o new /\ page' = page /\ failures' = failures /\ hasty' = hasty
      /\ overtaken' = overtaken \cup {calls[j].fn : j \in 1..(i - 1)}
  BY DEF Hear
<1>2. PICK rest : rest = RemoveAt(calls, i)
  OBVIOUS
<1>3. /\ IsCalls(rest) /\ Len(rest) = Len(calls) - 1 /\ Len(calls) - 1 \in Nat
      /\ \A j \in 1..(Len(calls) - 1) : rest[j] = calls[IF j < i THEN j ELSE j + 1]
  BY <1>2, CallRemoved
<1>4. IsCalls(new)
  BY DEF Making
<1>5. /\ Len(calls) \in Nat /\ DOMAIN calls = 1..Len(calls)
      /\ Len(new) \in Nat /\ DOMAIN new = 1..Len(new)
  BY <1>4, CallsAreSequence
<1>6. PICK later : later = calls'
  OBVIOUS
<1>7. later = rest \o new
  BY <1>1, <1>2, <1>6
<1>8. /\ IsCalls(later) /\ DOMAIN later = 1..(Len(calls) - 1 + Len(new))
      /\ \A j \in 1..(Len(calls) - 1) : later[j] = rest[j]
      /\ \A j \in 1..Len(new) : later[Len(calls) - 1 + j] = new[j]
  <2> IsCalls(rest)
    BY <1>3
  <2>1. /\ IsCalls(later) /\ DOMAIN later = 1..(Len(rest) + Len(new))
        /\ \A j \in 1..Len(rest) : later[j] = rest[j]
        /\ \A j \in 1..Len(new) : later[Len(rest) + j] = new[j]
    BY <1>4, <1>7, CallsAppended
  <2>2. QED
    BY <2>1, <1>3
<1>9. \A j \in 1..(Len(calls) - 1) : later[j] = calls[IF j < i THEN j ELSE j + 1]
  BY <1>3, <1>8
<1>10. Grows
  BY <1>1 DEF Grows
<1>11. PICK f : f = [j \in Nat |-> IF j < i THEN j ELSE j + 1]
  OBVIOUS
<1>12. ASSUME NEW j \in DOMAIN later, later[j].fn \notin F
       PROVE  j \in 1..(Len(calls) - 1)
  <2>1. CASE j =< Len(calls) - 1
    BY <2>1, <1>3, <1>8
  <2>2. CASE j > Len(calls) - 1
    <3>1. PICK k : k = j - (Len(calls) - 1)
      OBVIOUS
    <3>2. k \in 1..Len(new) /\ Len(calls) - 1 + k = j
      BY <2>2, <3>1, <1>3, <1>5, <1>8
    <3>3. later[j] = new[k]
      BY <3>2, <1>8
    <3>4. QED
      BY <1>5, <1>12, <3>2, <3>3 DEF Making
  <2>3. QED
    BY <2>1, <2>2, <1>3, <1>8
<1>13. \A j \in 1..(Len(calls) - 1) : f[j] = (IF j < i THEN j ELSE j + 1) /\ f[j] \in DOMAIN calls /\ later[j] = calls[f[j]]
  <2>1. \A j \in 1..(Len(calls) - 1) : f[j] = IF j < i THEN j ELSE j + 1
    BY <1>3, <1>11
  <2>2. \A j \in 1..(Len(calls) - 1) : (IF j < i THEN j ELSE j + 1) \in 1..Len(calls)
    BY <1>3, <1>5
  <2>3. QED
    BY <1>5, <1>9, <2>1, <2>2
<1>14. \A j, k \in 1..(Len(calls) - 1) : j < k => f[j] < f[k]
  BY <1>3, <1>5, <1>13
<1>15. ASSUME NEW k \in DOMAIN calls, calls[k].fn \notin F
       PROVE  \E j \in DOMAIN later : f[j] = k /\ later[j].fn \notin F
  <2>1. k # i
    BY <1>15
  <2>2. PICK j : j = IF k < i THEN k ELSE k - 1
    OBVIOUS
  <2>3. j \in 1..(Len(calls) - 1) /\ (IF j < i THEN j ELSE j + 1) = k
    BY <2>1, <2>2, <1>3, <1>5
  <2>4. j \in DOMAIN later /\ f[j] = k /\ later[j] = calls[k]
    BY <2>3, <1>3, <1>5, <1>8, <1>13
  <2>5. QED
    BY <1>15, <2>4
<1>16. Matching(f, F)
  BY <1>6, <1>12, <1>13, <1>14, <1>15 DEF Matching
<1>17. Only(F)
  BY <1>1, <1>10, <1>16 DEF Only
<1>18. IsCalls(calls)'
  BY <1>6, <1>8 DEF IsCalls, Elements, IsCall
<1>19. DOMAIN calls' = 1..(Len(calls) - 1 + Len(new))
  BY <1>6, <1>8
<1>20. \A j \in 1..(Len(calls) - 1) : calls'[j] = calls[IF j < i THEN j ELSE j + 1]
  BY <1>6, <1>9
<1>21. \A j \in 1..Len(new) : calls'[Len(calls) - 1 + j] = new[j]
  BY <1>6, <1>8
<1>22. QED
  BY <1>1, <1>3, <1>5, <1>17, <1>18, <1>19, <1>20, <1>21

\* So do the callbacks for success and for error.
LEMMA Listening ==
    ASSUME NEW i, NEW new, Heard(i, new) \/ Listed(i, new) \/ (Refused(i) /\ new = <<>>)
    PROVE  Hear(i, new)
BY DEF Heard, Listed, Refused

\* The page goes elsewhere, and no call is under way any more.
LEMMA Leaving ==
    ASSUME page' = "left", calls' = <<>>, UNCHANGED <<failures, overtaken, hasty>>, NEW F
    PROVE  Only(F) /\ IsCalls(calls)'
<1>1. IsCalls(<<>>)
  BY MakingNone DEF Making
<1>2. PICK later : later = calls'
  OBVIOUS
<1>3. IsCalls(later)
  BY <1>1, <1>2
<1>4. Only(F)
  BY DEF Only, Grows
<1>5. QED
  BY <1>2, <1>3, <1>4 DEF IsCalls, Elements, IsCall

-----------------------------------------------------------------------------
(* The steps of the sensor panels. *)

\* What a step of one part does at least, to the calls.
Keeps(F) == Only(F) /\ IsCalls(calls)' /\ failures' \in Nat

\* Clicks that make no call, and one.
LEMMA Clicking ==
    ASSUME IsCalls(calls), failures \in Nat, NEW F, NEW p
    PROVE  /\ Click(p, <<>>) \/ EndEdit(p, <<>>) => Keeps(F)
           /\ \A fn \in F : \A key, data :
                Click(p, <<Call(fn, key, data)>>) \/ EndEdit(p, <<Call(fn, key, data)>>) => Keeps(F)
<1>1. ASSUME NEW new, Making(new, F), Click(p, new) \/ EndEdit(p, new)
      PROVE  Keeps(F)
  BY <1>1, Sending, Zenon DEF Keeps
<1>2. QED
  BY <1>1, MakingNone, MakingOne

\* Callbacks that make no call, and one.
LEMMA Calling1 ==
    ASSUME IsCalls(calls), failures \in Nat, NEW F, NEW i \in DOMAIN calls, calls[i].fn \in F
    PROVE  /\ Heard(i, <<>>) \/ Listed(i, <<>>) \/ Refused(i) \/ Hear(i, <<>>) => Keeps(F)
           /\ \A fn \in F : \A key, data :
                Heard(i, <<Call(fn, key, data)>>) \/ Listed(i, <<Call(fn, key, data)>>) => Keeps(F)
<1>1. ASSUME NEW new, Making(new, F), Hear(i, new)
      PROVE  Keeps(F)
  BY <1>1, Hearing, Zenon DEF Keeps
<1>2. Making(<<>>, F) /\ \A fn \in F : \A key, data : Making(<<Call(fn, key, data)>>, F)
  BY MakingNone, MakingOne, Zenon
<1>3. ASSUME NEW new, Making(new, F), Heard(i, new) \/ Listed(i, new) \/ (Refused(i) /\ new = <<>>)
      PROVE  Keeps(F)
  BY <1>1, <1>3, Listening, Zenon
<1>4. QED
  BY <1>1, <1>2, <1>3, Zenon

\* The ways to answer a call.
LEMMA Replying ==
    ASSUME IsCalls(calls), failures \in Nat, NEW F, NEW i \in DOMAIN calls, calls[i].fn \in F
    PROVE  /\ \A a : Executed(i, a) \/ Reply(i, a) => Keeps(F)
           /\ AnswerBadly(i) => Keeps(F)
           /\ \A free : TableFull(i, free) => Keeps(F)
<1>1. ASSUME NEW a, Executed(i, a) \/ Reply(i, a) \/ AnswerBadly(i)
      PROVE  Keeps(F)
  BY <1>1, Executing, Zenon DEF Keeps
<1>2. QED
  BY <1>1, Zenon DEF TableFull

SensorStep ==
    \/ \E s \in Sensors : EditSensor(s) \/ CancelSensor(s) \/ UpdateSensor(s) \/ DeleteSensor(s) \/ AddExistingSensor(s)
    \/ \E p \in Panels : \E c : PickRorg(p, c) \/ PickFunction(p, c) \/ PickType(p, c)
    \/ SaveMeasureTypes \/ (\E name \in popups : Dismiss(name))
    \/ ViewSensor \/ DescribeSensor \/ ChooseDiscovered \/ CreateSensor \/ CreateLearnSensor
    \/ (\E eep \in hidden.devices : PickDevice(eep)) \/ (\E matching \in Searches : SearchSensor(matching))
    \/ ReadSensors \/ ReadAllSensors \/ StoreSensor \/ InsertSensor \/ LinkSensor \/ UnlinkSensor
    \/ SensorsHeard \/ EditRorgsHeard \/ EditFunctionsHeard \/ EditTypesHeard
    \/ EepRorgsHeard \/ EepFunctionsHeard \/ EepTypesHeard \/ MeasureTypesHeard
    \/ SensorUpdated \/ SensorDeleted \/ SensorCreated \/ SensorLinked \/ SearchHeard \/ DevicesHeard

\* The three lists of an edit are asked for as far as there is a selection.
LEMMA AskingForLists ==
    ASSUME NEW p
    PROVE  Making(EditLists(p), SensorFns)
<1>1. \A fn \in SensorFns : \A key, data : Making(<<Call(fn, key, data)>>, SensorFns)
  BY MakingOne
<1>2. Making(<<>>, SensorFns)
  BY MakingNone
<1>3. \A some, more : Making(some, SensorFns) /\ Making(more, SensorFns) => Making(some \o more, SensorFns)
  BY MakingMore
<1>4. "editRorgs" \in SensorFns /\ "editFunctions" \in SensorFns /\ "editTypes" \in SensorFns
  BY DEF SensorFns
<1> HIDE DEF SensorFns
<1> DEFINE first == <<Call("editRorgs", hidden'.sensorId, <<Rorgs, Text2(p.rorg)>>)>>
           second == IF p.function.value = None THEN <<>>
                     ELSE <<Call("editFunctions", hidden'.sensorId,
                                 <<IF Text2(p.rorg) = None THEN {} ELSE FunctionsUnder(Text2(p.rorg)), Text2(p.function)>>)>>
           third == IF None \in {p.function.value, p.type.value} THEN <<>>
                    ELSE <<Call("editTypes", hidden'.sensorId,
                                <<IF None \in {Text2(p.rorg), Text2(p.function)} THEN {}
                                  ELSE TypesUnder(Text2(p.rorg), Text2(p.function)), Text2(p.type)>>)>>
<1>5. Making(first, SensorFns)
  BY <1>1, <1>4
<1>6. Making(second, SensorFns)
  BY <1>1, <1>2, <1>4
<1>7. Making(third, SensorFns)
  BY <1>1, <1>2, <1>4
<1>8. EditLists(p) = first \o second \o third
  BY Zenon DEF EditLists
<1> HIDE DEF first, second, third
<1>9. QED
  BY <1>3, <1>5, <1>6, <1>7, <1>8

\* The steps of the sensor panels make, answer and hear calls of theirs, and leave the group alone.
LEMMA SensorSteps ==
    ASSUME Typed, SensorStep
    PROVE  Keeps(SensorFns) /\ DOMAIN hidden' = DOMAIN hidden /\ hidden'.groupId = hidden.groupId
<1>1. IsCalls(calls) /\ failures \in Nat /\ "groupId" \in DOMAIN hidden
  BY DEF Typed
<1> USE DEF SensorFns, Work
<1>2. ASSUME NEW s \in Sensors, EditSensor(s)
      PROVE  Keeps(SensorFns) /\ DOMAIN hidden' = DOMAIN hidden /\ hidden'.groupId = hidden.groupId
  <2>1. Making(EditLists(panels[s]), SensorFns)
    BY AskingForLists, Zenon
  <2>2. Click("sensors", EditLists(panels[s]))
    BY <1>2 DEF EditSensor
  <2>3. Keeps(SensorFns)
    BY <1>1, <2>1, <2>2, Sending, Zenon DEF Keeps
  <2>4. QED
    BY <1>1, <1>2, <2>3 DEF EditSensor
<1>3. ASSUME NEW s \in Sensors, CancelSensor(s) \/ UpdateSensor(s) \/ DeleteSensor(s) \/ AddExistingSensor(s)
      PROVE  Keeps(SensorFns) /\ hidden' = hidden
  BY <1>1, <1>3, Clicking DEF CancelSensor, UpdateSensor, DeleteSensor, AddExistingSensor, sensorVars
<1>4. ASSUME NEW p \in Panels, NEW c, PickRorg(p, c) \/ PickFunction(p, c) \/ PickType(p, c)
      PROVE  Keeps(SensorFns) /\ hidden' = hidden
  BY <1>1, <1>4, Clicking DEF PickRorg, PickFunction, PickType, GetEepFunctions, GetEepTypes, GetMeasureTypes
<1>5. ASSUME SaveMeasureTypes \/ \E name \in popups : Dismiss(name)
      PROVE  Keeps(SensorFns) /\ hidden' = hidden
  BY <1>1, <1>5, Clicking DEF SaveMeasureTypes, Dismiss
<1>6. ASSUME ViewSensor \/ CreateSensor \/ CreateLearnSensor
      PROVE  Keeps(SensorFns) /\ hidden' = hidden
  BY <1>1, <1>6, Clicking DEF ViewSensor, CreateSensor, CreateLearnSensor, GetEepRorgs, sensorVars
<1>7. ASSUME DescribeSensor \/ ChooseDiscovered
      PROVE  Keeps(SensorFns) /\ DOMAIN hidden' = DOMAIN hidden /\ hidden'.groupId = hidden.groupId
  BY <1>1, <1>7, Clicking DEF DescribeSensor, ChooseDiscovered
<1>8. ASSUME (\E eep \in hidden.devices : PickDevice(eep)) \/ (\E matching \in Searches : SearchSensor(matching))
      PROVE  Keeps(SensorFns) /\ hidden' = hidden
  BY <1>1, <1>8, Clicking DEF PickDevice, SearchSensor, GetEepRorgs
<1>9. ASSUME ReadSensors \/ ReadAllSensors \/ StoreSensor \/ InsertSensor
      PROVE  Keeps(SensorFns) /\ hidden' = hidden
  BY <1>1, <1>9, Replying DEF ReadSensors, ReadAllSensors, StoreSensor, InsertSensor, sensorVars
<1>10. ASSUME LinkSensor \/ UnlinkSensor
       PROVE  Keeps(SensorFns) /\ hidden' = hidden
  BY <1>1, <1>10, Replying DEF LinkSensor, UnlinkSensor
<1>11. ASSUME SensorsHeard \/ MeasureTypesHeard \/ SensorUpdated \/ SensorDeleted \/ SensorCreated
       PROVE  Keeps(SensorFns) /\ hidden' = hidden
  BY <1>1, <1>11, Calling1
     DEF SensorsHeard, MeasureTypesHeard, SensorUpdated, SensorDeleted, SensorCreated, GetSensorsFromId, sensorVars
<1>12. ASSUME EditRorgsHeard \/ EditFunctionsHeard \/ EditTypesHeard
       PROVE  Keeps(SensorFns) /\ hidden' = hidden
  BY <1>1, <1>12, Calling1 DEF EditRorgsHeard, EditFunctionsHeard, EditTypesHeard, EditListHeard
<1>13. ASSUME EepRorgsHeard
       PROVE  Keeps(SensorFns) /\ hidden' = hidden
  BY <1>1, <1>13, Calling1 DEF EepRorgsHeard, GetEepFunctions
<1>14. ASSUME EepFunctionsHeard
       PROVE  Keeps(SensorFns) /\ hidden' = hidden
  BY <1>1, <1>14, Calling1 DEF EepFunctionsHeard, GetEepTypes
<1>15. ASSUME EepTypesHeard
       PROVE  Keeps(SensorFns) /\ hidden' = hidden
  BY <1>1, <1>15, Calling1 DEF EepTypesHeard, GetMeasureTypes
<1>16. ASSUME SearchHeard \/ SensorLinked
       PROVE  Keeps(SensorFns) /\ DOMAIN hidden' = DOMAIN hidden /\ hidden'.groupId = hidden.groupId
  BY <1>1, <1>16, Calling1 DEF SearchHeard, SensorLinked, GetSensorsFromId
<1>17. ASSUME DevicesHeard
       PROVE  Keeps(SensorFns) /\ DOMAIN hidden' = DOMAIN hidden /\ hidden'.groupId = hidden.groupId
  BY <1>1, <1>17, Calling1 DEF DevicesHeard, GetEepRorgs
<1>18. QED
  BY <1>2, <1>3, <1>4, <1>5, <1>6, <1>7, <1>8, <1>9, <1>10, <1>11, <1>12, <1>13, <1>14, <1>15, <1>16, <1>17
     DEF SensorStep

-----------------------------------------------------------------------------
(* The steps of the other parts. *)

GroupStep ==
    \/ (\E g \in Groups : SelectGroup(g)) \/ TypeGroup \/ AddGroup \/ EditGroup \/ UpdateGroup \/ CancelGroup \/ DeleteGroup
    \/ ReadGroups \/ ReadGroup \/ InsertGroup \/ StoreGroup \/ RemoveGroup
    \/ GroupsHeard \/ GroupHeard \/ GroupAdded \/ GroupUpdated \/ GroupDeleted

\* Who selects a group has its sensors loaded as well.
GroupCalls == GroupFns \cup {"getSensorsFromId"}

\* The steps of the group panel.
LEMMA GroupSteps ==
    ASSUME Typed, GroupStep
    PROVE  Keeps(GroupCalls) /\ DOMAIN hidden' = DOMAIN hidden
<1>1. IsCalls(calls) /\ failures \in Nat
  BY DEF Typed
<1> USE DEF GroupCalls, GroupFns, OnGroups, GetGroups
<1>2. ASSUME NEW g \in Groups, SelectGroup(g)
      PROVE  Keeps(GroupCalls) /\ DOMAIN hidden' = DOMAIN hidden
  <2>1. Making(<<GetGroup(g)>>, GroupCalls) /\ Making(<<GetSensorsFromId(g)>>, GroupCalls)
    BY MakingOne DEF GetGroup, GetSensorsFromId
  <2>2. <<GetGroup(g), GetSensorsFromId(g)>> = <<GetGroup(g)>> \o <<GetSensorsFromId(g)>>
    OBVIOUS
  <2>3. Making(<<GetGroup(g), GetSensorsFromId(g)>>, GroupCalls)
    BY <2>1, <2>2, MakingMore
  <2>4. Click("groups", <<GetGroup(g), GetSensorsFromId(g)>>) /\ DOMAIN hidden' = DOMAIN hidden
    BY <1>2 DEF SelectGroup
  <2>5. QED
    BY <1>1, <2>3, <2>4, Sending, Zenon DEF Keeps
<1>3. ASSUME TypeGroup \/ AddGroup \/ EditGroup \/ UpdateGroup \/ CancelGroup \/ DeleteGroup
      PROVE  Keeps(GroupCalls) /\ DOMAIN hidden' = DOMAIN hidden
  BY <1>1, <1>3, Clicking DEF TypeGroup, AddGroup, EditGroup, UpdateGroup, CancelGroup, DeleteGroup, sensorVars
<1>4. ASSUME ReadGroups \/ ReadGroup \/ InsertGroup \/ StoreGroup
      PROVE  Keeps(GroupCalls) /\ DOMAIN hidden' = DOMAIN hidden
  BY <1>1, <1>4, Replying DEF ReadGroups, ReadGroup, InsertGroup, StoreGroup, sensorVars
<1>5. ASSUME RemoveGroup
      PROVE  Keeps(GroupCalls) /\ DOMAIN hidden' = DOMAIN hidden
  BY <1>1, <1>5, Replying DEF RemoveGroup
<1>6. ASSUME GroupsHeard \/ GroupHeard \/ GroupAdded \/ GroupUpdated \/ GroupDeleted
      PROVE  Keeps(GroupCalls) /\ DOMAIN hidden' = DOMAIN hidden
  BY <1>1, <1>6, Calling1 DEF GroupsHeard, GroupHeard, GroupAdded, GroupUpdated, GroupDeleted, sensorVars
<1>7. QED
  BY <1>2, <1>3, <1>4, <1>5, <1>6 DEF GroupStep

LocationStep ==
    \/ ManageLocation \/ SaveLocation \/ AddRootLocation \/ CancelLocation \/ SaveForm
    \/ (\E l \in Places : SelectLocation(l) \/ AddLocation(l) \/ EditLocation(l) \/ DeleteLocation(l))
    \/ (\E t \in PlaceTypes : ChooseType(t))
    \/ ReadPlaces \/ ReadPlace \/ ReadTypes \/ StorePlace \/ RemovePlace
    \/ RootsHeard \/ ChildrenHeard \/ PlaceHeard \/ TypesHeard \/ PlaceSaved

\* The callback of editLocation leaves the type with a call that is under way.
LEMMA HearingPlace ==
    ASSUME IsCalls(calls), failures \in Nat, NEW i \in DOMAIN calls, calls[i].fn = "editLocation",
           UNCHANGED <<page, clicks, failures, hasty>>,
           overtaken' = overtaken \cup {calls[j].fn : j \in 1..(i - 1)},
           calls' = [j \in 1..(Len(calls) - 1) |->
                LET d == RemoveAt(calls, i)[j]
                IN  IF d.fn = "editLocationTypes" /\ d.key = calls[i].data /\ calls[i].answer # Null
                    THEN [d EXCEPT !.data = calls[i].answer.type] ELSE d]
    PROVE  /\ Keeps(LocationFns)
           /\ Len(calls) - 1 \in Nat /\ DOMAIN calls = 1..Len(calls) /\ DOMAIN calls' = 1..(Len(calls) - 1)
           /\ \A j \in 1..(Len(calls) - 1) :
                LET d == calls[IF j < i THEN j ELSE j + 1]
                IN  /\ calls'[j].fn = d.fn /\ calls'[j].key = d.key /\ calls'[j].answer = d.answer
                    /\ d.fn # "editLocationTypes" => calls'[j] = d
<1>1. PICK rest : rest = RemoveAt(calls, i)
  OBVIOUS
<1>2. /\ IsCalls(rest) /\ Len(rest) = Len(calls) - 1 /\ Len(calls) - 1 \in Nat /\ DOMAIN rest = 1..(Len(calls) - 1)
      /\ \A j \in 1..(Len(calls) - 1) : rest[j] = calls[IF j < i THEN j ELSE j + 1]
  BY <1>1, CallRemoved
<1>3. Len(calls) \in Nat /\ DOMAIN calls = 1..Len(calls)
  BY CallsAreSequence
<1>4. PICK later : later = calls'
  OBVIOUS
<1>5. later = [j \in 1..(Len(calls) - 1) |->
                IF rest[j].fn = "editLocationTypes" /\ rest[j].key = calls[i].data /\ calls[i].answer # Null
                THEN [rest[j] EXCEPT !.data = calls[i].answer.type] ELSE rest[j]]
  BY <1>1, <1>4, Zenon
<1>6. ASSUME NEW j \in 1..(Len(calls) - 1)
      PROVE  /\ IsCall(later[j]) /\ later[j].fn = rest[j].fn /\ later[j].key = rest[j].key
             /\ later[j].answer = rest[j].answer
             /\ rest[j].fn # "editLocationTypes" => later[j] = rest[j]
  <2>1. rest[j] = [fn |-> rest[j].fn, key |-> rest[j].key, data |-> rest[j].data, answer |-> rest[j].answer]
    BY <1>2 DEF IsCalls, IsCall
  <2>2. CASE rest[j].fn = "editLocationTypes" /\ rest[j].key = calls[i].data /\ calls[i].answer # Null
    <3>1. PICK t : t = calls[i].answer.type
      OBVIOUS
    <3>2. later[j] = [rest[j] EXCEPT !.data = t]
      BY <1>5, <2>2, <3>1
    <3>3. later[j] = [fn |-> rest[j].fn, key |-> rest[j].key, data |-> t, answer |-> rest[j].answer]
      BY <2>1, <3>2
    <3>4. QED
      BY <2>2, <3>3 DEF IsCall
  <2>3. CASE ~(rest[j].fn = "editLocationTypes" /\ rest[j].key = calls[i].data /\ calls[i].answer # Null)
    <3>1. later[j] = rest[j]
      BY <1>5, <2>3
    <3>2. IsCall(rest[j])
      BY <1>2 DEF IsCalls
    <3>3. QED
      BY <3>1, <3>2
  <2>4. QED
    BY <2>2, <2>3
<1>7. later = [j \in 1..(Len(calls) - 1) |-> later[j]]
  BY <1>5
<1>8. IsCalls(later) /\ DOMAIN later = 1..(Len(calls) - 1)
  BY <1>2, <1>6, <1>7, SequenceOfCalls
<1>9. Grows
  BY DEF Grows
<1>10. PICK f : f = [j \in Nat |-> IF j < i THEN j ELSE j + 1]
  OBVIOUS
<1>11. \A j \in 1..(Len(calls) - 1) : f[j] = IF j < i THEN j ELSE j + 1
  BY <1>2, <1>10
<1>12. \A j \in 1..(Len(calls) - 1) : (IF j < i THEN j ELSE j + 1) \in 1..Len(calls)
  BY <1>2, <1>3
<1>13. \A j \in 1..(Len(calls) - 1) : f[j] \in DOMAIN calls /\ rest[j] = calls[f[j]]
  BY <1>2, <1>3, <1>11, <1>12
<1>14. \A j, k \in 1..(Len(calls) - 1) : j < k => f[j] < f[k]
  BY <1>2, <1>3, <1>11
<1>15. ASSUME NEW k \in DOMAIN calls, calls[k].fn \notin LocationFns
       PROVE  \E j \in DOMAIN later : f[j] = k /\ later[j].fn \notin LocationFns
  <2>1. k # i
    BY <1>15 DEF LocationFns
  <2>2. PICK j : j = IF k < i THEN k ELSE k - 1
    OBVIOUS
  <2>3. j \in 1..(Len(calls) - 1) /\ (IF j < i THEN j ELSE j + 1) = k
    BY <2>1, <2>2, <1>2, <1>3
  <2>4. j \in DOMAIN later /\ f[j] = k /\ later[j].fn = calls[k].fn
    BY <2>3, <1>2, <1>6, <1>8, <1>11
  <2>5. QED
    BY <1>15, <2>4
<1>16. \A j \in DOMAIN later : later[j].fn \notin LocationFns => later[j] = calls[f[j]]
  BY <1>6, <1>8, <1>13 DEF LocationFns
<1>17. Matching(f, LocationFns)
  BY <1>4, <1>8, <1>13, <1>14, <1>15, <1>16 DEF Matching
<1>18. Keeps(LocationFns)
  BY <1>4, <1>8, <1>9, <1>17 DEF Keeps, Only
<1>19. QED
  BY <1>2, <1>3, <1>4, <1>6, <1>8, <1>18

\* The steps of the pop-up "Manage location".
LEMMA LocationSteps ==
    ASSUME Typed, LocationStep
    PROVE  Keeps(LocationFns) /\ hidden' = hidden
<1>1. IsCalls(calls) /\ failures \in Nat
  BY DEF Typed
<1> USE DEF LocationFns, InLocations, AnotherForm, GetRoots, sensorVars
<1>2. ASSUME ManageLocation \/ SaveLocation \/ AddRootLocation \/ CancelLocation
      PROVE  Keeps(LocationFns) /\ hidden' = hidden
  BY <1>1, <1>2, Clicking DEF ManageLocation, SaveLocation, AddRootLocation, CancelLocation
<1>3. ASSUME SaveForm
      PROVE  Keeps(LocationFns) /\ hidden' = hidden
  BY <1>1, <1>3, Clicking DEF SaveForm
<1>4. ASSUME NEW l \in Places, SelectLocation(l) \/ AddLocation(l) \/ DeleteLocation(l)
      PROVE  Keeps(LocationFns) /\ hidden' = hidden
  BY <1>1, <1>4, Clicking DEF SelectLocation, AddLocation, DeleteLocation
<1>5. ASSUME NEW l \in Places, EditLocation(l)
      PROVE  Keeps(LocationFns) /\ hidden' = hidden
  <2>1. /\ Making(<<Call("editLocation", l, clicks)>>, LocationFns)
        /\ Making(<<Call("editLocationTypes", clicks, None)>>, LocationFns)
    BY MakingOne
  <2>2. PICK new : new = <<Call("editLocation", l, clicks), Call("editLocationTypes", clicks, None)>>
    OBVIOUS
  <2>3. new = <<Call("editLocation", l, clicks)>> \o <<Call("editLocationTypes", clicks, None)>>
    BY <2>2
  <2>4. Making(new, LocationFns)
    BY <2>1, <2>3, MakingMore
  <2>5. Click("locations", new) /\ hidden' = hidden
    BY <1>5, <2>2, Zenon DEF EditLocation
  <2>6. QED
    BY <1>1, <2>4, <2>5, Sending, Zenon DEF Keeps
<1>6. ASSUME NEW t \in PlaceTypes, ChooseType(t)
      PROVE  Keeps(LocationFns) /\ hidden' = hidden
  BY <1>1, <1>6, Clicking DEF ChooseType
<1>7. ASSUME ReadPlaces \/ ReadPlace \/ ReadTypes \/ RemovePlace
      PROVE  Keeps(LocationFns) /\ hidden' = hidden
  BY <1>1, <1>7, Replying DEF ReadPlaces, ReadPlace, ReadTypes, RemovePlace
<1>8. ASSUME StorePlace
      PROVE  Keeps(LocationFns) /\ hidden' = hidden
  BY <1>1, <1>8, Replying DEF StorePlace
<1>9. ASSUME RootsHeard \/ ChildrenHeard \/ TypesHeard \/ PlaceSaved
      PROVE  Keeps(LocationFns) /\ hidden' = hidden
  BY <1>1, <1>9, Calling1 DEF RootsHeard, ChildrenHeard, TypesHeard, PlaceSaved
<1>10. ASSUME PlaceHeard
       PROVE  Keeps(LocationFns) /\ hidden' = hidden
  BY <1>1, <1>10, HearingPlace, Zenon DEF PlaceHeard
<1>11. QED
  BY <1>2, <1>3, <1>4, <1>5, <1>6, <1>7, <1>8, <1>9, <1>10 DEF LocationStep

UserPanelStep ==
    \/ (\E u \in Users : EditUser(u) \/ DeleteUser(u)) \/ (\E n \in Names : Rename(n))
    \/ AddUser \/ ChangeStatus \/ SaveUser \/ CloseUser \/ EditProfile \/ CancelProfile \/ UpdateProfile
    \/ ReadUsers \/ ReadUser \/ StoreUser \/ InsertUser \/ DeactivateUser
    \/ UsersHeard \/ ProfileHeard \/ UserHeard \/ UserSaved \/ ProfileSaved

\* The steps of the page of users.
LEMMA UserSteps ==
    ASSUME Typed, UserPanelStep
    PROVE  Keeps(UserFns)
<1>1. IsCalls(calls) /\ failures \in Nat
  BY DEF Typed
<1> USE DEF UserFns, UserClick, GetUser, GetUsers
<1>2. ASSUME NEW u \in Users, EditUser(u) \/ DeleteUser(u)
      PROVE  Keeps(UserFns)
  BY <1>1, <1>2, Clicking DEF EditUser, DeleteUser
<1>3. ASSUME (\E n \in Names : Rename(n)) \/ AddUser \/ ChangeStatus \/ CloseUser
      PROVE  Keeps(UserFns)
  BY <1>1, <1>3, Clicking DEF Rename, AddUser, ChangeStatus, CloseUser
<1>4. ASSUME SaveUser
      PROVE  Keeps(UserFns)
  BY <1>1, <1>4, Clicking DEF SaveUser
<1>5. ASSUME EditProfile \/ CancelProfile \/ UpdateProfile
      PROVE  Keeps(UserFns)
  BY <1>1, <1>5, Clicking DEF EditProfile, CancelProfile, UpdateProfile
<1>6. ASSUME ReadUsers \/ ReadUser
      PROVE  Keeps(UserFns)
  BY <1>1, <1>6, Replying DEF ReadUsers, ReadUser
<1>7. ASSUME StoreUser \/ InsertUser \/ DeactivateUser
      PROVE  Keeps(UserFns)
  BY <1>1, <1>7, Replying DEF StoreUser, InsertUser, DeactivateUser
<1>8. ASSUME UsersHeard \/ ProfileHeard \/ UserHeard \/ UserSaved \/ ProfileSaved
      PROVE  Keeps(UserFns)
  BY <1>1, <1>8, Calling1 DEF UsersHeard, ProfileHeard, UserHeard, UserSaved, ProfileSaved
<1>9. QED
  BY <1>2, <1>3, <1>4, <1>5, <1>6, <1>7, <1>8 DEF UserPanelStep

LoginStep ==
    \/ (\E a \in Accounts \cup {None}, right \in BOOLEAN : TypeAccount(a, right)) \/ Login \/ Logout
    \/ CheckPassword \/ ReadAccount \/ RenewToken
    \/ PasswordAccepted \/ LoginRefused \/ AccountHeard

\* The steps of the login page.
LEMMA LoginSteps ==
    ASSUME Typed, LoginStep
    PROVE  Keeps(LoginFns)
<1>1. IsCalls(calls) /\ failures \in Nat
  BY DEF Typed
<1> USE DEF LoginFns
<1>2. ASSUME (\E a \in Accounts \cup {None}, right \in BOOLEAN : TypeAccount(a, right)) \/ Login \/ Logout
      PROVE  Keeps(LoginFns)
  BY <1>1, <1>2, Clicking DEF TypeAccount, Login, Logout
<1>3. ASSUME CheckPassword \/ ReadAccount \/ RenewToken
      PROVE  Keeps(LoginFns)
  BY <1>1, <1>3, Replying DEF CheckPassword, ReadAccount, RenewToken
<1>4. ASSUME PasswordAccepted \/ LoginRefused
      PROVE  Keeps(LoginFns)
  BY <1>1, <1>4, Calling1 DEF PasswordAccepted, LoginRefused
<1>5. ASSUME AccountHeard
      PROVE  Keeps(LoginFns)
  BY <1>1, <1>5, Calling1, Leaving DEF AccountHeard, Keeps
<1>6. QED
  BY <1>2, <1>3, <1>4, <1>5 DEF LoginStep

ConfigStep ==
    \/ EditConfig \/ CancelConfig \/ UpdateConfig \/ (\E z \in Zones : TypeZone(z))
    \/ ReadConfig \/ StoreConfig \/ ConfigHeard \/ ConfigUpdated \/ ConfigRefused

\* The steps of the panel of the configuration.
LEMMA ConfigSteps ==
    ASSUME Typed, ConfigStep
    PROVE  Keeps(ConfigFns)
<1>1. IsCalls(calls) /\ failures \in Nat
  BY DEF Typed
<1> USE DEF ConfigFns, GetConfig
<1>2. ASSUME EditConfig \/ CancelConfig \/ UpdateConfig \/ (\E z \in Zones : TypeZone(z))
      PROVE  Keeps(ConfigFns)
  BY <1>1, <1>2, Clicking DEF EditConfig, CancelConfig, UpdateConfig, TypeZone
<1>3. ASSUME ReadConfig \/ StoreConfig
      PROVE  Keeps(ConfigFns)
  BY <1>1, <1>3, Replying DEF ReadConfig, StoreConfig
<1>4. ASSUME ConfigHeard \/ ConfigUpdated \/ ConfigRefused
      PROVE  Keeps(ConfigFns)
  BY <1>1, <1>4, Calling1 DEF ConfigHeard, ConfigUpdated, ConfigRefused
<1>5. QED
  BY <1>2, <1>3, <1>4 DEF ConfigStep

SearchStep ==
    \/ (\E term \in Terms : SearchSensorSelection(term) \/ SearchGroups(term))
    \/ SelectionHeard \/ GroupsFound \/ GroupFilled

\* The steps of the search.
LEMMA SearchSteps ==
    ASSUME Typed, SearchStep
    PROVE  Keeps(SearchFns)
<1>1. IsCalls(calls) /\ failures \in Nat
  BY DEF Typed
<1> USE DEF SearchFns
<1>2. ASSUME NEW term \in Terms, SearchSensorSelection(term) \/ SearchGroups(term)
      PROVE  Keeps(SearchFns)
  BY <1>1, <1>2, Clicking DEF SearchSensorSelection, SearchGroups
<1>3. ASSUME SelectionHeard \/ GroupFilled
      PROVE  Keeps(SearchFns)
  BY <1>1, <1>3, Calling1 DEF SelectionHeard, GroupFilled
<1>4. ASSUME NEW groups, IsFiniteSet(groups)
      PROVE  Making(CallsFor(groups), SearchFns)
  <2>1. PICK n : n = 2 * Cardinality(groups)
    OBVIOUS
  <2>2. n \in Nat
    BY <1>4, <2>1, FS_CardinalityType
  <2>3. PICK new : new = CallsFor(groups)
    OBVIOUS
  <2>4. PICK g : g = [k \in 1..n |-> SetToSeq(groups)[(k + 1) \div 2]]
    OBVIOUS
  <2>5. new = [k \in 1..n |-> Call(IF k % 2 = 1 THEN "getGroupDetails" ELSE "getGroupSensors", g[k], None)]
    BY <2>1, <2>3, <2>4, Zenon DEF CallsFor
  <2>6. \A k \in 1..n : IsCall(new[k]) /\ new[k].fn \in SearchFns
    <3>1. ASSUME NEW k \in 1..n
          PROVE  IsCall(new[k]) /\ new[k].fn \in SearchFns
      <4>1. PICK fn \in SearchFns : fn = IF k % 2 = 1 THEN "getGroupDetails" ELSE "getGroupSensors"
        OBVIOUS
      <4>2. new[k] = Call(fn, g[k], None)
        BY <2>5, <4>1, Zenon
      <4>3. QED
        BY <4>1, <4>2, NewCall
    <3>2. QED
      BY <3>1
  <2>7. new = [k \in 1..n |-> new[k]]
    BY <2>5, Zenon
  <2>8. IsCalls(new) /\ DOMAIN new = 1..n
    BY <2>2, <2>6, <2>7, SequenceOfCalls
  <2>9. QED
    BY <2>3, <2>6, <2>8 DEF Making
<1>5. ASSUME GroupsFound
      PROVE  Keeps(SearchFns)
  <2>1. PICK i \in DOMAIN calls : calls[i].fn = "searchGroups" /\ Listed(i, CallsFor(GroupsFor(calls[i].key)))
    BY <1>5 DEF GroupsFound
  <2>2. IsFiniteSet(GroupsFor(calls[i].key))
    BY SearchAssumption, FS_Subset DEF GroupsFor
  <2>3. Making(CallsFor(GroupsFor(calls[i].key)), SearchFns)
    BY <1>4, <2>2
  <2>4. QED
    BY <1>1, <2>1, <2>3, Hearing, Listening, Zenon DEF Keeps
<1>6. QED
  BY <1>2, <1>3, <1>5 DEF SearchStep

GraphStep == DisplayGraphs \/ PlotPoint \/ DownloadCsv

\* A step that leaves the calls alone.
LEMMA Idling ==
    ASSUME Typed, UNCHANGED <<page, calls, failures, overtaken, hasty>>, NEW F
    PROVE  Keeps(F)
<1>1. IsCalls(calls) /\ failures \in Nat /\ DOMAIN calls = 1..Len(calls) /\ Len(calls) \in Nat
  BY CallsAreSequence DEF Typed
<1>2. PICK f : f = [i \in Nat |-> i]
  OBVIOUS
<1>3. Matching(f, F)
  BY <1>1, <1>2 DEF Matching
<1>4. IsCalls(calls)' /\ Grows
  BY <1>1 DEF Grows
<1>5. QED
  BY <1>1, <1>3, <1>4 DEF Keeps, Only

\* The steps of the graphs.
LEMMA GraphSteps ==
    ASSUME Typed, GraphStep, NEW F
    PROVE  Keeps(F)
<1>1. CASE DisplayGraphs \/ PlotPoint
  BY <1>1, Idling DEF DisplayGraphs, PlotPoint, web
<1>2. CASE DownloadCsv
  BY <1>2, Clicking DEF DownloadCsv, Typed
<1>3. QED
  BY <1>1, <1>2 DEF GraphStep

\* A step is one of a part, which leaves the other parts alone, or one of any call.
LEMMA EachStep ==
    ASSUME [Next]_vars
    PROVE  \/ SensorStep /\ OfSensors
           \/ GroupStep /\ OfGroups
           \/ LocationStep /\ OfLocations
           \/ UserPanelStep /\ OfUsers
           \/ LoginStep /\ OfLogin
           \/ ConfigStep /\ OfConfig
           \/ SearchStep /\ OfSearch
           \/ GraphStep /\ OfGraphs
           \/ CallFails \/ CallRefused \/ PageRedirected \/ Timer \/ UNCHANGED vars
<1>1. CASE UserStep
  BY <1>1, Zenon
     DEF UserStep, SensorStep, GroupStep, LocationStep, UserPanelStep, LoginStep, ConfigStep, SearchStep, GraphStep
<1>2. CASE Servlet
  BY <1>2, Zenon DEF Servlet, SensorStep, GroupStep, LocationStep, UserPanelStep, LoginStep, ConfigStep
<1>3. CASE Browser
  BY <1>3, Zenon DEF Browser, SensorStep, GroupStep, LocationStep, UserPanelStep, LoginStep, ConfigStep, SearchStep
<1>4. QED
  BY <1>1, <1>2, <1>3, Zenon DEF Next

\* Any call may fail, be refused, or lead elsewhere.
LEMMA AnyCall ==
    ASSUME Typed, CallFails \/ CallRefused \/ PageRedirected
    PROVE  /\ UNCHANGED panelVars
           /\ IsCalls(calls)' /\ failures' \in Nat /\ Grows
           /\ \/ /\ failures' # 0 /\ page' = page /\ DOMAIN calls' = DOMAIN calls
                 /\ \A j \in DOMAIN calls :
                        \/ calls'[j] = calls[j]
                        \/ \E bad \in {Failed, Denied} :
                            calls'[j] = [fn |-> calls[j].fn, key |-> calls[j].key, data |-> calls[j].data, answer |-> bad]
              \/ page' = "left" /\ calls' = <<>>
              \/ \E i \in DOMAIN calls :
                    /\ calls[i].fn \notin {"login", "getConfig", "updateConfig"}
                    /\ Refused(i) /\ Only({calls[i].fn}) /\ page' = page /\ failures' = failures
                    /\ \A F : calls[i].fn \in F => Keeps(F)
<1>1. IsCalls(calls) /\ failures \in Nat
  BY DEF Typed
<1>2. CASE CallFails
  <2>1. PICK i \in DOMAIN calls : AnswerBadly(i) /\ UNCHANGED panelVars
    BY <1>2 DEF CallFails
  <2>2. PICK F : F = {calls[i].fn}
    OBVIOUS
  <2>3. PICK a \in {Failed, Denied} : Answer(i, a) /\ failures' = failures + 1
    BY <2>1 DEF AnswerBadly
  <2>4. /\ Only(F) /\ IsCalls(calls)' /\ failures' \in Nat /\ page' = page /\ DOMAIN calls' = DOMAIN calls
        /\ calls'[i] = [fn |-> calls[i].fn, key |-> calls[i].key, data |-> calls[i].data, answer |-> a]
        /\ \A j \in DOMAIN calls : j # i => calls'[j] = calls[j]
    BY <1>1, <2>2, <2>3, Answering
  <2>5. failures' # 0
    BY <1>1, <2>3
  <2>6. QED
    BY <2>1, <2>4, <2>5, Zenon DEF Only
<1>3. CASE CallRefused
  <2>1. PICK i \in DOMAIN calls :
            /\ calls[i].fn \notin {"login", "getConfig", "updateConfig"} /\ Refused(i) /\ UNCHANGED panelVars
    BY <1>3, Zenon DEF CallRefused
  <2>2. \A F : calls[i].fn \in F => Keeps(F)
    BY <1>1, <2>1, Calling1, Zenon
  <2>3. PICK F : F = {calls[i].fn}
    OBVIOUS
  <2>4. Hear(i, <<>>)
    BY <2>1, Listening, Zenon
  <2>5. Keeps(F) /\ page' = page /\ failures' = failures
    BY <2>2, <2>3, <2>4 DEF Hear
  <2>6. QED
    BY <2>1, <2>2, <2>3, <2>5, Zenon DEF Keeps, Only
<1>4. CASE PageRedirected
  <2>1. /\ page' = "left" /\ calls' = <<>> /\ UNCHANGED <<failures, overtaken, hasty>> /\ UNCHANGED panelVars
    BY <1>4 DEF PageRedirected, Redirected
  <2>2. \A F : Only(F) /\ IsCalls(calls)'
    BY <2>1, Leaving, Zenon
  <2>3. Grows
    BY <2>2, Zenon DEF Only
  <2>4. QED
    BY <1>1, <2>1, <2>2, <2>3
<1>5. QED
  BY <1>2, <1>3, <1>4

\* The calls are calls at first.
LEMMA TypedAtFirst ==
    ASSUME Init
    PROVE  Typed
<1>1. Making(CallsOfReady, {"getGroups", "getConfig", "getUser", "getUsers"})
  <2> DEFINE F == {"getGroups", "getConfig", "getUser", "getUsers"}
  <2>1. /\ Making(<<GetGroups>>, F) /\ Making(<<GetConfig>>, F) /\ Making(<<GetUser>>, F) /\ Making(<<GetUsers>>, F)
    BY MakingOne DEF GetGroups, GetConfig, GetUser, GetUsers
  <2>2. Making(<<>>, F)
    BY MakingNone
  <2>3. <<GetUser, GetUsers>> = <<GetUser>> \o <<GetUsers>>
    OBVIOUS
  <2>4. Making(<<GetUser, GetUsers>>, F)
    BY <2>1, <2>3, MakingMore
  <2> HIDE DEF F
  <2>5. Making(CallsOfReady, F)
    BY <2>1, <2>2, <2>4, Zenon DEF CallsOfReady
  <2>6. QED
    BY <2>5 DEF F
<1>2. calls = CallsOfReady /\ failures = 0 /\ SensorInit
  BY DEF Init
<1>3. IsCalls(calls) /\ failures \in Nat
  BY <1>1, <1>2 DEF Making
<1>4. DOMAIN hidden = {"sensorId", "groupId", "results", "devices"}
  BY <1>2 DEF SensorInit
<1>5. QED
  BY <1>3, <1>4 DEF Typed

\* They stay so.
LEMMA TypedNext ==
    ASSUME Typed, [Next]_vars
    PROVE  Typed'
<1>1. CASE SensorStep /\ OfSensors
  BY <1>1, SensorSteps DEF Typed, Keeps
<1>2. CASE GroupStep /\ OfGroups
  BY <1>2, GroupSteps DEF Typed, Keeps
<1>3. CASE LocationStep /\ OfLocations
  BY <1>3, LocationSteps DEF Typed, Keeps
<1>4. CASE UserPanelStep /\ OfUsers
  BY <1>4, UserSteps DEF Typed, Keeps, OfUsers, sensorVars
<1>5. CASE LoginStep /\ OfLogin
  BY <1>5, LoginSteps DEF Typed, Keeps, OfLogin, sensorVars
<1>6. CASE ConfigStep /\ OfConfig
  BY <1>6, ConfigSteps DEF Typed, Keeps, OfConfig, sensorVars
<1>7. CASE SearchStep /\ OfSearch
  BY <1>7, SearchSteps DEF Typed, Keeps, OfSearch, sensorVars
<1>8. CASE GraphStep /\ OfGraphs
  BY <1>8, GraphSteps DEF Typed, Keeps, OfGraphs, sensorVars
<1>9. CASE CallFails \/ CallRefused \/ PageRedirected
  BY <1>9, AnyCall DEF Typed, panelVars, sensorVars
<1>10. CASE Timer
  BY <1>10 DEF Typed, Timer, HideAlert, web, sensorVars
<1>11. CASE UNCHANGED vars
  BY <1>11 DEF Typed, vars, web, panelVars, sensorVars
<1>12. QED
  BY <1>1, <1>2, <1>3, <1>4, <1>5, <1>6, <1>7, <1>8, <1>9, <1>10, <1>11, EachStep

\* The calls under way are calls, however the pages are used.
THEOREM TypedAlways == Spec => []Typed
<1>1. Init => Typed
  BY TypedAtFirst
<1>2. Typed /\ [Next]_vars => Typed'
  BY TypedNext
<1>3. QED
  BY <1>1, <1>2, PTL DEF Spec

-----------------------------------------------------------------------------
(* What the steps of the other parts leave. *)

\* The calls of G are left alone by a step that is about calls of F only.
LEMMA LeftAlone ==
    ASSUME NEW F, NEW G, F \cap G = {}, Only(F)
    PROVE  /\ Grows
           /\ page' = page \/ page' = "left"
           /\ \A j \in DOMAIN calls' : calls'[j].fn \in G => \E i \in DOMAIN calls : calls[i] = calls'[j]
           /\ page' # "left" => \A i \in DOMAIN calls : calls[i].fn \in G => \E j \in DOMAIN calls' : calls'[j] = calls[i]
           /\ page' # "left" => \A fn \in G : fn \in FunctionsOf(calls) => fn \in FunctionsOf(calls)'
<1>1. CASE page' = "left" /\ calls' = <<>>
  BY <1>1 DEF Only
<1>2. CASE page' = page /\ \E f : Matching(f, F)
  BY <1>2 DEF Only, Matching, FunctionsOf
<1>3. QED
  BY <1>1, <1>2 DEF Only

\* A call under way after a step was under way before, or is one of those made.
Comes(c, new) == (\E i \in DOMAIN calls : c = calls[i]) \/ (\E k \in DOMAIN new : c = new[k])

\* After a click.
LEMMA AfterClick ==
    ASSUME IsCalls(calls), failures \in Nat, NEW p, NEW new, IsCalls(new), Click(p, new) \/ EndEdit(p, new)
    PROVE  /\ \A j \in DOMAIN calls' : Comes(calls'[j], new)
           /\ \A i \in DOMAIN calls : i \in DOMAIN calls' /\ calls'[i] = calls[i]
           /\ page = p /\ page' = page /\ failures' = failures /\ overtaken' = overtaken
           /\ hasty' \in {hasty, hasty \cup FunctionsOf(calls)} /\ (EndEdit(p, new) => hasty' = hasty \cup FunctionsOf(calls))
<1>1. PICK F : F = {new[k].fn : k \in DOMAIN new}
  OBVIOUS
<1>2. Making(new, F)
  BY <1>1 DEF Making
<1>3. /\ page = p /\ page' = p /\ failures' = failures /\ overtaken' = overtaken
      /\ hasty' \in {hasty, hasty \cup FunctionsOf(calls)}
      /\ Len(calls) \in Nat /\ DOMAIN calls = 1..Len(calls) /\ DOMAIN calls' = 1..(Len(calls) + Len(new))
      /\ Len(new) \in Nat /\ DOMAIN new = 1..Len(new)
      /\ \A i \in 1..Len(calls) : calls'[i] = calls[i]
      /\ \A i \in 1..Len(new) : calls'[Len(calls) + i] = new[i]
  BY <1>2, Sending
<1>4. ASSUME NEW j \in DOMAIN calls'
      PROVE  Comes(calls'[j], new)
  <2>1. CASE j =< Len(calls)
    BY <2>1, <1>3 DEF Comes
  <2>2. CASE j > Len(calls)
    <3>1. PICK k : k = j - Len(calls)
      OBVIOUS
    <3>2. k \in 1..Len(new) /\ Len(calls) + k = j
      BY <2>2, <3>1, <1>3
    <3>3. calls'[j] = new[k]
      BY <3>2, <1>3
    <3>4. QED
      BY <1>3, <3>2, <3>3 DEF Comes
  <2>3. QED
    BY <2>1, <2>2, <1>3
<1>5. \A i \in DOMAIN calls : i \in DOMAIN calls' /\ calls'[i] = calls[i]
  BY <1>3
<1>6. EndEdit(p, new) => hasty' = hasty \cup FunctionsOf(calls)
  BY DEF EndEdit
<1>7. QED
  BY <1>3, <1>4, <1>5, <1>6

\* After a callback; the call heard is gone.
LEMMA AfterHearing ==
    ASSUME IsCalls(calls), failures \in Nat, NEW i \in DOMAIN calls, NEW new, IsCalls(new), Hear(i, new)
    PROVE  /\ \A j \in DOMAIN calls' : Comes(calls'[j], new)
           /\ \A j \in DOMAIN calls : j # i => \E k \in DOMAIN calls' : calls'[k] = calls[j]
           /\ \A k \in DOMAIN new : \E j \in DOMAIN calls' : calls'[j] = new[k]
           /\ page' = page /\ page # "left" /\ failures' = failures /\ hasty' = hasty
           /\ overtaken' = overtaken \cup {calls[j].fn : j \in 1..(i - 1)}
<1>1. PICK F : F = {calls[i].fn} \cup {new[k].fn : k \in DOMAIN new}
  OBVIOUS
<1>2. Making(new, F) /\ calls[i].fn \in F
  BY <1>1 DEF Making
<1>3. /\ page' = page /\ failures' = failures /\ hasty' = hasty
      /\ overtaken' = overtaken \cup {calls[j].fn : j \in 1..(i - 1)}
      /\ Len(calls) \in Nat /\ Len(calls) - 1 \in Nat /\ DOMAIN calls = 1..Len(calls)
      /\ Len(new) \in Nat /\ DOMAIN new = 1..Len(new)
      /\ DOMAIN calls' = 1..(Len(calls) - 1 + Len(new))
      /\ \A j \in 1..(Len(calls) - 1) : calls'[j] = calls[IF j < i THEN j ELSE j + 1]
      /\ \A j \in 1..Len(new) : calls'[Len(calls) - 1 + j] = new[j]
  BY <1>2, Hearing
<1>4. ASSUME NEW j \in DOMAIN calls'
      PROVE  Comes(calls'[j], new)
  <2>1. CASE j =< Len(calls) - 1
    <3>1. j \in 1..(Len(calls) - 1) /\ (IF j < i THEN j ELSE j + 1) \in DOMAIN calls
      BY <2>1, <1>3
    <3>2. QED
      BY <1>3, <3>1 DEF Comes
  <2>2. CASE j > Len(calls) - 1
    <3>1. PICK k : k = j - (Len(calls) - 1)
      OBVIOUS
    <3>2. k \in 1..Len(new) /\ Len(calls) - 1 + k = j
      BY <2>2, <3>1, <1>3
    <3>3. calls'[j] = new[k]
      BY <3>2, <1>3
    <3>4. QED
      BY <1>3, <3>2, <3>3 DEF Comes
  <2>3. QED
    BY <2>1, <2>2, <1>3
<1>5. ASSUME NEW j \in DOMAIN calls, j # i
      PROVE  \E k \in DOMAIN calls' : calls'[k] = calls[j]
  <2>1. PICK k : k = IF j < i THEN j ELSE j - 1
    OBVIOUS
  <2>2. k \in 1..(Len(calls) - 1) /\ (IF k < i THEN k ELSE k + 1) = j /\ k \in DOMAIN calls'
    BY <1>3, <1>5, <2>1
  <2>3. QED
    BY <1>3, <2>2
<1>6. ASSUME NEW k \in DOMAIN new
      PROVE  \E j \in DOMAIN calls' : calls'[j] = new[k]
  <2>1. k \in 1..Len(new) /\ Len(calls) - 1 + k \in DOMAIN calls'
    BY <1>3
  <2>2. QED
    BY <1>3, <2>1
<1>7. page # "left"
  BY DEF Hear
<1>8. QED
  BY <1>3, <1>4, <1>5, <1>6, <1>7

\* What no call and one call come to.
LEMMA NoneMade ==
    /\ IsCalls(<<>>)
    /\ \A c : Comes(c, <<>>) => \E i \in DOMAIN calls : c = calls[i]
BY MakingNone DEF Making, Comes

LEMMA OneMade ==
    ASSUME NEW fn, NEW key, NEW data
    PROVE  LET new == <<Call(fn, key, data)>>
           IN  /\ IsCalls(new)
               /\ \A c : Comes(c, new) => \/ \E i \in DOMAIN calls : c = calls[i]
                                          \/ c.fn = fn /\ c.key = key /\ c.data = data /\ c.answer = None
<1>1. PICK new : new = <<Call(fn, key, data)>>
  OBVIOUS
<1>2. PICK F : F = {fn}
  OBVIOUS
<1>3. Making(new, F) /\ DOMAIN new = 1..1 /\ new[1] = Call(fn, key, data)
  BY <1>1, <1>2, MakingOne
<1>4. PICK c : c = Call(fn, key, data)
  OBVIOUS
<1>5. c.fn = fn /\ c.key = key /\ c.data = data /\ c.answer = None
  BY <1>4, NewCall
<1>6. \A k \in 1..1 : new[k] = c
  BY <1>3, <1>4
<1>7. QED
  BY <1>1, <1>3, <1>5, <1>6 DEF Making, Comes

\* After an answer, the one meant or a bad one.
LEMMA AfterAnswer ==
    ASSUME IsCalls(calls), failures \in Nat, NEW i \in DOMAIN calls, NEW answer, Executed(i, answer) \/ Reply(i, answer)
    PROVE  /\ page' = page /\ hasty' = hasty /\ DOMAIN calls' = DOMAIN calls
           /\ failures' = failures \/ failures' = failures + 1
           /\ overtaken' = overtaken \cup {calls[j].fn : j \in {k \in 1..(i - 1) : calls[k].answer = None}}
           /\ calls[i].answer = None
           /\ \E a \in {answer, Failed, Denied} :
                /\ calls'[i] = [fn |-> calls[i].fn, key |-> calls[i].key, data |-> calls[i].data, answer |-> a]
                /\ failures' = 0 => a = answer
           /\ \A j \in DOMAIN calls : j # i => calls'[j] = calls[j]
<1>1. PICK F : F = {calls[i].fn}
  OBVIOUS
<1>2. calls[i].fn \in F
  BY <1>1
<1>3. /\ page' = page /\ hasty' = hasty /\ DOMAIN calls' = DOMAIN calls
      /\ \E a \in {answer, Failed, Denied} :
            /\ calls'[i] = [fn |-> calls[i].fn, key |-> calls[i].key, data |-> calls[i].data, answer |-> a]
            /\ Answer(i, a)
            /\ a = answer \/ failures' # 0
      /\ \A j \in DOMAIN calls : j # i => calls'[j] = calls[j]
      /\ overtaken' = overtaken \cup {calls[j].fn : j \in {k \in 1..(i - 1) : calls[k].answer = None}}
  <2>1. Executed(i, answer) \/ Reply(i, answer) \/ AnswerBadly(i)
    OBVIOUS
  <2>2. /\ Only(F) /\ IsCalls(calls)' /\ failures' \in Nat /\ page' = page /\ hasty' = hasty
        /\ DOMAIN calls = 1..Len(calls) /\ Len(calls) \in Nat /\ DOMAIN calls' = DOMAIN calls
        /\ \E a \in {answer, Failed, Denied} :
                /\ calls'[i] = [fn |-> calls[i].fn, key |-> calls[i].key, data |-> calls[i].data, answer |-> a]
                /\ Answer(i, a)
                /\ a = answer \/ failures' # 0
        /\ \A j \in DOMAIN calls : j # i => calls'[j] = calls[j]
        /\ overtaken' = overtaken \cup {calls[j].fn : j \in {k \in 1..(i - 1) : calls[k].answer = None}}
    BY <1>2, <2>1, Executing, Zenon
  <2>3. QED
    BY <2>2, Zenon
<1>4. failures' = failures \/ failures' = failures + 1
  BY DEF Executed, Reply, AnswerBadly
<1>5. calls[i].answer = None
  BY <1>3 DEF Answer
<1>6. QED
  BY <1>3, <1>4, <1>5

-----------------------------------------------------------------------------
(* The cookies of a session. *)

\* What SessionHeld says of a call.
SessionCall(c) ==
    /\ c.fn = "login" =>
        /\ ~retyped => c.key = login.username
        /\ c.answer \in {None, Failed, Denied, [token |-> c.key]}
    /\ c.fn = "getUserOfLogin" =>
        /\ ~retyped => c.key = login.username /\ c.data = login.username
        /\ c.answer \in {None, Null, Failed, Denied, [admin |-> c.key \in admins]}

\* What it says of the inputs and the cookies.
SessionPage ==
    /\ login = [username |-> login.username, password |-> login.password, cookies |-> login.cookies]
    /\ DOMAIN login.cookies = {"user", "admin", "token"}
    /\ retyped \in BOOLEAN
    /\ page # "left" => login.cookies.token = None
    /\ SessionAgrees

\* It says nothing else.
LEMMA SessionParts ==
    SessionHeld <=> SessionPage /\ \A i \in DOMAIN calls : SessionCall(calls[i])
BY Zenon DEF SessionHeld, SessionPage, SessionCall

\* The same of the next state.
LEMMA SessionPartsNext ==
    SessionHeld' <=> SessionPage' /\ \A i \in DOMAIN calls' : SessionCall(calls[i])'
BY Zenon DEF SessionHeld, SessionPage, SessionCall

\* Other parts leave the session alone.
LEMMA SessionLeft ==
    ASSUME SessionHeld, NEW F, F \cap LoginFns = {}, Only(F), UNCHANGED loginVars
    PROVE  SessionHeld'
<1>1. /\ page' = page \/ page' = "left"
      /\ \A j \in DOMAIN calls' : calls'[j].fn \in LoginFns => \E i \in DOMAIN calls : calls[i] = calls'[j]
  BY LeftAlone
<1>2. /\ UNCHANGED <<admins, serverToken, login, retyped>>
      /\ SessionPage /\ \A i \in DOMAIN calls : SessionCall(calls[i])
  BY SessionParts, Zenon DEF loginVars
<1>3. SessionPage'
  BY <1>1, <1>2 DEF SessionPage, SessionAgrees
<1>4. ASSUME NEW j \in DOMAIN calls'
      PROVE  SessionCall(calls[j])'
  BY <1>1, <1>2 DEF SessionCall, LoginFns
<1>5. QED
  BY <1>3, <1>4, SessionPartsNext

\* It is in order at first.
LEMMA SessionAtFirst ==
    ASSUME Init
    PROVE  SessionHeld
<1>1. LoginInit /\ calls = CallsOfReady
  BY DEF Init
<1>2. SessionPage
  BY <1>1 DEF LoginInit, SessionPage, SessionAgrees, NoCookies
<1>3. \A i \in DOMAIN calls : calls[i].fn \in {"getGroups", "getConfig", "getUser", "getUsers"}
  BY <1>1 DEF CallsOfReady, GetGroups, GetConfig, GetUser, GetUsers, Call
<1>4. \A i \in DOMAIN calls : SessionCall(calls[i])
  BY <1>3 DEF SessionCall
<1>5. QED
  BY <1>2, <1>4, SessionParts

\* The user types and clicks on the login page.
LEMMA SessionClicks ==
    ASSUME Typed, SessionHeld, (\E a \in Accounts \cup {None}, right \in BOOLEAN : TypeAccount(a, right)) \/ Login \/ Logout
    PROVE  SessionHeld'
<1>1. IsCalls(calls) /\ failures \in Nat
  BY DEF Typed
<1>2. SessionPage /\ \A i \in DOMAIN calls : SessionCall(calls[i])
  BY SessionParts, Zenon
<1>3. ASSUME NEW a, NEW right, TypeAccount(a, right)
      PROVE  SessionHeld'
  <2>1. /\ \A j \in DOMAIN calls' : \E i \in DOMAIN calls : calls'[j] = calls[i]
        /\ page' = page /\ page = "login"
    BY <1>1, <1>3, AfterClick, NoneMade DEF TypeAccount
  <2>2. /\ login' = [login EXCEPT !.username = a, !.password = right]
        /\ retyped' = (retyped \/ (Calling(LoginCalls) /\ a # login.username)) /\ admins' = admins
    BY <1>3 DEF TypeAccount
  <2>3. /\ login' = [username |-> a, password |-> right, cookies |-> login.cookies]
        /\ login'.username = a /\ login'.cookies = login.cookies /\ retyped' \in BOOLEAN
    BY <1>2, <2>2 DEF SessionPage
  <2>4. login.cookies.token = None /\ DOMAIN login.cookies = {"user", "admin", "token"}
    BY <1>2, <2>1 DEF SessionPage
  <2>5. SessionPage'
    BY <2>1, <2>3, <2>4 DEF SessionPage, SessionAgrees
  <2>6. ASSUME NEW j \in DOMAIN calls', calls'[j].fn \in LoginCalls
        PROVE  retyped' \/ (~retyped /\ a = login.username)
    <3>1. calls'[j].fn \in FunctionsOf(calls)
      BY <2>1 DEF FunctionsOf
    <3>2. Calling(LoginCalls)
      BY <2>6, <3>1 DEF Calling
    <3>3. QED
      BY <2>2, <3>2, Zenon
  <2>7. ASSUME NEW j \in DOMAIN calls'
        PROVE  SessionCall(calls[j])'
    <3>1. CASE calls'[j].fn \in LoginCalls
      <4>1. PICK i \in DOMAIN calls : calls'[j] = calls[i]
        BY <2>1
      <4>2. SessionCall(calls'[j])
        BY <1>2, <4>1
      <4>3. retyped' \/ (~retyped /\ a = login.username)
        BY <2>6, <3>1
      <4>4. login'.username = a /\ admins' = admins
        BY <2>2, <2>3
      <4>5. QED
        BY <4>2, <4>3, <4>4 DEF SessionCall
    <3>2. CASE calls'[j].fn \notin LoginCalls
      BY <3>2 DEF SessionCall, LoginCalls
    <3>3. QED
      BY <3>1, <3>2
  <2>8. QED
    BY <2>5, <2>7, SessionPartsNext
<1>4. ASSUME NEW p, NEW fn \in {"login", "logout"}, NEW key, NEW data, Click(p, <<Call(fn, key, data)>>),
             fn = "login" => key = login.username, UNCHANGED loginVars
      PROVE  SessionHeld'
  <2>1. /\ \A j \in DOMAIN calls' : \/ \E i \in DOMAIN calls : calls'[j] = calls[i]
                                    \/ calls'[j].fn = fn /\ calls'[j].key = key /\ calls'[j].answer = None
        /\ page' = page
    BY <1>1, <1>4, AfterClick, OneMade
  <2>2. UNCHANGED <<admins, login, retyped>>
    BY <1>4 DEF loginVars
  <2>3. SessionPage'
    BY <1>2, <2>1, <2>2 DEF SessionPage, SessionAgrees
  <2>4. \A j \in DOMAIN calls' : SessionCall(calls[j])'
    BY <1>2, <1>4, <2>1, <2>2 DEF SessionCall
  <2>5. QED
    BY <2>3, <2>4, SessionPartsNext
<1>5. CASE Login
  BY <1>4, <1>5 DEF Login
<1>6. CASE Logout
  BY <1>4, <1>6 DEF Logout
<1>7. QED
  BY <1>3, <1>5, <1>6

\* The servlet checks a password, tells the rights of an account, or makes a new token.
LEMMA SessionAnswers ==
    ASSUME Typed, SessionHeld, CheckPassword \/ ReadAccount \/ RenewToken
    PROVE  SessionHeld'
<1>1. IsCalls(calls) /\ failures \in Nat
  BY DEF Typed
<1>2. SessionPage /\ \A i \in DOMAIN calls : SessionCall(calls[i])
  BY SessionParts, Zenon
<1>3. ASSUME NEW i \in DOMAIN calls, NEW answer, Executed(i, answer) \/ Reply(i, answer),
             UNCHANGED <<admins, login, retyped>>,
             calls[i].fn = "login" => answer \in {Denied, [token |-> calls[i].key]},
             calls[i].fn = "getUserOfLogin" => answer \in {Null, [admin |-> calls[i].key \in admins]}
      PROVE  SessionHeld'
  <2>2. /\ page' = page /\ DOMAIN calls' = DOMAIN calls
        /\ \E a \in {answer, Failed, Denied} :
            calls'[i] = [fn |-> calls[i].fn, key |-> calls[i].key, data |-> calls[i].data, answer |-> a]
        /\ \A j \in DOMAIN calls : j # i => calls'[j] = calls[j]
    BY <1>1, <1>3, AfterAnswer
  <2>3. SessionPage'
    BY <1>2, <1>3, <2>2 DEF SessionPage, SessionAgrees
  <2>4. PICK a \in {answer, Failed, Denied} :
            calls'[i] = [fn |-> calls[i].fn, key |-> calls[i].key, data |-> calls[i].data, answer |-> a]
    BY <2>2
  <2>5. SessionCall(calls[i])'
    <3>1. SessionCall(calls[i])
      BY <1>2
    <3>2. calls'[i].fn = calls[i].fn /\ calls'[i].key = calls[i].key /\ calls'[i].data = calls[i].data /\ calls'[i].answer = a
      BY <2>4
    <3>3. QED
      BY <1>3, <3>1, <3>2 DEF SessionCall
  <2>6. ASSUME NEW j \in DOMAIN calls', j # i
        PROVE  SessionCall(calls[j])'
    <3>1. calls'[j] = calls[j] /\ SessionCall(calls[j])
      BY <1>2, <2>2, <2>6
    <3>2. QED
      BY <1>3, <3>1 DEF SessionCall
  <2>7. QED
    BY <2>3, <2>5, <2>6, SessionPartsNext
<1>4. CASE CheckPassword
  BY <1>3, <1>4 DEF CheckPassword
<1>5. CASE ReadAccount
  BY <1>3, <1>5 DEF ReadAccount, loginVars
<1>6. CASE RenewToken
  BY <1>3, <1>6 DEF RenewToken
<1>7. QED
  BY <1>4, <1>5, <1>6

\* The page hears of a login.
LEMMA SessionHears ==
    ASSUME Typed, SessionHeld, PasswordAccepted \/ LoginRefused \/ AccountHeard
    PROVE  SessionHeld'
<1>1. IsCalls(calls) /\ failures \in Nat
  BY DEF Typed
<1>2. SessionPage /\ \A i \in DOMAIN calls : SessionCall(calls[i])
  BY SessionParts, Zenon
<1>3. CASE PasswordAccepted
  <2>1. PICK i \in DOMAIN calls :
            /\ calls[i].fn = "login" /\ UNCHANGED loginVars
            /\ Heard(i, <<Call("getUserOfLogin", login.username, calls[i].answer.token)>>)
    BY <1>3 DEF PasswordAccepted
  <2>2. PICK t : t = calls[i].answer.token
    OBVIOUS
  <2>3. Hear(i, <<Call("getUserOfLogin", login.username, t)>>) /\ calls[i].answer \notin {None, Failed, Denied}
    BY <2>1, <2>2 DEF Heard
  <2>4. /\ page' = page
        /\ \A j \in DOMAIN calls' :
            \/ \E k \in DOMAIN calls : calls'[j] = calls[k]
            \/ /\ calls'[j].fn = "getUserOfLogin" /\ calls'[j].key = login.username
               /\ calls'[j].data = t /\ calls'[j].answer = None
    BY <1>1, <2>3, AfterHearing, OneMade
  <2>5. ~retyped => t = login.username
    BY <1>2, <2>1, <2>2, <2>3 DEF SessionCall
  <2>6. UNCHANGED <<admins, login, retyped>>
    BY <2>1 DEF loginVars
  <2>7. SessionPage'
    BY <1>2, <2>4, <2>6 DEF SessionPage, SessionAgrees
  <2>8. \A j \in DOMAIN calls' : SessionCall(calls[j])'
    BY <1>2, <2>4, <2>5, <2>6 DEF SessionCall
  <2>9. QED
    BY <2>7, <2>8, SessionPartsNext
<1>4. CASE LoginRefused
  <2>1. PICK i \in DOMAIN calls : Refused(i) /\ login' = [login EXCEPT !.password = FALSE] /\ UNCHANGED <<admins, retyped>>
    BY <1>4 DEF LoginRefused
  <2>2. Hear(i, <<>>)
    BY <2>1, Listening
  <2>3. page' = page /\ \A j \in DOMAIN calls' : \E k \in DOMAIN calls : calls'[j] = calls[k]
    BY <1>1, <2>2, AfterHearing, NoneMade
  <2>4. login' = [username |-> login.username, password |-> FALSE, cookies |-> login.cookies]
    BY <1>2, <2>1 DEF SessionPage
  <2>5. SessionPage'
    BY <1>2, <2>1, <2>3, <2>4 DEF SessionPage, SessionAgrees
  <2>6. \A j \in DOMAIN calls' : SessionCall(calls[j])'
    BY <1>2, <2>1, <2>3, <2>4 DEF SessionCall
  <2>7. QED
    BY <2>5, <2>6, SessionPartsNext
<1>5. CASE AccountHeard
  <2>1. PICK i \in DOMAIN calls :
            /\ calls[i].fn = "getUserOfLogin" /\ calls[i].answer \notin {None, Failed, Denied} /\ page # "left"
            /\ \/ /\ calls[i].answer = Null /\ Hear(i, <<>>)
                  /\ login' = [login EXCEPT !.cookies.user = login.username]
               \/ /\ calls[i].answer # Null /\ page' = "left" /\ calls' = <<>>
                  /\ login' = [login EXCEPT !.cookies =
                        [user |-> login.username, admin |-> calls[i].answer.admin, token |-> calls[i].data]]
            /\ UNCHANGED <<admins, retyped>>
    BY <1>5 DEF AccountHeard
  <2>2. /\ DOMAIN login.cookies = {"user", "admin", "token"} /\ login.cookies.token = None
        /\ login = [username |-> login.username, password |-> login.password, cookies |-> login.cookies]
        /\ retyped \in BOOLEAN
    BY <1>2, <2>1 DEF SessionPage
  <2>3. CASE calls[i].answer = Null
    <3>1. page' = page /\ \A j \in DOMAIN calls' : \E k \in DOMAIN calls : calls'[j] = calls[k]
      BY <1>1, <2>1, <2>3, AfterHearing, NoneMade
    <3>2. PICK cookies : cookies = [login.cookies EXCEPT !.user = login.username]
      OBVIOUS
    <3>3. DOMAIN cookies = {"user", "admin", "token"} /\ cookies.token = None
      BY <2>2, <3>2
    <3>4. login' = [username |-> login.username, password |-> login.password, cookies |-> cookies]
      BY <2>1, <2>2, <2>3, <3>2
    <3>5. SessionPage'
      BY <2>1, <2>2, <3>1, <3>3, <3>4 DEF SessionPage, SessionAgrees
    <3>6. \A j \in DOMAIN calls' : SessionCall(calls[j])'
      BY <1>2, <2>1, <3>1, <3>4 DEF SessionCall
    <3>7. QED
      BY <3>5, <3>6, SessionPartsNext
  <2>4. CASE calls[i].answer # Null
    <3>1. /\ ~retyped => calls[i].key = login.username /\ calls[i].data = login.username
          /\ calls[i].answer = [admin |-> calls[i].key \in admins]
      BY <1>2, <2>1, <2>4 DEF SessionCall
    <3>2. calls[i].answer.admin = (calls[i].key \in admins)
      BY <3>1
    <3>3. PICK cookies : cookies = [user |-> login.username, admin |-> calls[i].answer.admin, token |-> calls[i].data]
      OBVIOUS
    <3>4. login' = [username |-> login.username, password |-> login.password, cookies |-> cookies]
      BY <2>1, <2>2, <2>4, <3>3
    <3>5. SessionAgrees'
      BY <2>1, <3>1, <3>2, <3>3, <3>4 DEF SessionAgrees
    <3>6. SessionPage'
      BY <2>1, <2>2, <2>4, <3>3, <3>4, <3>5 DEF SessionPage
    <3>7. DOMAIN calls' = {}
      BY <2>1, <2>4
    <3>8. QED
      BY <3>6, <3>7, SessionPartsNext
  <2>5. QED
    BY <2>3, <2>4
<1>6. QED
  BY <1>3, <1>4, <1>5

\* A call of the login page that fails or is refused changes nothing but its answer.
LEMMA SessionAnyCall ==
    ASSUME Typed, SessionHeld, CallFails \/ CallRefused \/ PageRedirected
    PROVE  SessionHeld'
<1>1. IsCalls(calls) /\ failures \in Nat
  BY DEF Typed
<1>2. SessionPage /\ \A i \in DOMAIN calls : SessionCall(calls[i])
  BY SessionParts, Zenon
<1>3. UNCHANGED <<admins, login, retyped>>
  BY AnyCall DEF panelVars, loginVars
<1>4. CASE page' = "left" /\ calls' = <<>>
  <2>1. SessionPage'
    BY <1>2, <1>3, <1>4 DEF SessionPage, SessionAgrees
  <2>2. DOMAIN calls' = {}
    BY <1>4
  <2>3. QED
    BY <2>1, <2>2, SessionPartsNext
<1>5. CASE /\ page' = page /\ DOMAIN calls' = DOMAIN calls
           /\ \A j \in DOMAIN calls :
                \/ calls'[j] = calls[j]
                \/ \E bad \in {Failed, Denied} :
                    calls'[j] = [fn |-> calls[j].fn, key |-> calls[j].key, data |-> calls[j].data, answer |-> bad]
  <2>1. SessionPage'
    BY <1>2, <1>3, <1>5 DEF SessionPage, SessionAgrees
  <2>2. ASSUME NEW j \in DOMAIN calls'
        PROVE  SessionCall(calls[j])'
    <3>1. SessionCall(calls[j])
      BY <1>2, <1>5
    <3>2. /\ calls'[j].fn = calls[j].fn /\ calls'[j].key = calls[j].key /\ calls'[j].data = calls[j].data
          /\ calls'[j].answer \in {calls[j].answer, Failed, Denied}
      BY <1>5
    <3>3. QED
      BY <1>3, <3>1, <3>2 DEF SessionCall
  <2>3. QED
    BY <2>1, <2>2, SessionPartsNext
<1>6. ASSUME NEW i \in DOMAIN calls, Refused(i)
      PROVE  SessionHeld'
  <2>1. Hear(i, <<>>)
    BY <1>6, Listening
  <2>2. page' = page /\ \A j \in DOMAIN calls' : \E k \in DOMAIN calls : calls'[j] = calls[k]
    BY <1>1, <2>1, AfterHearing, NoneMade
  <2>3. SessionPage'
    BY <1>2, <1>3, <2>2 DEF SessionPage, SessionAgrees
  <2>4. \A j \in DOMAIN calls' : SessionCall(calls[j])'
    BY <1>2, <1>3, <2>2 DEF SessionCall
  <2>5. QED
    BY <2>3, <2>4, SessionPartsNext
<1>7. QED
  BY <1>4, <1>5, <1>6, AnyCall

\* No step breaks the session.
LEMMA SessionNext ==
    ASSUME Typed, SessionHeld, [Next]_vars
    PROVE  SessionHeld'
<1>1. CASE SensorStep /\ OfSensors
  <2>1. Only(SensorFns) /\ UNCHANGED loginVars
    BY <1>1, SensorSteps DEF Keeps, OfSensors
  <2>2. SensorFns \cap LoginFns = {}
    BY DEF SensorFns, LoginFns
  <2>3. QED
    BY <2>1, <2>2, SessionLeft
<1>2. CASE GroupStep /\ OfGroups
  <2>1. Only(GroupCalls) /\ UNCHANGED loginVars
    BY <1>2, GroupSteps DEF Keeps, OfGroups
  <2>2. GroupCalls \cap LoginFns = {}
    BY DEF GroupCalls, GroupFns, LoginFns
  <2>3. QED
    BY <2>1, <2>2, SessionLeft
<1>3. CASE LocationStep /\ OfLocations
  <2>1. Only(LocationFns) /\ UNCHANGED loginVars
    BY <1>3, LocationSteps DEF Keeps, OfLocations
  <2>2. LocationFns \cap LoginFns = {}
    BY DEF LocationFns, LoginFns
  <2>3. QED
    BY <2>1, <2>2, SessionLeft
<1>4. CASE UserPanelStep /\ OfUsers
  <2>1. Only(UserFns) /\ UNCHANGED loginVars
    BY <1>4, UserSteps DEF Keeps, OfUsers
  <2>2. UserFns \cap LoginFns = {}
    BY DEF UserFns, LoginFns
  <2>3. QED
    BY <2>1, <2>2, SessionLeft
<1>5. CASE LoginStep
  BY <1>5, SessionClicks, SessionAnswers, SessionHears DEF LoginStep
<1>6. CASE ConfigStep /\ OfConfig
  <2>1. Only(ConfigFns) /\ UNCHANGED loginVars
    BY <1>6, ConfigSteps DEF Keeps, OfConfig
  <2>2. ConfigFns \cap LoginFns = {}
    BY DEF ConfigFns, LoginFns
  <2>3. QED
    BY <2>1, <2>2, SessionLeft
<1>7. CASE SearchStep /\ OfSearch
  <2>1. Only(SearchFns) /\ UNCHANGED loginVars
    BY <1>7, SearchSteps DEF Keeps, OfSearch
  <2>2. SearchFns \cap LoginFns = {}
    BY DEF SearchFns, LoginFns
  <2>3. QED
    BY <2>1, <2>2, SessionLeft
<1>8. CASE GraphStep /\ OfGraphs
  <2>1. Only({}) /\ UNCHANGED loginVars
    BY <1>8, GraphSteps DEF Keeps, OfGraphs
  <2>2. QED
    BY <2>1, SessionLeft
<1>9. CASE CallFails \/ CallRefused \/ PageRedirected
  BY <1>9, SessionAnyCall
<1>10. CASE Timer \/ UNCHANGED vars
  <2>1. UNCHANGED <<page, calls, failures, overtaken, hasty>> /\ UNCHANGED loginVars
    BY <1>10 DEF Timer, HideAlert, vars, web, panelVars
  <2>2. Only({})
    BY <2>1, Idling DEF Keeps
  <2>3. QED
    BY <2>1, <2>2, SessionLeft
<1>11. QED
  BY <1>1, <1>2, <1>3, <1>4, <1>5, <1>6, <1>7, <1>8, <1>9, <1>10, EachStep

\* The three cookies come from one account while nobody changes the user name in between: the input of the
\* name is read at the login, at the second call and at its answer, and each call carries what it read.
THEOREM SessionAgreesAlways == Spec => []SessionAgrees
<1>1. Init => SessionHeld
  BY SessionAtFirst
<1>2. Typed /\ SessionHeld /\ [Next]_vars => SessionHeld'
  BY SessionNext
<1>3. SessionHeld => SessionAgrees
  BY DEF SessionHeld
<1>4. QED
  BY <1>1, <1>2, <1>3, TypedAlways, PTL DEF Spec

-----------------------------------------------------------------------------
(* The date of a measurement. *)

\* A date whose day the current month has, in both years, is put together as it is.
LEMMA PlottedAsItIs ==
    ASSUME NEW date \in Dates, NEW today \in Today,
           \A year \in {today.year, date.year} : date.day =< DaysIn(year, today.month)
    PROVE  Plotted(date, today) = date
<1>1. /\ date \in [year : Nat, month : 1..12, day : 1..31] /\ today \in [year : Nat, month : 1..12, day : 1..31]
      /\ date.day =< DaysIn(date.year, date.month)
  BY DatesAssumption
<1>2. [today EXCEPT !.day = date.day] = [year |-> today.year, month |-> today.month, day |-> date.day]
  BY <1>1
<1>3. PICK dayed : dayed = Carry([today EXCEPT !.day = date.day])
  OBVIOUS
<1>4. dayed = [year |-> today.year, month |-> today.month, day |-> date.day]
  BY <1>2, <1>3 DEF Carry
<1>5. PICK yeared : yeared = Carry([dayed EXCEPT !.year = date.year])
  OBVIOUS
<1>6. [dayed EXCEPT !.year = date.year] = [year |-> date.year, month |-> today.month, day |-> date.day]
  BY <1>4
<1>7. yeared = [year |-> date.year, month |-> today.month, day |-> date.day]
  BY <1>5, <1>6 DEF Carry
<1>8. [yeared EXCEPT !.month = date.month] = date
  BY <1>1, <1>7
<1>9. Plotted(date, today) = Carry([yeared EXCEPT !.month = date.month])
  BY <1>3, <1>5, Zenon DEF Plotted
<1>10. QED
  BY <1>1, <1>8, <1>9 DEF Carry

\* Only PlotPoint plots.
LEMMA PointNext ==
    ASSUME PointHeld, [Next]_vars
    PROVE  PointHeld'
<1>1. CASE UNCHANGED graphPage
  BY <1>1 DEF PointHeld
<1>2. CASE DisplayGraphs
  <2>1. PICK d : graphPage' = [graphPage EXCEPT !.drawing = d]
    BY <1>2 DEF DisplayGraphs
  <2>2. graphPage'.point = graphPage.point /\ DOMAIN graphPage' = DOMAIN graphPage
    BY <2>1 DEF PointHeld
  <2>3. QED
    BY <2>2 DEF PointHeld
<1>3. CASE PlotPoint
  <2>1. PICK date \in Dates, today \in Today :
            graphPage' = [graphPage EXCEPT !.point = [date |-> date, today |-> today, plotted |-> Plotted(date, today)]]
    BY <1>3 DEF PlotPoint
  <2>2. graphPage'.point = [date |-> date, today |-> today, plotted |-> Plotted(date, today)] /\ DOMAIN graphPage' = DOMAIN graphPage
    BY <2>1 DEF PointHeld
  <2>3. QED
    BY <2>2 DEF PointHeld
<1>4. CASE DownloadCsv
  BY <1>1, <1>4 DEF DownloadCsv
<1>5. QED
  <2>1. CASE CallFails \/ CallRefused \/ PageRedirected
    BY <1>1, <2>1, Zenon DEF CallFails, CallRefused, PageRedirected, panelVars
  <2>2. CASE ~(GraphStep \/ CallFails \/ CallRefused \/ PageRedirected)
    BY <1>1, <2>2, EachStep
       DEF OfSensors, OfGroups, OfLocations, OfUsers, OfLogin, OfConfig, OfSearch, Timer, vars, panelVars
  <2>3. QED
    BY <1>2, <1>3, <1>4, <2>1, <2>2 DEF GraphStep

\* A measurement is plotted at its date when the current month has that day, in this year and in that of the
\* date: the parts of the date go into the current date one by one, and a day too many is carried over.
THEOREM PlottedAtItsDateAlways == Spec => []PlottedAtItsDate
<1>1. Init => PointHeld
  BY DEF Init, GraphInit, PointHeld
<1>2. PointHeld /\ [Next]_vars => PointHeld'
  BY PointNext
<1>3. PointHeld => PlottedAtItsDate
  <2>1. SUFFICES ASSUME PointHeld, graphPage.point # None,
                        \A year \in {graphPage.point.today.year, graphPage.point.date.year} :
                            graphPage.point.date.day =< DaysIn(year, graphPage.point.today.month)
                 PROVE  graphPage.point.plotted = graphPage.point.date
    BY Zenon DEF PlottedAtItsDate
  <2>2. PICK date \in Dates, today \in Today :
            graphPage.point = [date |-> date, today |-> today, plotted |-> Plotted(date, today)]
    BY <2>1 DEF PointHeld
  <2>3. graphPage.point.date = date /\ graphPage.point.today = today /\ graphPage.point.plotted = Plotted(date, today)
    BY <2>2
  <2>4. QED
    BY <2>1, <2>3, PlottedAsItIs
<1>4. QED
  BY <1>1, <1>2, <1>3, PTL DEF Spec

-----------------------------------------------------------------------------
(* The configuration. *)

\* What ConfigHeld says of an undisturbed run: of the row, of the zone shown, of a call.
ConfigCall(c) ==
    /\ c.fn = "updateConfig" => c.data \in Zones
    /\ c.fn = "getConfig" => c.answer \in Zones \cup {None}
ZoneShown == page = "config" => config.zone \in Zones \/ "getConfig" \in FunctionsOf(calls)

\* It says nothing else.
LEMMA ConfigParts ==
    /\ ConfigHeld <=> /\ DOMAIN config = {"zone", "dns", "enabled"}
                      /\ Undisturbed({"getConfig"}) =>
                            configRow \in Zones /\ ZoneShown /\ \A i \in DOMAIN calls : ConfigCall(calls[i])
    /\ ConfigHeld' <=> /\ DOMAIN config' = {"zone", "dns", "enabled"}
                       /\ Undisturbed({"getConfig"})' =>
                            configRow' \in Zones /\ ZoneShown' /\ \A i \in DOMAIN calls' : ConfigCall(calls[i])'
BY Zenon DEF ConfigHeld, ConfigCall, ZoneShown

\* What is undisturbed has not been disturbed before.
LEMMA Calm ==
    ASSUME Grows, NEW G, Undisturbed(G)'
    PROVE  Undisturbed(G)
BY DEF Grows, Undisturbed

\* What functions are called.
LEMMA CalledNow == \A fn : fn \in FunctionsOf(calls) <=> \E i \in DOMAIN calls : calls[i].fn = fn
BY DEF FunctionsOf

LEMMA CalledNext == \A fn : fn \in FunctionsOf(calls)' <=> \E i \in DOMAIN calls' : calls'[i].fn = fn
BY DEF FunctionsOf

\* Other parts leave the configuration alone.
LEMMA ConfigLeft ==
    ASSUME ConfigHeld, NEW F, F \cap ConfigFns = {}, Only(F), UNCHANGED <<configRow, config>>
    PROVE  ConfigHeld'
<1>1. /\ Grows
      /\ page' = page \/ page' = "left"
      /\ \A j \in DOMAIN calls' : calls'[j].fn \in ConfigFns => \E i \in DOMAIN calls : calls[i] = calls'[j]
      /\ page' # "left" => \A fn \in ConfigFns : fn \in FunctionsOf(calls) => fn \in FunctionsOf(calls)'
  BY LeftAlone
<1>2. DOMAIN config' = {"zone", "dns", "enabled"}
  BY ConfigParts
<1>3. ASSUME Undisturbed({"getConfig"})'
      PROVE  configRow' \in Zones /\ ZoneShown' /\ \A i \in DOMAIN calls' : ConfigCall(calls[i])'
  <2>1. configRow \in Zones /\ ZoneShown /\ \A i \in DOMAIN calls : ConfigCall(calls[i])
    BY <1>1, <1>3, ConfigParts, Calm
  <2>2. ZoneShown'
    BY <1>1, <2>1 DEF ZoneShown, ConfigFns
  <2>3. \A i \in DOMAIN calls' : ConfigCall(calls[i])'
    BY <1>1, <2>1 DEF ConfigCall, ConfigFns
  <2>4. QED
    BY <2>1, <2>2, <2>3
<1>4. QED
  BY <1>2, <1>3, ConfigParts

\* At first it is still to come.
LEMMA ConfigAtFirst ==
    ASSUME Init
    PROVE  ConfigHeld
<1>1. ConfigInit /\ calls = CallsOfReady
  BY DEF Init
<1>2. ASSUME page = "config"
      PROVE  "getConfig" \in FunctionsOf(calls)
  <2>1. calls = <<GetConfig>>
    BY <1>1, <1>2 DEF CallsOfReady
  <2>2. 1 \in DOMAIN calls /\ calls[1].fn = "getConfig"
    BY <2>1 DEF GetConfig, Call
  <2>3. QED
    BY <2>2, CalledNow
<1>3. \A i \in DOMAIN calls : calls[i].fn # "updateConfig" /\ calls[i].answer = None
  BY <1>1 DEF CallsOfReady, GetGroups, GetConfig, GetUser, GetUsers, Call
<1>4. QED
  BY <1>1, <1>2, <1>3, ConfigParts DEF ConfigInit, ZoneShown, ConfigCall

\* The user edits, and saves what the inputs show: no answer is to come by then.
LEMMA ConfigClicks ==
    ASSUME Typed, ConfigHeld, EditConfig \/ CancelConfig \/ UpdateConfig \/ (\E z \in Zones : TypeZone(z))
    PROVE  ConfigHeld'
<1>1. IsCalls(calls) /\ failures \in Nat
  BY DEF Typed
<1>2. DOMAIN config = {"zone", "dns", "enabled"}
  BY ConfigParts
<1>3. Undisturbed({"getConfig"}) => configRow \in Zones /\ ZoneShown /\ \A i \in DOMAIN calls : ConfigCall(calls[i])
  BY ConfigParts
<1>4. ASSUME NEW new, IsCalls(new), Click("config", new) \/ EndEdit("config", new), configRow' = configRow,
             config' = config \/ (\E b : config' = [config EXCEPT !.enabled = b])
                              \/ (\E z \in Zones : config' = [config EXCEPT !.zone = z]),
             \A c : Comes(c, new) => (\E i \in DOMAIN calls : c = calls[i]) \/ (c.fn = "getConfig" /\ c.answer = None)
      PROVE  ConfigHeld'
  <2>1. /\ \A j \in DOMAIN calls' : Comes(calls'[j], new)
        /\ \A i \in DOMAIN calls : i \in DOMAIN calls' /\ calls'[i] = calls[i]
        /\ page' = page /\ failures' = failures /\ overtaken' = overtaken
        /\ hasty' \in {hasty, hasty \cup FunctionsOf(calls)}
    BY <1>1, <1>4, AfterClick
  <2>2. Grows
    BY <2>1 DEF Grows
  <2>3. DOMAIN config' = {"zone", "dns", "enabled"} /\ config'.zone \in {config.zone} \cup Zones
    BY <1>2, <1>4
  <2>4. \A fn : fn \in FunctionsOf(calls) => fn \in FunctionsOf(calls)'
    BY <2>1, CalledNow, CalledNext
  <2>5. ASSUME Undisturbed({"getConfig"})'
        PROVE  configRow' \in Zones /\ ZoneShown' /\ \A i \in DOMAIN calls' : ConfigCall(calls[i])'
    <3>1. configRow \in Zones /\ ZoneShown /\ \A i \in DOMAIN calls : ConfigCall(calls[i])
      BY <1>3, <2>2, <2>5, Calm
    <3>2. ZoneShown'
      BY <2>1, <2>3, <2>4, <3>1 DEF ZoneShown
    <3>3. \A i \in DOMAIN calls' : ConfigCall(calls[i])'
      BY <1>4, <2>1, <3>1 DEF ConfigCall
    <3>4. QED
      BY <1>4, <3>1, <3>2, <3>3
  <2>6. QED
    BY <2>3, <2>5, ConfigParts
<1>5. CASE EditConfig \/ \E z \in Zones : TypeZone(z)
  BY <1>4, <1>5, NoneMade DEF EditConfig, TypeZone
<1>6. CASE CancelConfig
  <2>1. PICK new : new = <<Call("getConfig", None, None)>>
    OBVIOUS
  <2>2. EndEdit("config", new) /\ configRow' = configRow /\ config' = [config EXCEPT !.enabled = FALSE]
    BY <1>6, <2>1 DEF CancelConfig, GetConfig
  <2>3. /\ IsCalls(new)
        /\ \A c : Comes(c, new) => (\E i \in DOMAIN calls : c = calls[i]) \/ (c.fn = "getConfig" /\ c.answer = None)
    BY <2>1, OneMade
  <2>4. QED
    BY <1>4, <2>2, <2>3
<1>7. CASE UpdateConfig
  <2>1. PICK new : new = <<Call("updateConfig", None, config.zone)>>
    OBVIOUS
  <2>2. EndEdit("config", new) /\ UNCHANGED <<configRow, config>>
    BY <1>7, <2>1 DEF UpdateConfig, configVars
  <2>3. /\ IsCalls(new)
        /\ \A c : Comes(c, new) => (\E i \in DOMAIN calls : c = calls[i]) \/ (c.fn = "updateConfig" /\ c.data = config.zone)
    BY <2>1, OneMade
  <2>4. /\ \A j \in DOMAIN calls' : Comes(calls'[j], new)
        /\ page = "config" /\ page' = page /\ failures' = failures /\ overtaken' = overtaken
        /\ hasty' = hasty \cup FunctionsOf(calls)
    BY <1>1, <2>2, <2>3, AfterClick
  <2>5. Grows
    BY <2>4 DEF Grows
  <2>6. ASSUME Undisturbed({"getConfig"})'
        PROVE  configRow' \in Zones /\ ZoneShown' /\ \A i \in DOMAIN calls' : ConfigCall(calls[i])'
    <3>1. configRow \in Zones /\ ZoneShown /\ \A i \in DOMAIN calls : ConfigCall(calls[i])
      BY <1>3, <2>5, <2>6, Calm
    <3>2. "getConfig" \notin FunctionsOf(calls)
      BY <2>4, <2>6 DEF Undisturbed
    <3>3. config.zone \in Zones
      BY <2>4, <3>1, <3>2 DEF ZoneShown
    <3>4. ZoneShown'
      BY <2>2, <3>3 DEF ZoneShown
    <3>5. \A i \in DOMAIN calls' : ConfigCall(calls[i])'
      BY <2>3, <2>4, <3>1, <3>3 DEF ConfigCall
    <3>6. QED
      BY <2>2, <3>1, <3>4, <3>5
  <2>7. QED
    BY <1>2, <2>2, <2>6, ConfigParts
<1>8. QED
  BY <1>5, <1>6, <1>7

\* The servlet reads and writes the row.
LEMMA ConfigAnswers ==
    ASSUME Typed, ConfigHeld, ReadConfig \/ StoreConfig
    PROVE  ConfigHeld'
<1>1. IsCalls(calls) /\ failures \in Nat
  BY DEF Typed
<1>2. /\ DOMAIN config = {"zone", "dns", "enabled"}
      /\ Undisturbed({"getConfig"}) => configRow \in Zones /\ ZoneShown /\ \A i \in DOMAIN calls : ConfigCall(calls[i])
  BY ConfigParts
<1>3. PICK i, answer :
        /\ i \in DOMAIN calls
        /\ Executed(i, answer) \/ Reply(i, answer)
        /\ config' = config
        /\ \/ calls[i].fn = "getConfig" /\ answer = configRow /\ configRow' = configRow
           \/ calls[i].fn = "updateConfig" /\ configRow' = calls[i].data
  BY DEF ReadConfig, StoreConfig, configVars
<1>4. /\ page' = page /\ hasty' = hasty /\ DOMAIN calls' = DOMAIN calls /\ overtaken \subseteq overtaken'
      /\ failures' = failures \/ failures' = failures + 1
      /\ \A j \in DOMAIN calls : j # i => calls'[j] = calls[j]
      /\ \E a \in {answer, Failed, Denied} :
            /\ calls'[i] = [fn |-> calls[i].fn, key |-> calls[i].key, data |-> calls[i].data, answer |-> a]
            /\ failures' = 0 => a = answer
  BY <1>1, <1>3, AfterAnswer
<1>5. Grows
  BY <1>1, <1>4 DEF Grows
<1>6. ASSUME Undisturbed({"getConfig"})'
      PROVE  configRow' \in Zones /\ ZoneShown' /\ \A j \in DOMAIN calls' : ConfigCall(calls[j])'
  <2>1. configRow \in Zones /\ ZoneShown /\ \A j \in DOMAIN calls : ConfigCall(calls[j])
    BY <1>2, <1>5, <1>6, Calm
  <2>2. calls'[i] = [fn |-> calls[i].fn, key |-> calls[i].key, data |-> calls[i].data, answer |-> answer]
    BY <1>4, <1>6 DEF Undisturbed
  <2>3. configRow' \in Zones
    BY <1>3, <2>1 DEF ConfigCall
  <2>4. \A j \in DOMAIN calls : calls'[j].fn = calls[j].fn
    BY <1>4, <2>2
  <2>5. ZoneShown'
    BY <1>3, <1>4, <2>1, <2>4, CalledNow, CalledNext DEF ZoneShown
  <2>6. ConfigCall(calls[i])'
    BY <1>3, <2>1, <2>2 DEF ConfigCall
  <2>7. \A j \in DOMAIN calls' : ConfigCall(calls[j])'
    BY <1>4, <2>1, <2>6 DEF ConfigCall
  <2>8. QED
    BY <2>3, <2>5, <2>7
<1>7. QED
  BY <1>2, <1>3, <1>6, ConfigParts

\* The page hears: what it shows comes from the servlet.
LEMMA ConfigHears ==
    ASSUME Typed, ConfigHeld, ConfigHeard \/ ConfigUpdated \/ ConfigRefused
    PROVE  ConfigHeld'
<1>1. IsCalls(calls) /\ failures \in Nat
  BY DEF Typed
<1>2. /\ DOMAIN config = {"zone", "dns", "enabled"}
      /\ Undisturbed({"getConfig"}) => configRow \in Zones /\ ZoneShown /\ \A i \in DOMAIN calls : ConfigCall(calls[i])
  BY ConfigParts
<1>3. CASE ConfigHeard
  <2>1. PICK i \in DOMAIN calls :
            /\ calls[i].fn = "getConfig" /\ Hear(i, <<>>) /\ calls[i].answer # None
            /\ config' = [config EXCEPT !.zone = calls[i].answer, !.dns = calls[i].answer] /\ configRow' = configRow
    BY <1>3 DEF ConfigHeard, Heard
  <2>2. /\ \A j \in DOMAIN calls' : \E k \in DOMAIN calls : calls'[j] = calls[k]
        /\ page' = page /\ failures' = failures /\ hasty' = hasty /\ overtaken \subseteq overtaken'
    BY <1>1, <2>1, AfterHearing, NoneMade
  <2>3. Grows
    BY <2>2 DEF Grows
  <2>4. DOMAIN config' = {"zone", "dns", "enabled"} /\ config'.zone = calls[i].answer
    BY <1>2, <2>1
  <2>5. ASSUME Undisturbed({"getConfig"})'
        PROVE  configRow' \in Zones /\ ZoneShown' /\ \A j \in DOMAIN calls' : ConfigCall(calls[j])'
    <3>1. configRow \in Zones /\ ZoneShown /\ \A j \in DOMAIN calls : ConfigCall(calls[j])
      BY <1>2, <2>3, <2>5, Calm
    <3>2. calls[i].answer \in Zones
      BY <2>1, <3>1 DEF ConfigCall
    <3>3. QED
      BY <2>1, <2>2, <2>4, <3>1, <3>2 DEF ConfigCall, ZoneShown
  <2>6. QED
    BY <2>4, <2>5, ConfigParts
<1>4. CASE ConfigUpdated
  <2>1. PICK i \in DOMAIN calls :
            /\ calls[i].fn = "updateConfig" /\ Hear(i, <<Call("getConfig", None, None)>>)
            /\ config' = [config EXCEPT !.enabled = FALSE] /\ configRow' = configRow
    BY <1>4 DEF ConfigUpdated, Heard, GetConfig
  <2>2. PICK new : new = <<Call("getConfig", None, None)>>
    OBVIOUS
  <2>3. /\ IsCalls(new)
        /\ \A c : Comes(c, new) => (\E k \in DOMAIN calls : c = calls[k]) \/ (c.fn = "getConfig" /\ c.answer = None)
    BY <2>2, OneMade
  <2>4. /\ \A j \in DOMAIN calls' : Comes(calls'[j], new)
        /\ \A j \in DOMAIN calls : j # i => \E k \in DOMAIN calls' : calls'[k] = calls[j]
        /\ page' = page /\ failures' = failures /\ hasty' = hasty /\ overtaken \subseteq overtaken'
    BY <1>1, <2>1, <2>2, <2>3, AfterHearing
  <2>5. Grows
    BY <2>4 DEF Grows
  <2>6. DOMAIN config' = {"zone", "dns", "enabled"} /\ config'.zone = config.zone
    BY <1>2, <2>1
  <2>7. ASSUME Undisturbed({"getConfig"})'
        PROVE  configRow' \in Zones /\ ZoneShown' /\ \A j \in DOMAIN calls' : ConfigCall(calls[j])'
    <3>1. configRow \in Zones /\ ZoneShown /\ \A j \in DOMAIN calls : ConfigCall(calls[j])
      BY <1>2, <2>5, <2>7, Calm
    <3>2. "getConfig" \in FunctionsOf(calls) => "getConfig" \in FunctionsOf(calls)'
      BY <2>1, <2>4, CalledNow, CalledNext
    <3>3. ZoneShown'
      BY <2>4, <2>6, <3>1, <3>2 DEF ZoneShown
    <3>4. \A j \in DOMAIN calls' : ConfigCall(calls[j])'
      BY <2>3, <2>4, <3>1 DEF ConfigCall
    <3>5. QED
      BY <2>1, <3>1, <3>3, <3>4
  <2>8. QED
    BY <2>6, <2>7, ConfigParts
<1>5. CASE ConfigRefused
  <2>1. PICK i \in DOMAIN calls :
            /\ calls[i].fn \in {"getConfig", "updateConfig"} /\ Refused(i) /\ UNCHANGED <<configRow, config>>
    BY <1>5 DEF ConfigRefused
  <2>2. Hear(i, <<>>)
    BY <2>1, Listening
  <2>3. /\ \A j \in DOMAIN calls' : \E k \in DOMAIN calls : calls'[j] = calls[k]
        /\ \A j \in DOMAIN calls : j # i => \E k \in DOMAIN calls' : calls'[k] = calls[j]
        /\ page' = page /\ failures' = failures /\ hasty' = hasty /\ overtaken \subseteq overtaken'
    BY <1>1, <2>2, AfterHearing, NoneMade
  <2>4. Grows
    BY <2>3 DEF Grows
  <2>5. ASSUME Undisturbed({"getConfig"})'
        PROVE  configRow' \in Zones /\ ZoneShown' /\ \A j \in DOMAIN calls' : ConfigCall(calls[j])'
    <3>1. configRow \in Zones /\ ZoneShown /\ \A j \in DOMAIN calls : ConfigCall(calls[j])
      BY <1>2, <2>4, <2>5, Calm
    <3>2. calls[i].fn # "getConfig"
      BY <2>1, <3>1, ZonesAssumption, AnswersAssumption DEF ConfigCall, Refused
    <3>3. "getConfig" \in FunctionsOf(calls) => "getConfig" \in FunctionsOf(calls)'
      BY <3>2, <2>3, CalledNow, CalledNext
    <3>4. QED
      BY <2>1, <2>3, <3>1, <3>3 DEF ConfigCall, ZoneShown
  <2>6. QED
    BY <1>2, <2>1, <2>5, ConfigParts
<1>6. QED
  BY <1>3, <1>4, <1>5

\* No step breaks it.
LEMMA ConfigNext ==
    ASSUME Typed, ConfigHeld, [Next]_vars
    PROVE  ConfigHeld'
<1> USE DEF ConfigFns
<1>1. CASE SensorStep /\ OfSensors
  BY <1>1, SensorSteps, ConfigLeft DEF Keeps, OfSensors, configVars, SensorFns
<1>2. CASE GroupStep /\ OfGroups
  BY <1>2, GroupSteps, ConfigLeft DEF Keeps, OfGroups, configVars, GroupCalls, GroupFns
<1>3. CASE LocationStep /\ OfLocations
  BY <1>3, LocationSteps, ConfigLeft DEF Keeps, OfLocations, configVars, LocationFns
<1>4. CASE UserPanelStep /\ OfUsers
  BY <1>4, UserSteps, ConfigLeft DEF Keeps, OfUsers, configVars, UserFns
<1>5. CASE LoginStep /\ OfLogin
  BY <1>5, LoginSteps, ConfigLeft DEF Keeps, OfLogin, configVars, LoginFns
<1>6. CASE ConfigStep
  BY <1>6, ConfigClicks, ConfigAnswers, ConfigHears DEF ConfigStep
<1>7. CASE SearchStep /\ OfSearch
  BY <1>7, SearchSteps, ConfigLeft DEF Keeps, OfSearch, configVars, SearchFns
<1>8. CASE GraphStep /\ OfGraphs
  <2>1. Only({}) /\ UNCHANGED <<configRow, config>>
    BY <1>8, GraphSteps DEF Keeps, OfGraphs, configVars
  <2>2. QED
    BY <2>1, ConfigLeft
<1>9. CASE CallFails \/ CallRefused \/ PageRedirected
  <2>1. UNCHANGED <<configRow, config>> /\ failures' \in Nat
    BY <1>9, AnyCall DEF panelVars, configVars
  <2>2. CASE failures' # 0
    BY <2>1, <2>2, ConfigParts DEF Undisturbed
  <2>3. CASE page' = "left" /\ calls' = <<>>
    <3>1. Only({})
      BY <1>9, <2>3, AnyCall DEF Only
    <3>2. QED
      BY <2>1, <3>1, ConfigLeft
  <2>4. ASSUME NEW i \in DOMAIN calls, calls[i].fn \notin {"login", "getConfig", "updateConfig"}, Only({calls[i].fn})
        PROVE  ConfigHeld'
    <3>1. {calls[i].fn} \cap ConfigFns = {}
      BY <2>4
    <3>2. QED
      BY <2>1, <2>4, <3>1, ConfigLeft
  <2>5. QED
    BY <1>9, <2>2, <2>3, <2>4, AnyCall
<1>10. CASE Timer \/ UNCHANGED vars
  <2>1. UNCHANGED <<page, calls, failures, overtaken, hasty>> /\ UNCHANGED <<configRow, config>>
    BY <1>10 DEF Timer, HideAlert, vars, web, panelVars, configVars
  <2>2. Only({})
    BY <2>1, Idling DEF Keeps
  <2>3. QED
    BY <2>1, <2>2, ConfigLeft
<1>11. QED
  BY <1>1, <1>2, <1>3, <1>4, <1>5, <1>6, <1>7, <1>8, <1>9, <1>10, EachStep

\* What two calls come to.
LEMMA TwoMade ==
    ASSUME NEW fn, NEW key, NEW data, NEW fn2, NEW key2, NEW data2
    PROVE  LET new == <<Call(fn, key, data), Call(fn2, key2, data2)>>
           IN  /\ IsCalls(new) /\ DOMAIN new = 1..2 /\ Len(new) = 2
               /\ new[1] = Call(fn, key, data) /\ new[2] = Call(fn2, key2, data2)
               /\ \A c : Comes(c, new) => \/ \E i \in DOMAIN calls : c = calls[i]
                                          \/ c.fn = fn /\ c.key = key /\ c.data = data /\ c.answer = None
                                          \/ c.fn = fn2 /\ c.key = key2 /\ c.data = data2 /\ c.answer = None
<1>1. PICK c1, c2 : c1 = Call(fn, key, data) /\ c2 = Call(fn2, key2, data2)
  OBVIOUS
<1>2. PICK new : new = <<c1, c2>>
  OBVIOUS
<1>3. /\ IsCall(c1) /\ c1.fn = fn /\ c1.key = key /\ c1.data = data /\ c1.answer = None
      /\ IsCall(c2) /\ c2.fn = fn2 /\ c2.key = key2 /\ c2.data = data2 /\ c2.answer = None
  BY <1>1, NewCall
<1>4. new = [i \in 1..2 |-> new[i]] /\ new[1] = c1 /\ new[2] = c2
  BY <1>2
<1>5. \A i \in 1..2 : new[i] = c1 \/ new[i] = c2
  BY <1>4
<1>6. IsCalls(new) /\ DOMAIN new = 1..2 /\ Len(new) = 2
  BY <1>3, <1>4, <1>5, SequenceOfCalls
<1>7. \A c : Comes(c, new) => (\E i \in DOMAIN calls : c = calls[i]) \/ c = c1 \/ c = c2
  BY <1>5, <1>6 DEF Comes
<1>8. QED
  BY <1>1, <1>2, <1>3, <1>4, <1>6, <1>7

-----------------------------------------------------------------------------
(* The locations. *)

\* What PlacesTyped and PlacesHeld say of the rows, of the pop-up and of a call.
PlaceRowsTyped ==
    /\ DOMAIN placeRows = Places
    /\ \A l \in Places : placeRows[l] # None => DOMAIN placeRows[l] = {"parent", "name", "type"}
PopupTyped ==
    /\ DOMAIN location = {"tree", "form", "buttons", "selected"} /\ DOMAIN location.buttons = {"kind", "of"}
    /\ location.form # None => DOMAIN location.form = {"name", "type", "chosen"}
PlaceCallTyped(c) == c.fn = "editLocation" => c.key \in Places
PlaceRowsHeld == \A l \in Places : placeRows[l] # None => NameFits(placeRows[l].name, l)
PopupHeld ==
    location.form # None =>
        /\ location.buttons.kind = "update" => NameFits(location.form.name, location.buttons.of)
        /\ location.buttons.kind \in {"create", "createRoot"} => location.form.name = None
PlaceCall(c) ==
    /\ c.fn = "updateLocation" => NameFits(c.data.name, c.key)
    /\ c.fn = "createLocation" => c.data.name = None
    /\ c.fn = "editLocation" =>
        /\ c.answer \in {None, Null, Failed, Denied} \/ NameFits(c.answer.name, c.key)
        /\ location.buttons = Buttons("update", c.key) \/ location.buttons.kind = "root"

\* They say nothing else.
LEMMA PlaceParts ==
    /\ PlacesTyped <=> PlaceRowsTyped /\ PopupTyped /\ \A i \in DOMAIN calls : PlaceCallTyped(calls[i])
    /\ PlacesHeld <=>
        (Undisturbed({"editLocation"}) => PlaceRowsHeld /\ PopupHeld /\ \A i \in DOMAIN calls : PlaceCall(calls[i]))
    /\ PlacesTyped' <=> PlaceRowsTyped' /\ PopupTyped' /\ \A i \in DOMAIN calls' : PlaceCallTyped(calls[i])'
    /\ PlacesHeld' <=>
        (Undisturbed({"editLocation"})' => PlaceRowsHeld' /\ PopupHeld' /\ \A i \in DOMAIN calls' : PlaceCall(calls[i])')
BY Zenon DEF PlacesTyped, PlacesHeld, PlaceRowsTyped, PopupTyped, PlaceCallTyped, PlaceRowsHeld, PopupHeld, PlaceCall

\* A step that keeps the rows and the pop-up as they are and makes no call of theirs.
LEMMA PlacesLeft ==
    ASSUME PlacesTyped, PlacesHeld, UNCHANGED <<placeRows, location>>, Grows,
           \A j \in DOMAIN calls' : calls'[j].fn \in LocationFns => \E i \in DOMAIN calls : calls[i] = calls'[j]
    PROVE  PlacesTyped' /\ PlacesHeld'
<1>1. PlaceRowsTyped /\ PopupTyped /\ \A i \in DOMAIN calls : PlaceCallTyped(calls[i])
  BY PlaceParts
<1>2. PlaceRowsTyped' /\ PopupTyped' /\ \A i \in DOMAIN calls' : PlaceCallTyped(calls[i])'
  BY <1>1 DEF PlaceRowsTyped, PopupTyped, PlaceCallTyped, LocationFns
<1>3. ASSUME Undisturbed({"editLocation"})'
      PROVE  PlaceRowsHeld' /\ PopupHeld' /\ \A i \in DOMAIN calls' : PlaceCall(calls[i])'
  <2>1. PlaceRowsHeld /\ PopupHeld /\ \A i \in DOMAIN calls : PlaceCall(calls[i])
    BY <1>3, PlaceParts, Calm
  <2>2. PlaceRowsHeld' /\ PopupHeld'
    BY <2>1 DEF PlaceRowsHeld, PopupHeld, NameFits
  <2>3. ASSUME NEW j \in DOMAIN calls'
        PROVE  PlaceCall(calls[j])'
    <3>1. CASE calls'[j].fn \in LocationFns
      <4>1. PICK i \in DOMAIN calls : calls[i] = calls'[j]
        BY <3>1
      <4>2. PlaceCall(calls'[j])
        BY <2>1, <4>1
      <4>3. QED
        BY <4>2 DEF PlaceCall
    <3>2. CASE calls'[j].fn \notin LocationFns
      BY <3>2 DEF PlaceCall, LocationFns
    <3>3. QED
      BY <3>1, <3>2
  <2>4. QED
    BY <2>2, <2>3
<1>4. QED
  BY <1>2, <1>3, PlaceParts

\* At first there is a row of its own name for each location.
LEMMA PlacesAtFirst ==
    ASSUME Init
    PROVE  PlacesTyped /\ PlacesHeld
<1>1. LocationInit /\ calls = CallsOfReady
  BY DEF Init
<1>2. \A i \in DOMAIN calls : calls[i].fn \in {"getGroups", "getConfig", "getUser", "getUsers"}
  BY <1>1 DEF CallsOfReady, GetGroups, GetConfig, GetUser, GetUsers, Call
<1>3. PlaceRowsTyped /\ PlaceRowsHeld
  BY <1>1, PlacesAssumption DEF LocationInit, PlaceRowsTyped, PlaceRowsHeld, NameFits
<1>4. PopupTyped /\ PopupHeld
  BY <1>1 DEF LocationInit, PopupTyped, PopupHeld, Buttons
<1>5. \A i \in DOMAIN calls : PlaceCallTyped(calls[i]) /\ PlaceCall(calls[i])
  BY <1>2 DEF PlaceCallTyped, PlaceCall
<1>6. QED
  BY <1>3, <1>4, <1>5, PlaceParts

\* A click that ends an edit saves the form, or goes on to another one; no answer for the form is to come by then.
LEMMA PlacesEndEdit ==
    ASSUME Typed, PlacesTyped, PlacesHeld, NEW fn, NEW key, NEW data, NEW new,
           new = <<>> \/ new = <<Call(fn, key, data)>>, EndEdit("locations", new), placeRows' = placeRows,
           fn \in {"getLocationChilds", "locationTypes", "updateLocation", "createLocation"},
           PopupTyped', PopupHeld => PopupHeld',
           PopupHeld /\ new # <<>> => /\ fn = "updateLocation" => NameFits(data.name, key)
                                      /\ fn = "createLocation" => data.name = None
    PROVE  PlacesTyped' /\ PlacesHeld'
<1>1. IsCalls(calls) /\ failures \in Nat
  BY DEF Typed
<1>2. PlaceRowsTyped /\ PopupTyped /\ \A i \in DOMAIN calls : PlaceCallTyped(calls[i])
  BY PlaceParts
<1>3. /\ IsCalls(new)
      /\ \A c : Comes(c, new) => \/ \E i \in DOMAIN calls : c = calls[i]
                                 \/ new # <<>> /\ c.fn = fn /\ c.key = key /\ c.data = data
  BY NoneMade, OneMade
<1>4. /\ \A j \in DOMAIN calls' : Comes(calls'[j], new)
      /\ failures' = failures /\ overtaken' = overtaken /\ hasty' = hasty \cup FunctionsOf(calls)
  BY <1>1, <1>3, AfterClick
<1>5. Grows
  BY <1>4 DEF Grows
<1>6. \A j \in DOMAIN calls' : PlaceCallTyped(calls[j])'
  BY <1>2, <1>3, <1>4 DEF PlaceCallTyped
<1>7. PlaceRowsTyped'
  BY <1>2 DEF PlaceRowsTyped
<1>8. ASSUME Undisturbed({"editLocation"})'
      PROVE  PlaceRowsHeld' /\ PopupHeld' /\ \A j \in DOMAIN calls' : PlaceCall(calls[j])'
  <2>1. PlaceRowsHeld /\ PopupHeld /\ \A j \in DOMAIN calls : PlaceCall(calls[j])
    BY <1>5, <1>8, PlaceParts, Calm
  <2>2. \A i \in DOMAIN calls : calls[i].fn # "editLocation"
    BY <1>4, <1>8, CalledNow DEF Undisturbed
  <2>3. PlaceRowsHeld'
    BY <2>1 DEF PlaceRowsHeld
  <2>4. ASSUME NEW j \in DOMAIN calls'
        PROVE  PlaceCall(calls[j])'
    <3>1. CASE \E i \in DOMAIN calls : calls'[j] = calls[i]
      <4>1. PICK i \in DOMAIN calls : calls'[j] = calls[i]
        BY <3>1
      <4>2. PlaceCall(calls'[j]) /\ calls'[j].fn # "editLocation"
        BY <2>1, <2>2, <4>1
      <4>3. QED
        BY <4>2 DEF PlaceCall
    <3>2. CASE new # <<>> /\ calls'[j].fn = fn /\ calls'[j].key = key /\ calls'[j].data = data
      BY <2>1, <3>2 DEF PlaceCall
    <3>3. QED
      BY <1>3, <1>4, <3>1, <3>2
  <2>5. QED
    BY <2>1, <2>3, <2>4
<1>9. QED
  BY <1>6, <1>7, <1>8, PlaceParts

\* The user ends an edit.
LEMMA PlacesEdited ==
    ASSUME Typed, PlacesTyped, PlacesHeld,
           AddRootLocation \/ CancelLocation \/ SaveForm \/ \E l \in Places : SelectLocation(l) \/ AddLocation(l)
    PROVE  PlacesTyped' /\ PlacesHeld'
<1>1. PopupTyped
  BY PlaceParts
<1>2. CASE \E l \in Places : SelectLocation(l)
  <2>1. PICK l \in Places :
            /\ EndEdit("locations", <<Call("getLocationChilds", l, None)>>) /\ placeRows' = placeRows
            /\ location' = [location EXCEPT !.selected = l, !.form = None, !.buttons = Buttons("selected", l)]
    BY <1>2 DEF SelectLocation, AnotherForm
  <2>2. PopupTyped' /\ PopupHeld'
    BY <1>1, <2>1 DEF PopupTyped, PopupHeld, Buttons
  <2>3. QED
    BY <2>1, <2>2, PlacesEndEdit
<1>3. ASSUME NEW kind \in {"create", "createRoot"}, NEW l,
             EndEdit("locations", <<Call("locationTypes", None, None)>>), placeRows' = placeRows,
             location' = [location EXCEPT !.form = BlankForm, !.buttons = Buttons(kind, l)]
      PROVE  PlacesTyped' /\ PlacesHeld'
  <2>1. location'.form = BlankForm /\ location'.buttons = Buttons(kind, l) /\ DOMAIN location' = DOMAIN location
    BY <1>1, <1>3 DEF PopupTyped
  <2>2. PopupTyped' /\ PopupHeld'
    BY <1>1, <2>1 DEF PopupTyped, PopupHeld, Buttons, BlankForm
  <2>3. QED
    BY <1>3, <2>2, PlacesEndEdit
<1>4. CASE AddRootLocation
  BY <1>3, <1>4 DEF AddRootLocation, AnotherForm
<1>5. CASE \E l \in Places : AddLocation(l)
  BY <1>3, <1>5 DEF AddLocation, AnotherForm
<1>6. CASE CancelLocation
  <2>1. EndEdit("locations", <<>>) /\ location' = FormClosed(location) /\ placeRows' = placeRows
    BY <1>6 DEF CancelLocation
  <2>2. PopupTyped' /\ PopupHeld'
    BY <1>1, <2>1 DEF PopupTyped, PopupHeld, Buttons, FormClosed
  <2>3. QED
    BY <2>1, <2>2, PlacesEndEdit
<1>7. CASE SaveForm
  <2>1. PICK fn : fn = IF location.buttons.kind = "update" THEN "updateLocation" ELSE "createLocation"
    OBVIOUS
  <2>2. /\ EndEdit("locations", <<Call(fn, location.buttons.of, location.form)>>) /\ UNCHANGED <<placeRows, location>>
        /\ location.buttons.kind \in {"createRoot", "create", "update"} /\ location.form # None
    BY <1>7, <2>1 DEF SaveForm, locationVars
  <2>3. PopupTyped' /\ (PopupHeld => PopupHeld')
    BY <1>1, <2>2 DEF PopupTyped, PopupHeld
  <2>4. PopupHeld => /\ fn = "updateLocation" => NameFits(location.form.name, location.buttons.of)
                     /\ fn = "createLocation" => location.form.name = None
    BY <2>1, <2>2 DEF PopupHeld
  <2>5. fn \in {"updateLocation", "createLocation"}
    BY <2>1
  <2>6. QED
    BY <2>2, <2>3, <2>4, <2>5, PlacesEndEdit
<1>8. QED
  BY <1>2, <1>4, <1>5, <1>6, <1>7

\* The other clicks: a call of a form only by EditLocation, whose buttons and row are the same.
LEMMA PlacesClicks ==
    ASSUME Typed, PlacesTyped, PlacesHeld,
           ManageLocation \/ SaveLocation
           \/ (\E l \in Places : EditLocation(l) \/ DeleteLocation(l)) \/ (\E t \in PlaceTypes : ChooseType(t))
    PROVE  PlacesTyped' /\ PlacesHeld'
<1>1. IsCalls(calls) /\ failures \in Nat
  BY DEF Typed
<1>2. PlaceRowsTyped /\ PopupTyped /\ \A i \in DOMAIN calls : PlaceCallTyped(calls[i])
  BY PlaceParts
<1>3. ASSUME NEW new, IsCalls(new), Click("locations", new), UNCHANGED placeRows, PopupTyped', PopupHeld => PopupHeld',
             location'.buttons = location.buttons,
             \A c : Comes(c, new) => \/ \E i \in DOMAIN calls : c = calls[i]
                                     \/ c.fn \in {"manageLocation", "deleteLocation"}
      PROVE  PlacesTyped' /\ PlacesHeld'
  <2>1. /\ \A j \in DOMAIN calls' : Comes(calls'[j], new)
        /\ failures' = failures /\ overtaken' = overtaken /\ hasty' = hasty
    BY <1>1, <1>3, AfterClick DEF Click
  <2>2. Grows
    BY <2>1 DEF Grows
  <2>3. PlaceRowsTyped' /\ \A j \in DOMAIN calls' : PlaceCallTyped(calls[j])'
    BY <1>2, <1>3, <2>1 DEF PlaceRowsTyped, PlaceCallTyped
  <2>4. ASSUME Undisturbed({"editLocation"})'
        PROVE  PlaceRowsHeld' /\ PopupHeld' /\ \A j \in DOMAIN calls' : PlaceCall(calls[j])'
    <3>1. PlaceRowsHeld /\ PopupHeld /\ \A j \in DOMAIN calls : PlaceCall(calls[j])
      BY <2>2, <2>4, PlaceParts, Calm
    <3>2. PlaceRowsHeld'
      BY <1>3, <3>1 DEF PlaceRowsHeld
    <3>3. ASSUME NEW j \in DOMAIN calls'
          PROVE  PlaceCall(calls[j])'
      <4>1. CASE \E i \in DOMAIN calls : calls'[j] = calls[i]
        <5>1. PlaceCall(calls'[j])
          BY <3>1, <4>1
        <5>2. QED
          BY <1>3, <5>1 DEF PlaceCall
      <4>2. CASE calls'[j].fn \in {"manageLocation", "deleteLocation"}
        BY <4>2 DEF PlaceCall
      <4>3. QED
        BY <1>3, <2>1, <4>1, <4>2
    <3>4. QED
      BY <1>3, <3>1, <3>2, <3>3
  <2>5. QED
    BY <1>3, <2>3, <2>4, PlaceParts
<1>4. CASE ManageLocation
  <2>1. PICK new : new = <<Call("manageLocation", None, None)>>
    OBVIOUS
  <2>2. Click("locations", new) /\ UNCHANGED placeRows /\ location' = [location EXCEPT !.form = None]
    BY <1>4, <2>1 DEF ManageLocation, GetRoots
  <2>3. PopupTyped' /\ PopupHeld' /\ location'.buttons = location.buttons
    BY <1>2, <2>2 DEF PopupTyped, PopupHeld
  <2>4. /\ IsCalls(new)
        /\ \A c : Comes(c, new) => (\E i \in DOMAIN calls : c = calls[i]) \/ c.fn = "manageLocation"
    BY <2>1, OneMade
  <2>5. QED
    BY <1>3, <2>2, <2>3, <2>4
<1>5. CASE SaveLocation
  <2>1. Click("locations", <<>>) /\ UNCHANGED placeRows /\ location' = location
    BY <1>5 DEF SaveLocation
  <2>2. PopupTyped' /\ (PopupHeld => PopupHeld') /\ location'.buttons = location.buttons
    BY <1>2, <2>1 DEF PopupTyped, PopupHeld
  <2>3. QED
    BY <1>3, <2>1, <2>2, NoneMade
<1>6. ASSUME NEW l \in Places, DeleteLocation(l)
      PROVE  PlacesTyped' /\ PlacesHeld'
  <2>1. PICK new : new = <<Call("deleteLocation", l, None)>>
    OBVIOUS
  <2>2. Click("locations", new) /\ UNCHANGED placeRows /\ location' = location
    BY <1>6, <2>1 DEF DeleteLocation, InLocations
  <2>3. PopupTyped' /\ (PopupHeld => PopupHeld') /\ location'.buttons = location.buttons
    BY <1>2, <2>2 DEF PopupTyped, PopupHeld
  <2>4. /\ IsCalls(new)
        /\ \A c : Comes(c, new) => (\E i \in DOMAIN calls : c = calls[i]) \/ c.fn = "deleteLocation"
    BY <2>1, OneMade
  <2>5. QED
    BY <1>3, <2>2, <2>3, <2>4
<1>7. ASSUME NEW t \in PlaceTypes, ChooseType(t)
      PROVE  PlacesTyped' /\ PlacesHeld'
  <2>1. /\ Click("locations", <<>>) /\ UNCHANGED placeRows /\ location.form # None
        /\ location' = [location EXCEPT !.form.type = t, !.form.chosen = TRUE]
    BY <1>7 DEF ChooseType, InLocations
  <2>2. PICK form : form = [location.form EXCEPT !.type = t, !.chosen = TRUE]
    OBVIOUS
  <2>3. DOMAIN form = {"name", "type", "chosen"} /\ form.name = location.form.name
    BY <1>2, <2>1, <2>2 DEF PopupTyped
  <2>4. location'.form = form /\ location'.buttons = location.buttons /\ DOMAIN location' = DOMAIN location
    BY <1>2, <2>1, <2>2 DEF PopupTyped
  <2>5. PopupTyped' /\ (PopupHeld => PopupHeld')
    BY <1>2, <2>1, <2>3, <2>4 DEF PopupTyped, PopupHeld
  <2>6. QED
    BY <1>3, <2>1, <2>4, <2>5, NoneMade
<1>8. ASSUME NEW l \in Places, EditLocation(l)
      PROVE  PlacesTyped' /\ PlacesHeld'
  <2>1. PICK turn : turn = clicks
    OBVIOUS
  <2>2. PICK new : new = <<Call("editLocation", l, turn), Call("editLocationTypes", turn, None)>>
    OBVIOUS
  <2>3. /\ Click("locations", new) /\ UNCHANGED placeRows /\ location.buttons = Buttons("selected", l)
        /\ location' = [location EXCEPT !.form = BlankForm, !.buttons = Buttons("update", l)]
    BY <1>8, <2>1, <2>2 DEF EditLocation, InLocations
  <2>4. /\ IsCalls(new)
        /\ \A c : Comes(c, new) => \/ \E i \in DOMAIN calls : c = calls[i]
                                   \/ c.fn = "editLocation" /\ c.key = l /\ c.answer = None
                                   \/ c.fn = "editLocationTypes"
    BY <2>2, TwoMade
  <2>5. /\ \A j \in DOMAIN calls' : Comes(calls'[j], new)
        /\ failures' = failures /\ overtaken' = overtaken /\ hasty' = hasty
    BY <1>1, <2>3, <2>4, AfterClick DEF Click
  <2>6. Grows
    BY <2>5 DEF Grows
  <2>7. location'.form = BlankForm /\ location'.buttons = Buttons("update", l) /\ DOMAIN location' = DOMAIN location
    BY <1>2, <2>3 DEF PopupTyped
  <2>8. PopupTyped' /\ PopupHeld'
    BY <1>2, <2>7 DEF PopupTyped, PopupHeld, Buttons, BlankForm, NameFits
  <2>9. PlaceRowsTyped' /\ \A j \in DOMAIN calls' : PlaceCallTyped(calls[j])'
    BY <1>2, <2>3, <2>4, <2>5 DEF PlaceRowsTyped, PlaceCallTyped
  <2>10. ASSUME Undisturbed({"editLocation"})'
         PROVE  PlaceRowsHeld' /\ PopupHeld' /\ \A j \in DOMAIN calls' : PlaceCall(calls[j])'
    <3>1. PlaceRowsHeld /\ PopupHeld /\ \A j \in DOMAIN calls : PlaceCall(calls[j])
      BY <2>6, <2>10, PlaceParts, Calm
    <3>2. PlaceRowsHeld'
      BY <2>3, <3>1 DEF PlaceRowsHeld
    <3>3. \A i \in DOMAIN calls : calls[i].fn # "editLocation"
      <4>1. location.buttons.kind = "selected" /\ \A k : Buttons("update", k).kind = "update"
        BY <2>3 DEF Buttons
      <4>2. QED
        BY <3>1, <4>1 DEF PlaceCall
    <3>4. ASSUME NEW j \in DOMAIN calls'
          PROVE  PlaceCall(calls[j])'
      <4>1. CASE \E i \in DOMAIN calls : calls'[j] = calls[i]
        <5>1. PlaceCall(calls'[j]) /\ calls'[j].fn # "editLocation"
          BY <3>1, <3>3, <4>1
        <5>2. QED
          BY <5>1 DEF PlaceCall
      <4>2. CASE calls'[j].fn = "editLocation" /\ calls'[j].key = l /\ calls'[j].answer = None
        BY <2>7, <4>2 DEF PlaceCall
      <4>3. CASE calls'[j].fn = "editLocationTypes"
        BY <4>3 DEF PlaceCall
      <4>4. QED
        BY <2>4, <2>5, <4>1, <4>2, <4>3
    <3>5. QED
      BY <2>8, <3>2, <3>4
  <2>11. QED
    BY <2>8, <2>9, <2>10, PlaceParts
<1>9. QED
  BY <1>4, <1>5, <1>6, <1>7, <1>8

\* The servlet: what it stores is what a form of that row was filled with.
LEMMA PlacesAnswers ==
    ASSUME Typed, PlacesTyped, PlacesHeld, ReadPlaces \/ ReadPlace \/ ReadTypes \/ StorePlace \/ RemovePlace
    PROVE  PlacesTyped' /\ PlacesHeld'
<1>1. IsCalls(calls) /\ failures \in Nat
  BY DEF Typed
<1>2. PlaceRowsTyped /\ PopupTyped /\ \A i \in DOMAIN calls : PlaceCallTyped(calls[i])
  BY PlaceParts
<1>3. ASSUME NEW i \in DOMAIN calls, NEW answer, Executed(i, answer) \/ Reply(i, answer), location' = location,
             PlaceRowsTyped',
             PlaceRowsHeld /\ PlaceCall(calls[i]) => PlaceRowsHeld',
             PlaceRowsHeld /\ calls[i].fn = "editLocation" => answer = Null \/ NameFits(answer.name, calls[i].key)
      PROVE  PlacesTyped' /\ PlacesHeld'
  <2>1. /\ page' = page /\ hasty' = hasty /\ DOMAIN calls' = DOMAIN calls /\ overtaken \subseteq overtaken'
        /\ failures' = failures \/ failures' = failures + 1
        /\ \A j \in DOMAIN calls : j # i => calls'[j] = calls[j]
        /\ \E a \in {answer, Failed, Denied} :
              /\ calls'[i] = [fn |-> calls[i].fn, key |-> calls[i].key, data |-> calls[i].data, answer |-> a]
    BY <1>1, <1>3, AfterAnswer
  <2>2. Grows
    BY <1>1, <2>1 DEF Grows
  <2>3. PICK a \in {answer, Failed, Denied} :
            calls'[i] = [fn |-> calls[i].fn, key |-> calls[i].key, data |-> calls[i].data, answer |-> a]
    BY <2>1
  <2>4. calls'[i].fn = calls[i].fn /\ calls'[i].key = calls[i].key /\ calls'[i].data = calls[i].data /\ calls'[i].answer = a
    BY <2>3
  <2>5. \A j \in DOMAIN calls' : PlaceCallTyped(calls[j])'
    BY <1>2, <2>1, <2>4 DEF PlaceCallTyped
  <2>6. PopupTyped'
    BY <1>2, <1>3 DEF PopupTyped
  <2>7. ASSUME Undisturbed({"editLocation"})'
        PROVE  PlaceRowsHeld' /\ PopupHeld' /\ \A j \in DOMAIN calls' : PlaceCall(calls[j])'
    <3>1. PlaceRowsHeld /\ PopupHeld /\ \A j \in DOMAIN calls : PlaceCall(calls[j])
      BY <2>2, <2>7, PlaceParts, Calm
    <3>2. PlaceRowsHeld' /\ PopupHeld'
      BY <1>3, <3>1 DEF PopupHeld
    <3>3. PlaceCall(calls[i])'
      <4>1. PlaceCall(calls[i])
        BY <3>1
      <4>2. calls[i].fn = "editLocation" => a \in {None, Null, Failed, Denied} \/ NameFits(a.name, calls[i].key)
        BY <1>3, <3>1
      <4>3. QED
        BY <1>3, <2>4, <4>1, <4>2 DEF PlaceCall
    <3>4. ASSUME NEW j \in DOMAIN calls', j # i
          PROVE  PlaceCall(calls[j])'
      <4>1. PlaceCall(calls[j]) /\ calls'[j] = calls[j]
        BY <2>1, <3>1, <3>4
      <4>2. QED
        BY <1>3, <4>1 DEF PlaceCall
    <3>5. QED
      BY <3>2, <3>3, <3>4
  <2>8. QED
    BY <1>3, <2>5, <2>6, <2>7, PlaceParts
<1>4. CASE ReadPlaces \/ ReadTypes
  <2>1. PICK i, answer :
            /\ i \in DOMAIN calls /\ calls[i].fn # "editLocation"
            /\ Reply(i, answer) /\ UNCHANGED <<placeRows, location>>
    BY <1>4 DEF ReadPlaces, ReadTypes, locationVars
  <2>2. PlaceRowsTyped' /\ (PlaceRowsHeld => PlaceRowsHeld')
    BY <1>2, <2>1 DEF PlaceRowsTyped, PlaceRowsHeld
  <2>3. QED
    BY <1>3, <2>1, <2>2
<1>5. CASE ReadPlace
  <2>1. PICK i, answer :
            /\ i \in DOMAIN calls
            /\ calls[i].fn = "editLocation" /\ Reply(i, answer) /\ UNCHANGED <<placeRows, location>>
            /\ answer = IF placeRows[calls[i].key] = None THEN Null ELSE placeRows[calls[i].key]
    BY <1>5 DEF ReadPlace, locationVars
  <2>2. PlaceRowsTyped' /\ (PlaceRowsHeld => PlaceRowsHeld')
    BY <1>2, <2>1 DEF PlaceRowsTyped, PlaceRowsHeld
  <2>3. calls[i].key \in Places
    BY <1>2, <2>1 DEF PlaceCallTyped
  <2>4. PlaceRowsHeld => answer = Null \/ NameFits(answer.name, calls[i].key)
    BY <2>1, <2>3 DEF PlaceRowsHeld
  <2>5. QED
    BY <1>3, <2>1, <2>2, <2>4
<1>6. CASE StorePlace
  <2>1. PICK i \in DOMAIN calls :
            /\ calls[i].fn \in {"createLocation", "updateLocation"}
            /\ \/ calls[i].data.type = None /\ Reply(i, Denied) /\ UNCHANGED placeRows
               \/ (\E free : TableFull(i, free)) /\ UNCHANGED placeRows
               \/ \E l \in IF calls[i].fn = "createLocation" THEN {k \in Places : placeRows[k] = None} ELSE {calls[i].key} :
                    /\ Executed(i, "done")
                    /\ placeRows' = IF calls[i].fn = "createLocation"
                                    THEN [placeRows EXCEPT ![l] =
                                            [parent |-> calls[i].key, name |-> calls[i].data.name, type |-> calls[i].data.type]]
                                    ELSE IF placeRows[l] = None THEN placeRows
                                    ELSE [placeRows EXCEPT ![l].name = calls[i].data.name, ![l].type = calls[i].data.type]
            /\ location' = location
    BY <1>6 DEF StorePlace
  <2>2. CASE (Reply(i, Denied) \/ \E free : TableFull(i, free)) /\ UNCHANGED placeRows
    <3>1. Reply(i, Denied)
      BY <2>2 DEF TableFull
    <3>2. PlaceRowsTyped' /\ (PlaceRowsHeld => PlaceRowsHeld')
      BY <1>2, <2>2 DEF PlaceRowsTyped, PlaceRowsHeld
    <3>3. QED
      BY <1>3, <2>1, <3>1, <3>2
  <2>3. ASSUME calls[i].fn = "createLocation", NEW l \in Places, Executed(i, "done"),
               placeRows' = [placeRows EXCEPT ![l] =
                                [parent |-> calls[i].key, name |-> calls[i].data.name, type |-> calls[i].data.type]]
        PROVE  PlacesTyped' /\ PlacesHeld'
    <3>1. /\ DOMAIN placeRows' = Places /\ \A k \in Places : k # l => placeRows'[k] = placeRows[k]
          /\ placeRows'[l] = [parent |-> calls[i].key, name |-> calls[i].data.name, type |-> calls[i].data.type]
      BY <1>2, <2>3 DEF PlaceRowsTyped
    <3>2. DOMAIN placeRows'[l] = {"parent", "name", "type"} /\ placeRows'[l].name = calls[i].data.name
      BY <3>1
    <3>3. PlaceRowsTyped'
      BY <1>2, <3>1, <3>2 DEF PlaceRowsTyped
    <3>4. PlaceRowsHeld /\ PlaceCall(calls[i]) => PlaceRowsHeld'
      BY <2>3, <3>1, <3>2 DEF PlaceRowsHeld, PlaceCall, NameFits
    <3>5. QED
      BY <1>3, <2>1, <2>3, <3>3, <3>4
  <2>4. ASSUME calls[i].fn = "updateLocation", Executed(i, "done"),
               NEW l, l = calls[i].key,
               placeRows' = IF placeRows[l] = None THEN placeRows
                            ELSE [placeRows EXCEPT ![l].name = calls[i].data.name, ![l].type = calls[i].data.type]
        PROVE  PlacesTyped' /\ PlacesHeld'
    <3>1. CASE placeRows' = placeRows
      <4>1. PlaceRowsTyped' /\ (PlaceRowsHeld => PlaceRowsHeld')
        BY <1>2, <3>1 DEF PlaceRowsTyped, PlaceRowsHeld
      <4>2. QED
        BY <1>3, <2>1, <2>4, <4>1
    <3>2. CASE /\ placeRows[l] # None
               /\ placeRows' = [placeRows EXCEPT ![l].name = calls[i].data.name, ![l].type = calls[i].data.type]
      <4>1. PICK row : row = [placeRows[l] EXCEPT !.name = calls[i].data.name, !.type = calls[i].data.type]
        OBVIOUS
      <4>2. /\ DOMAIN placeRows' = Places /\ \A k \in Places : k # l => placeRows'[k] = placeRows[k]
            /\ l \in Places => placeRows'[l] = row
        BY <1>2, <3>2, <4>1 DEF PlaceRowsTyped
      <4>3. l \in Places => DOMAIN row = {"parent", "name", "type"} /\ row.name = calls[i].data.name
        BY <1>2, <3>2, <4>1 DEF PlaceRowsTyped
      <4>4. PlaceRowsTyped'
        BY <1>2, <4>2, <4>3 DEF PlaceRowsTyped
      <4>5. PlaceRowsHeld /\ PlaceCall(calls[i]) => PlaceRowsHeld'
        BY <2>4, <4>2, <4>3 DEF PlaceRowsHeld, PlaceCall
      <4>6. QED
        BY <1>3, <2>1, <2>4, <4>4, <4>5
    <3>3. QED
      BY <2>4, <3>1, <3>2
  <2>5. QED
    BY <2>1, <2>2, <2>3, <2>4, Zenon
<1>7. CASE RemovePlace
  <2>1. PICK i \in DOMAIN calls :
            /\ calls[i].fn = "deleteLocation" /\ Executed(i, "done") /\ location' = location
            /\ placeRows' = placeRows \/ placeRows' = [placeRows EXCEPT ![calls[i].key] = None]
    BY <1>7 DEF RemovePlace
  <2>2. DOMAIN placeRows' = Places /\ \A k \in Places : placeRows'[k] = placeRows[k] \/ placeRows'[k] = None
    BY <1>2, <2>1 DEF PlaceRowsTyped
  <2>3. PlaceRowsTyped' /\ (PlaceRowsHeld => PlaceRowsHeld')
    BY <1>2, <2>2 DEF PlaceRowsTyped, PlaceRowsHeld
  <2>4. QED
    BY <1>3, <2>1, <2>3
<1>8. QED
  BY <1>4, <1>5, <1>6, <1>7

\* A call that is still under way, but for the type that was left with it.
Kept(c, d) ==
    /\ c.fn = d.fn /\ c.key = d.key /\ c.answer = d.answer
    /\ d.fn # "editLocationTypes" => c = d

\* The pop-up hears: the answer for a form comes to the form of its row, or to none that is saved.
LEMMA PlacesHear ==
    ASSUME Typed, PlacesTyped, PlacesHeld, RootsHeard \/ ChildrenHeard \/ PlaceHeard \/ TypesHeard \/ PlaceSaved
    PROVE  PlacesTyped' /\ PlacesHeld'
<1>1. IsCalls(calls) /\ failures \in Nat
  BY DEF Typed
<1>2. PlaceRowsTyped /\ PopupTyped /\ \A i \in DOMAIN calls : PlaceCallTyped(calls[i])
  BY PlaceParts
<1>3. ASSUME Grows, PopupTyped', placeRows' = placeRows,
             \A j \in DOMAIN calls' : (\E i \in DOMAIN calls : Kept(calls'[j], calls[i])) \/ calls'[j].fn = "manageLocation",
             location'.buttons = location.buttons \/ location'.buttons.kind = "root",
             PopupHeld /\ (\A i \in DOMAIN calls : PlaceCall(calls[i])) => PopupHeld'
      PROVE  PlacesTyped' /\ PlacesHeld'
  <2>1. PlaceRowsTyped' /\ \A j \in DOMAIN calls' : PlaceCallTyped(calls[j])'
    <3>1. PlaceRowsTyped'
      BY <1>2, <1>3 DEF PlaceRowsTyped
    <3>2. \A j \in DOMAIN calls' : \/ \E i \in DOMAIN calls : calls'[j].fn = calls[i].fn /\ calls'[j].key = calls[i].key
                                   \/ calls'[j].fn = "manageLocation"
      BY <1>3, Zenon DEF Kept
    <3>3. QED
      BY <1>2, <3>1, <3>2 DEF PlaceCallTyped
  <2>2. ASSUME Undisturbed({"editLocation"})'
        PROVE  PlaceRowsHeld' /\ PopupHeld' /\ \A j \in DOMAIN calls' : PlaceCall(calls[j])'
    <3>1. PlaceRowsHeld /\ PopupHeld /\ \A j \in DOMAIN calls : PlaceCall(calls[j])
      BY <1>3, <2>2, PlaceParts, Calm
    <3>2. PlaceRowsHeld'
      BY <1>3, <3>1 DEF PlaceRowsHeld
    <3>3. PopupHeld'
      BY <1>3, <3>1
    <3>4. ASSUME NEW j \in DOMAIN calls'
          PROVE  PlaceCall(calls[j])'
      <4>1. CASE calls'[j].fn \in {"manageLocation", "editLocationTypes"}
        BY <4>1 DEF PlaceCall
      <4>2. CASE \E i \in DOMAIN calls : calls'[j] = calls[i]
        <5>1. PlaceCall(calls'[j])
          BY <3>1, <4>2
        <5>2. QED
          BY <1>3, <5>1 DEF PlaceCall
      <4>3. ASSUME NEW i \in DOMAIN calls, Kept(calls'[j], calls[i])
            PROVE  PlaceCall(calls[j])'
        BY <4>1, <4>2, <4>3 DEF Kept
      <4>4. QED
        BY <1>3, <4>1, <4>3, Zenon
    <3>5. QED
      BY <3>2, <3>3, <3>4
  <2>3. QED
    BY <1>3, <2>1, <2>2, PlaceParts
<1>4. ASSUME NEW i \in DOMAIN calls, Hear(i, <<>>), PopupTyped', placeRows' = placeRows,
             location'.buttons = location.buttons \/ location'.buttons.kind = "root",
             PopupHeld => PopupHeld'
      PROVE  PlacesTyped' /\ PlacesHeld'
  <2>1. /\ \A j \in DOMAIN calls' : \E k \in DOMAIN calls : calls'[j] = calls[k]
        /\ failures' = failures /\ hasty' = hasty /\ overtaken \subseteq overtaken'
    BY <1>1, <1>4, AfterHearing, NoneMade
  <2>2. Grows
    BY <2>1 DEF Grows
  <2>3. \A j \in DOMAIN calls' : \E k \in DOMAIN calls : Kept(calls'[j], calls[k])
    BY <2>1 DEF Kept
  <2>4. QED
    BY <1>3, <1>4, <2>2, <2>3
<1>5. CASE RootsHeard
  <2>1. PICK i, tree :
            /\ i \in DOMAIN calls
            /\ Hear(i, <<>>) /\ placeRows' = placeRows
            /\ location' = location \/ location' = [location EXCEPT !.tree = tree, !.buttons = Buttons("root", None)]
    BY <1>5, Listening DEF RootsHeard
  <2>2. CASE location' = location
    BY <1>2, <1>4, <2>1, <2>2 DEF PopupTyped, PopupHeld
  <2>3. CASE location' = [location EXCEPT !.tree = tree, !.buttons = Buttons("root", None)]
    <3>1. location'.form = location.form /\ location'.buttons = Buttons("root", None) /\ DOMAIN location' = DOMAIN location
      BY <1>2, <2>3 DEF PopupTyped
    <3>2. PopupTyped' /\ PopupHeld' /\ location'.buttons.kind = "root"
      BY <1>2, <3>1 DEF PopupTyped, PopupHeld, Buttons
    <3>3. QED
      BY <1>4, <2>1, <3>2
  <2>4. QED
    BY <2>1, <2>2, <2>3
<1>6. CASE ChildrenHeard
  <2>1. PICK i, tree :
            /\ i \in DOMAIN calls
            /\ Hear(i, <<>>) /\ placeRows' = placeRows
            /\ location' = location \/ location' = [location EXCEPT !.tree = tree]
    BY <1>6, Listening DEF ChildrenHeard
  <2>2. location'.form = location.form /\ location'.buttons = location.buttons /\ DOMAIN location' = DOMAIN location
    BY <1>2, <2>1 DEF PopupTyped
  <2>3. PopupTyped' /\ (PopupHeld => PopupHeld')
    BY <1>2, <2>2 DEF PopupTyped, PopupHeld
  <2>4. QED
    BY <1>4, <2>1, <2>2, <2>3
<1>7. CASE TypesHeard
  <2>1. PICK i, t :
            /\ i \in DOMAIN calls
            /\ Hear(i, <<>>) /\ placeRows' = placeRows
            /\ location' = IF location.form = None THEN location ELSE [location EXCEPT !.form.type = t]
    BY <1>7, Listening DEF TypesHeard
  <2>2. PICK form : form = IF location.form = None THEN None ELSE [location.form EXCEPT !.type = t]
    OBVIOUS
  <2>3. location.form # None => DOMAIN form = {"name", "type", "chosen"} /\ form.name = location.form.name
    BY <1>2, <2>2 DEF PopupTyped
  <2>4. location'.form = form /\ location'.buttons = location.buttons /\ DOMAIN location' = DOMAIN location
    BY <1>2, <2>1, <2>2 DEF PopupTyped
  <2>5. PopupTyped' /\ (PopupHeld => PopupHeld')
    BY <1>2, <2>2, <2>3, <2>4 DEF PopupTyped, PopupHeld
  <2>6. QED
    BY <1>4, <2>1, <2>4, <2>5
<1>8. CASE PlaceSaved
  <2>1. PICK i \in DOMAIN calls :
            /\ Hear(i, <<Call("manageLocation", None, None)>>) /\ placeRows' = placeRows
            /\ location' = [location EXCEPT !.form = None] \/ location' = FormClosed(location)
    BY <1>8, Listening DEF PlaceSaved, GetRoots
  <2>2. PICK new : new = <<Call("manageLocation", None, None)>>
    OBVIOUS
  <2>3. /\ IsCalls(new)
        /\ \A c : Comes(c, new) => (\E k \in DOMAIN calls : c = calls[k]) \/ c.fn = "manageLocation"
    BY <2>2, OneMade
  <2>4. /\ \A j \in DOMAIN calls' : Comes(calls'[j], new)
        /\ failures' = failures /\ hasty' = hasty /\ overtaken \subseteq overtaken'
    BY <1>1, <2>1, <2>2, <2>3, AfterHearing
  <2>5. Grows
    BY <2>4 DEF Grows
  <2>6. \A j \in DOMAIN calls' : (\E k \in DOMAIN calls : Kept(calls'[j], calls[k])) \/ calls'[j].fn = "manageLocation"
    BY <2>3, <2>4 DEF Kept
  <2>7. PopupTyped' /\ PopupHeld' /\ (location'.buttons = location.buttons \/ location'.buttons.kind = "root")
    <3>1. /\ location'.form = None /\ DOMAIN location' = DOMAIN location
          /\ location'.buttons = location.buttons \/ location'.buttons = Buttons("root", None)
      BY <1>2, <2>1 DEF PopupTyped, FormClosed
    <3>2. DOMAIN Buttons("root", None) = {"kind", "of"} /\ Buttons("root", None).kind = "root"
      BY DEF Buttons
    <3>3. QED
      BY <1>2, <3>1, <3>2 DEF PopupTyped, PopupHeld
  <2>8. QED
    BY <1>3, <2>1, <2>5, <2>6, <2>7
<1>9. CASE PlaceHeard
  <2>1. PICK i \in DOMAIN calls :
            /\ calls[i].fn = "editLocation" /\ calls[i].answer \notin {None, Failed, Denied}
            /\ overtaken' = overtaken \cup {calls[j].fn : j \in 1..(i - 1)}
            /\ calls' = [j \in 1..(Len(calls) - 1) |->
                    LET d == RemoveAt(calls, i)[j]
                    IN  IF d.fn = "editLocationTypes" /\ d.key = calls[i].data /\ calls[i].answer # Null
                        THEN [d EXCEPT !.data = calls[i].answer.type] ELSE d]
            /\ location' = IF location.form = None \/ calls[i].answer = Null THEN location
                           ELSE [location EXCEPT !.form.name = calls[i].answer.name]
            /\ UNCHANGED <<page, clicks, failures, hasty, placeRows>>
    BY <1>9, Zenon DEF PlaceHeard
  <2>2. /\ Len(calls) - 1 \in Nat /\ DOMAIN calls = 1..Len(calls) /\ DOMAIN calls' = 1..(Len(calls) - 1)
        /\ \A j \in 1..(Len(calls) - 1) :
                LET d == calls[IF j < i THEN j ELSE j + 1]
                IN  /\ calls'[j].fn = d.fn /\ calls'[j].key = d.key /\ calls'[j].answer = d.answer
                    /\ d.fn # "editLocationTypes" => calls'[j] = d
    BY <1>1, <2>1, HearingPlace
  <2>3. Grows
    BY <2>1 DEF Grows
  <2>4. ASSUME NEW j \in DOMAIN calls'
        PROVE  \E k \in DOMAIN calls : Kept(calls'[j], calls[k])
    <3>1. PICK k : k = IF j < i THEN j ELSE j + 1
      OBVIOUS
    <3>2. k \in DOMAIN calls
      BY <2>2, <3>1
    <3>3. QED
      BY <2>2, <3>1, <3>2 DEF Kept
  <2>5. CASE location' = location
    <3>1. PopupTyped' /\ (PopupHeld => PopupHeld') /\ location'.buttons = location.buttons
      BY <1>2, <2>5 DEF PopupTyped, PopupHeld
    <3>2. QED
      BY <1>3, <2>1, <2>3, <2>4, <3>1
  <2>6. CASE /\ location.form # None /\ calls[i].answer # Null
             /\ location' = [location EXCEPT !.form.name = calls[i].answer.name]
    <3>1. PICK form : form = [location.form EXCEPT !.name = calls[i].answer.name]
      OBVIOUS
    <3>2. DOMAIN form = {"name", "type", "chosen"} /\ form.name = calls[i].answer.name
      BY <1>2, <2>6, <3>1 DEF PopupTyped
    <3>3. location'.form = form /\ location'.buttons = location.buttons /\ DOMAIN location' = DOMAIN location
      BY <1>2, <2>6, <3>1 DEF PopupTyped
    <3>4. PopupTyped'
      BY <1>2, <3>2, <3>3 DEF PopupTyped
    <3>5. PlaceCall(calls[i]) => PopupHeld'
      <4>1. PlaceCall(calls[i]) => \/ /\ NameFits(calls[i].answer.name, calls[i].key)
                                      /\ location.buttons.kind = "update" /\ location.buttons.of = calls[i].key
                                   \/ location.buttons.kind = "root"
        BY <2>1, <2>6 DEF PlaceCall, Buttons
      <4>2. QED
        BY <3>2, <3>3, <4>1 DEF PopupHeld
    <3>6. QED
      BY <1>3, <2>1, <2>3, <2>4, <3>3, <3>4, <3>5
  <2>7. QED
    BY <2>1, <2>5, <2>6
<1>10. QED
  BY <1>5, <1>6, <1>7, <1>8, <1>9

\* No step breaks it.
LEMMA PlacesNext ==
    ASSUME Typed, PlacesTyped, PlacesHeld, [Next]_vars
    PROVE  PlacesTyped' /\ PlacesHeld'
<1>1. ASSUME NEW F, F \cap LocationFns = {}, Only(F), UNCHANGED <<placeRows, location>>
      PROVE  PlacesTyped' /\ PlacesHeld'
  <2>1. /\ Grows
        /\ \A j \in DOMAIN calls' : calls'[j].fn \in LocationFns => \E i \in DOMAIN calls : calls[i] = calls'[j]
    BY <1>1, LeftAlone
  <2>2. QED
    BY <1>1, <2>1, PlacesLeft
<1> USE DEF LocationFns
<1>2. CASE SensorStep /\ OfSensors
  BY <1>1, <1>2, SensorSteps DEF Keeps, OfSensors, locationVars, SensorFns
<1>3. CASE GroupStep /\ OfGroups
  BY <1>1, <1>3, GroupSteps DEF Keeps, OfGroups, locationVars, GroupCalls, GroupFns
<1>4. CASE LocationStep
  BY <1>4, PlacesClicks, PlacesEdited, PlacesAnswers, PlacesHear DEF LocationStep
<1>5. CASE UserPanelStep /\ OfUsers
  BY <1>1, <1>5, UserSteps DEF Keeps, OfUsers, locationVars, UserFns
<1>6. CASE LoginStep /\ OfLogin
  BY <1>1, <1>6, LoginSteps DEF Keeps, OfLogin, locationVars, LoginFns
<1>7. CASE ConfigStep /\ OfConfig
  BY <1>1, <1>7, ConfigSteps DEF Keeps, OfConfig, locationVars, ConfigFns
<1>8. CASE SearchStep /\ OfSearch
  BY <1>1, <1>8, SearchSteps DEF Keeps, OfSearch, locationVars, SearchFns
<1>9. CASE GraphStep /\ OfGraphs
  <2>1. Only({}) /\ UNCHANGED <<placeRows, location>>
    BY <1>9, GraphSteps DEF Keeps, OfGraphs, locationVars
  <2>2. QED
    BY <1>1, <2>1
<1>10. CASE CallFails \/ CallRefused \/ PageRedirected
  <2>1. UNCHANGED <<placeRows, location>> /\ failures' \in Nat /\ Grows
    BY <1>10, AnyCall DEF panelVars, locationVars
  <2>2. CASE /\ failures' # 0 /\ DOMAIN calls' = DOMAIN calls
             /\ \A j \in DOMAIN calls :
                    \/ calls'[j] = calls[j]
                    \/ \E bad \in {Failed, Denied} :
                        calls'[j] = [fn |-> calls[j].fn, key |-> calls[j].key, data |-> calls[j].data, answer |-> bad]
    <3>1. \A j \in DOMAIN calls : calls'[j].fn = calls[j].fn /\ calls'[j].key = calls[j].key
      BY <2>2
    <3>2. PlaceRowsTyped /\ PopupTyped /\ \A i \in DOMAIN calls : PlaceCallTyped(calls[i])
      BY PlaceParts
    <3>3. PlaceRowsTyped' /\ PopupTyped' /\ \A i \in DOMAIN calls' : PlaceCallTyped(calls[i])'
      BY <2>1, <2>2, <3>1, <3>2 DEF PlaceRowsTyped, PopupTyped, PlaceCallTyped
    <3>4. QED
      BY <2>2, <3>3, PlaceParts DEF Undisturbed
  <2>3. CASE page' = "left" /\ calls' = <<>>
    <3>1. DOMAIN calls' = {}
      BY <2>3
    <3>2. QED
      BY <2>1, <3>1, PlacesLeft
  <2>4. ASSUME NEW i \in DOMAIN calls, Refused(i)
        PROVE  PlacesTyped' /\ PlacesHeld'
    <3>1. Hear(i, <<>>)
      BY <2>4, Listening
    <3>2. \A j \in DOMAIN calls' : \E k \in DOMAIN calls : calls'[j] = calls[k]
      BY <3>1, AfterHearing, NoneMade DEF Typed
    <3>3. QED
      BY <2>1, <3>2, PlacesLeft
  <2>5. QED
    BY <1>10, <2>2, <2>3, <2>4, AnyCall
<1>11. CASE Timer \/ UNCHANGED vars
  <2>1. UNCHANGED <<page, calls, failures, overtaken, hasty>> /\ UNCHANGED <<placeRows, location>>
    BY <1>11 DEF Timer, HideAlert, vars, web, panelVars, locationVars
  <2>2. Only({})
    BY <2>1, Idling DEF Keeps
  <2>3. QED
    BY <1>1, <2>1, <2>2
<1>12. QED
  BY <1>2, <1>3, <1>4, <1>5, <1>6, <1>7, <1>8, <1>9, <1>10, <1>11, EachStep

-----------------------------------------------------------------------------
(* The users. *)

\* What UsersTyped and UsersHeld say of the rows, of the page and of a call.
UserRowsTyped == userRows \in [Users -> UserRow \cup {None}]
UserPageTyped ==
    /\ DOMAIN userPage = {"cookie", "isAdmin", "me", "table", "profile", "editing", "open", "saves", "form"}
    /\ userPage.isAdmin \in BOOLEAN /\ userPage.profile \in UserRow /\ userPage.form \in UserRow
    /\ userPage.open \in BOOLEAN /\ userPage.editing \in BOOLEAN
    /\ userPage.me \in Users \cup {None} /\ userPage.saves \in Users \cup {None}
    /\ userPage.editing => userPage.me # None
TableTyped == \A u \in DOMAIN userPage.table : u \in Users /\ userRows[u] # None
UserCallTyped(c) ==
    /\ c.fn \in {"createUser", "updateUser", "updateProfile"} => c.data \in UserRow
    /\ c.fn \in {"updateUser", "updateProfile"} => c.key \in Users
    /\ c.fn \in {"getUser", "editUser"} => c.answer \in {None, Null, Failed, Denied} \cup Account
    /\ c.fn = "editUser" => c.key \in Users /\ userRows[c.key] # None
    /\ c.fn = "getUsers" /\ c.answer \notin {None, Failed, Denied} =>
        \A u \in DOMAIN c.answer : u \in Users /\ userRows[u] # None
UserRowsHeld == \A u \in Users : userRows[u] # None => IsOf(userRows[u], u)
ProfileHeld == userPage.me # None => IsOf(userPage.profile, userPage.me)
FormHeld ==
    page = "users" /\ userPage.open =>
        IF userPage.saves = None THEN userPage.form.of = None /\ userPage.form.password = "typed"
        ELSE IsOf(userPage.form, userPage.saves) \/ "editUser" \in FunctionsOf(calls)
UserCall(c) ==
    /\ c.fn \in {"updateUser", "updateProfile"} => IsOf(c.data, c.key)
    /\ c.fn = "createUser" => c.data.of = None /\ c.data.password = "typed"
    /\ c.fn \in {"getUser", "editUser"} =>
        c.answer \in {None, Null} \/ (c.answer \in Account /\ IsOf(c.answer.row, c.answer.id))
    /\ c.fn = "editUser" =>
        /\ userPage.open /\ userPage.saves = c.key
        /\ c.answer # Null /\ (c.answer # None => c.answer.id = c.key)
UsersCalm == UserRowsHeld /\ ProfileHeld /\ FormHeld /\ \A i \in DOMAIN calls : UserCall(calls[i])
Unfilled == Undisturbed({"getUser", "editUser"})

\* They say nothing else.
LEMMA UserParts ==
    /\ UsersTyped <=> /\ UserRowsTyped /\ UserPageTyped /\ TableTyped
                      /\ \A i \in DOMAIN calls : UserCallTyped(calls[i])
    /\ UsersHeld <=> (Unfilled => UsersCalm)
    /\ UsersTyped' <=> /\ UserRowsTyped' /\ UserPageTyped' /\ TableTyped'
                       /\ \A i \in DOMAIN calls' : UserCallTyped(calls[i])'
    /\ UsersHeld' <=> (Unfilled' => /\ UserRowsHeld' /\ ProfileHeld' /\ FormHeld'
                                    /\ \A i \in DOMAIN calls' : UserCall(calls[i])')
<1>1. /\ UsersTyped <=> /\ UserRowsTyped /\ UserPageTyped /\ TableTyped
                        /\ \A i \in DOMAIN calls : UserCallTyped(calls[i])
      /\ UsersTyped' <=> /\ UserRowsTyped' /\ UserPageTyped' /\ TableTyped'
                         /\ \A i \in DOMAIN calls' : UserCallTyped(calls[i])'
  BY Zenon DEF UsersTyped, UserRowsTyped, UserPageTyped, TableTyped, UserCallTyped
<1>2. /\ UsersHeld <=> (Unfilled => UsersCalm)
      /\ UsersHeld' <=> (Unfilled' => /\ UserRowsHeld' /\ ProfileHeld' /\ FormHeld'
                                      /\ \A i \in DOMAIN calls' : UserCall(calls[i])')
  BY Zenon DEF UsersHeld, UsersCalm, Unfilled, UserRowsHeld, ProfileHeld, FormHeld, UserCall
<1>3. QED
  BY <1>1, <1>2

\* The pop-up as it was, but for the status in its form.
SamePopup ==
    /\ userPage'.open = userPage.open /\ userPage'.saves = userPage.saves
    /\ userPage'.form.of = userPage.form.of /\ userPage'.form.password = userPage.form.password
NoneEdited == \A i \in DOMAIN calls : calls[i].fn # "editUser"

\* What a step has to show: no row goes, and a form that was filled is of the row that it saves.
LEMMA UsersMove ==
    ASSUME UsersTyped, UsersHeld, Grows, UserRowsTyped', UserPageTyped',
           \A u \in Users : userRows[u] # None => userRows'[u] # None,
           TableTyped',
           \A j \in DOMAIN calls' : (\E i \in DOMAIN calls : calls'[j] = calls[i]) \/ UserCallTyped(calls[j])',
           UsersCalm /\ Unfilled' =>
                /\ UserRowsHeld' /\ ProfileHeld' /\ FormHeld'
                /\ \A j \in DOMAIN calls' : (\E i \in DOMAIN calls : calls'[j] = calls[i]) \/ UserCall(calls[j])'
                /\ (userPage'.open = userPage.open /\ userPage'.saves = userPage.saves) \/ NoneEdited
    PROVE  UsersTyped' /\ UsersHeld'
<1>1. \A j \in DOMAIN calls' : UserCallTyped(calls[j])'
  <2>1. ASSUME NEW j \in DOMAIN calls', NEW i \in DOMAIN calls, calls'[j] = calls[i]
        PROVE  UserCallTyped(calls[j])'
    <3>1. UserCallTyped(calls'[j])
      BY <2>1, UserParts
    <3>2. QED
      BY <3>1 DEF UserCallTyped
  <2>2. QED
    BY <2>1
<1>2. ASSUME Unfilled'
      PROVE  UserRowsHeld' /\ ProfileHeld' /\ FormHeld' /\ \A j \in DOMAIN calls' : UserCall(calls[j])'
  <2>1. UsersCalm
    BY <1>2, UserParts, Calm DEF Unfilled
  <2>2. ASSUME NEW j \in DOMAIN calls', NEW i \in DOMAIN calls, calls'[j] = calls[i]
        PROVE  UserCall(calls[j])'
    <3>1. UserCall(calls'[j])
      BY <2>1, <2>2 DEF UsersCalm
    <3>2. \/ userPage'.open = userPage.open /\ userPage'.saves = userPage.saves
          \/ calls'[j].fn # "editUser"
      BY <1>2, <2>1, <2>2 DEF NoneEdited
    <3>3. QED
      BY <3>1, <3>2 DEF UserCall
  <2>3. QED
    BY <1>2, <2>1, <2>2
<1>3. QED
  BY <1>1, <1>2, UserParts

\* A step that leaves the users and their page alone, and the calls as far as they are about them.
LEMMA UsersLeft ==
    ASSUME UsersTyped, UsersHeld, UNCHANGED <<userRows, userPage>>, Grows, page' = page \/ page' = "left",
           \A j \in DOMAIN calls' : calls'[j].fn \in UserFns => \E i \in DOMAIN calls : calls[i] = calls'[j],
           UsersCalm /\ Unfilled' /\ page' # "left" =>
                ("editUser" \in FunctionsOf(calls) => "editUser" \in FunctionsOf(calls)')
    PROVE  UsersTyped' /\ UsersHeld'
<1>1. UserRowsTyped' /\ UserPageTyped' /\ TableTyped'
  BY UserParts DEF UserRowsTyped, UserPageTyped, TableTyped
<1>2. ASSUME NEW j \in DOMAIN calls', calls'[j].fn \notin UserFns
      PROVE  UserCallTyped(calls[j])' /\ UserCall(calls[j])'
  BY <1>2 DEF UserCallTyped, UserCall, UserFns
<1>3. ASSUME UsersCalm, Unfilled'
      PROVE  UserRowsHeld' /\ ProfileHeld' /\ FormHeld'
  <2>1. UserRowsHeld /\ ProfileHeld /\ FormHeld
    BY <1>3 DEF UsersCalm
  <2>2. UserRowsHeld' /\ ProfileHeld'
    BY <2>1 DEF UserRowsHeld, ProfileHeld, IsOf
  <2>3. FormHeld'
    BY <1>3, <2>1 DEF FormHeld, IsOf
  <2>4. QED
    BY <2>2, <2>3
<1>4. \A j \in DOMAIN calls' :
        (\E i \in DOMAIN calls : calls'[j] = calls[i]) \/ (UserCallTyped(calls[j])' /\ UserCall(calls[j])')
  BY <1>2
<1>5. QED
  BY <1>1, <1>3, <1>4, UsersMove

\* A call that has just been made.
UserMade(fn, key, data) ==
    /\ fn \in {"createUser", "updateUser", "updateProfile"} => data \in UserRow
    /\ fn \in {"updateUser", "updateProfile", "editUser"} => key \in Users
    /\ fn = "editUser" => userRows[key] # None
UserMadeOf(fn, key, data) ==
    /\ fn \in {"updateUser", "updateProfile"} => IsOf(data, key)
    /\ fn = "createUser" => data.of = None /\ data.password = "typed"
    /\ fn = "editUser" => userPage'.open /\ userPage'.saves = key

\* A click makes at most one call.
LEMMA UserSent ==
    ASSUME Typed, UsersTyped, UsersHeld, NEW fn, NEW key, NEW data, NEW new,
           new = <<>> \/ new = <<Call(fn, key, data)>>, Click("users", new) \/ EndEdit("users", new),
           userRows' = userRows, UserPageTyped', userPage'.table = userPage.table,
           new # <<>> => UserMade(fn, key, data),
           UsersCalm /\ (EndEdit("users", new) /\ Unfilled' => NoneEdited) =>
                /\ ProfileHeld'
                /\ SamePopup \/ (FormHeld' /\ NoneEdited) \/ (~Unfilled')
                /\ new # <<>> /\ Unfilled' => UserMadeOf(fn, key, data)
    PROVE  UsersTyped' /\ UsersHeld'
<1>1. IsCalls(calls) /\ failures \in Nat
  BY DEF Typed
<1>2. /\ IsCalls(new)
      /\ \A c : Comes(c, new) => \/ \E i \in DOMAIN calls : c = calls[i]
                                 \/ new # <<>> /\ c.fn = fn /\ c.key = key /\ c.data = data /\ c.answer = None
  BY NoneMade, OneMade
<1>3. /\ \A j \in DOMAIN calls' : Comes(calls'[j], new)
      /\ \A i \in DOMAIN calls : i \in DOMAIN calls' /\ calls'[i] = calls[i]
      /\ page' = page /\ failures' = failures /\ overtaken' = overtaken
      /\ hasty' \in {hasty, hasty \cup FunctionsOf(calls)}
      /\ EndEdit("users", new) => hasty' = hasty \cup FunctionsOf(calls)
      /\ page = "users"
  BY <1>1, <1>2, AfterClick
<1>4. Grows
  BY <1>3 DEF Grows
<1>5. UserRowsTyped' /\ TableTyped'
  BY UserParts DEF UserRowsTyped, TableTyped
<1>6. ASSUME NEW j \in DOMAIN calls'
      PROVE  (\E i \in DOMAIN calls : calls'[j] = calls[i]) \/ UserCallTyped(calls[j])'
  BY <1>2, <1>3 DEF UserCallTyped, UserMade
<1>7. EndEdit("users", new) /\ Unfilled' => NoneEdited
  BY <1>3, CalledNow DEF Unfilled, Undisturbed, NoneEdited
<1>8. ASSUME UsersCalm, Unfilled'
      PROVE  /\ UserRowsHeld' /\ ProfileHeld' /\ FormHeld'
             /\ \A j \in DOMAIN calls' : (\E i \in DOMAIN calls : calls'[j] = calls[i]) \/ UserCall(calls[j])'
             /\ (userPage'.open = userPage.open /\ userPage'.saves = userPage.saves) \/ NoneEdited
  <2>1. ProfileHeld' /\ (SamePopup \/ (FormHeld' /\ NoneEdited)) /\ (new # <<>> => UserMadeOf(fn, key, data))
    BY <1>7, <1>8
  <2>2. UserRowsHeld'
    BY <1>8 DEF UsersCalm, UserRowsHeld
  <2>3. \A f : f \in FunctionsOf(calls) => f \in FunctionsOf(calls)'
    BY <1>3, CalledNow, CalledNext
  <2>4. FormHeld'
    BY <1>3, <1>8, <2>1, <2>3 DEF UsersCalm, SamePopup, FormHeld, IsOf
  <2>5. ASSUME NEW j \in DOMAIN calls'
        PROVE  (\E i \in DOMAIN calls : calls'[j] = calls[i]) \/ UserCall(calls[j])'
    BY <1>2, <1>3, <2>1, AnswersAssumption DEF UserCall, UserMadeOf
  <2>6. (userPage'.open = userPage.open /\ userPage'.saves = userPage.saves) \/ NoneEdited
    BY <2>1 DEF SamePopup
  <2>7. QED
    BY <2>1, <2>2, <2>4, <2>5, <2>6
<1>9. QED
  BY <1>4, <1>5, <1>6, <1>8, UsersMove

\* At first every row is its user's own, no form is open and no profile shown.
LEMMA UsersAtFirst ==
    ASSUME Init
    PROVE  UsersTyped /\ UsersHeld
<1>1. UserInit /\ calls = CallsOfReady
  BY DEF Init
<1>2. \A i \in DOMAIN calls : calls[i].fn \in {"getGroups", "getConfig", "getUser", "getUsers"} /\ calls[i].answer = None
  BY <1>1 DEF CallsOfReady, GetGroups, GetConfig, GetUser, GetUsers, Call
<1>3. UserRowsTyped /\ UserRowsHeld
  BY <1>1, UserAssumption DEF UserInit, UserRowsTyped, UserRowsHeld, IsOf
<1>4. PICK u \in Rows :
        userPage = [cookie |-> userRows[u].name, isAdmin |-> userRows[u].admin, me |-> None, table |-> <<>>,
                    profile |-> NewUser, editing |-> FALSE, open |-> FALSE, saves |-> None, form |-> NewUser]
  BY <1>1 DEF UserInit
<1>5. NewUser \in UserRow
  BY DEF NewUser, UserRow
<1>6. userRows[u].admin \in BOOLEAN
  BY <1>3, <1>4 DEF UserRowsTyped, UserRow, Rows
<1>7. UserPageTyped /\ ProfileHeld /\ FormHeld
  BY <1>4, <1>5, <1>6 DEF UserPageTyped, ProfileHeld, FormHeld
<1>8. TableTyped
  BY <1>4 DEF TableTyped
<1>9. \A i \in DOMAIN calls : UserCallTyped(calls[i]) /\ UserCall(calls[i])
  BY <1>2 DEF UserCallTyped, UserCall
<1>10. QED
  BY <1>3, <1>7, <1>8, <1>9, UserParts DEF UsersCalm

\* The user opens the pop-up, fills it and closes it, or has it saved.
LEMMA UsersPopup ==
    ASSUME Typed, UsersTyped, UsersHeld,
           (\E u \in Users : EditUser(u)) \/ AddUser \/ ChangeStatus \/ SaveUser \/ CloseUser
    PROVE  UsersTyped' /\ UsersHeld'
<1>1. UserPageTyped /\ TableTyped
  BY UserParts
<1>2. ~userPage.open /\ UsersCalm => NoneEdited
  BY DEF UsersCalm, UserCall, NoneEdited
<1>3. ASSUME NEW u \in Users, EditUser(u)
      PROVE  UsersTyped' /\ UsersHeld'
  <2>1. /\ ~userPage.open /\ u \in DOMAIN userPage.table /\ userRows' = userRows
        /\ Click("users", <<Call("editUser", u, None)>>)
        /\ userPage' = [userPage EXCEPT !.open = TRUE, !.saves = u]
    BY <1>3 DEF EditUser, UserClick
  <2>2. /\ DOMAIN userPage' = DOMAIN userPage /\ userPage'.open /\ userPage'.saves = u /\ userPage'.form = userPage.form
        /\ userPage'.me = userPage.me /\ userPage'.profile = userPage.profile /\ userPage'.table = userPage.table
        /\ userPage'.isAdmin = userPage.isAdmin /\ userPage'.editing = userPage.editing
        /\ userPage'.open = TRUE
    BY <1>1, <2>1 DEF UserPageTyped
  <2>3. UserPageTyped' /\ (ProfileHeld => ProfileHeld')
    BY <1>1, <2>2 DEF UserPageTyped, ProfileHeld
  <2>4. userRows[u] # None
    BY <1>1, <2>1 DEF TableTyped
  <2>5. PICK new : new = <<Call("editUser", u, None)>>
    OBVIOUS
  <2>6. "editUser" \in FunctionsOf(calls)'
    <3>1. /\ IsCalls(calls) /\ failures \in Nat /\ Click("users", new)
          /\ Making(new, {"editUser"}) /\ DOMAIN new = 1..1 /\ new[1] = Call("editUser", u, None)
      BY <2>1, <2>5, MakingOne DEF Typed
    <3>2. calls'[Len(calls) + 1] = new[1] /\ Len(calls) + 1 \in DOMAIN calls'
      <4>1. Len(new) = 1
        BY <2>5
      <4>2. /\ DOMAIN calls' = 1..(Len(calls) + Len(new)) /\ Len(calls) \in Nat
            /\ \A i \in 1..Len(new) : calls'[Len(calls) + i] = new[i]
        BY <3>1, Sending
      <4>3. QED
        BY <4>1, <4>2
    <3>3. calls'[Len(calls) + 1].fn = "editUser"
      BY <3>1, <3>2 DEF Call
    <3>4. QED
      BY <3>2, <3>3, CalledNext
  <2>7. FormHeld'
    BY <2>2, <2>6, UserAssumption DEF FormHeld
  <2>8. UserMade("editUser", u, None) /\ UserMadeOf("editUser", u, None)
    BY <2>2, <2>4 DEF UserMade, UserMadeOf
  <2>9. UsersCalm => ProfileHeld' /\ FormHeld' /\ NoneEdited
    BY <1>2, <2>1, <2>3, <2>7 DEF UsersCalm
  <2>10. QED
    BY <2>1, <2>2, <2>3, <2>8, <2>9, UserSent
<1>4. ASSUME AddUser
      PROVE  UsersTyped' /\ UsersHeld'
  <2>1. /\ ~userPage.open /\ userRows' = userRows /\ Click("users", <<>>)
        /\ userPage' = [userPage EXCEPT !.open = TRUE, !.saves = None, !.form = NewUser]
    BY <1>4 DEF AddUser, UserClick
  <2>2. /\ DOMAIN userPage' = DOMAIN userPage /\ userPage'.open /\ userPage'.saves = None /\ userPage'.form = NewUser
        /\ userPage'.me = userPage.me /\ userPage'.profile = userPage.profile /\ userPage'.table = userPage.table
        /\ userPage'.isAdmin = userPage.isAdmin /\ userPage'.editing = userPage.editing
        /\ userPage'.open = TRUE
    BY <1>1, <2>1 DEF UserPageTyped
  <2>3. NewUser \in UserRow /\ NewUser.of = None /\ NewUser.password = "typed"
    BY DEF NewUser, UserRow
  <2>4. UserPageTyped' /\ (ProfileHeld => ProfileHeld') /\ FormHeld'
    BY <1>1, <2>2, <2>3 DEF UserPageTyped, ProfileHeld, FormHeld
  <2>5. UsersCalm => ProfileHeld' /\ FormHeld' /\ NoneEdited
    BY <1>2, <2>1, <2>4 DEF UsersCalm
  <2>6. QED
    BY <2>1, <2>2, <2>4, <2>5, UserSent
<1>5. ASSUME ChangeStatus
      PROVE  UsersTyped' /\ UsersHeld'
  <2>1. /\ userRows' = userRows /\ Click("users", <<>>)
        /\ userPage' = [userPage EXCEPT !.form.admin = ~@]
    BY <1>5 DEF ChangeStatus, UserClick
  <2>2. PICK form : form = [userPage.form EXCEPT !.admin = ~@]
    OBVIOUS
  <2>3. form \in UserRow /\ form.of = userPage.form.of /\ form.password = userPage.form.password
    BY <1>1, <2>2 DEF UserPageTyped, UserRow
  <2>4. userPage' = [userPage EXCEPT !.form = form]
    BY <1>1, <2>1, <2>2 DEF UserPageTyped
  <2>5. /\ DOMAIN userPage' = DOMAIN userPage /\ userPage'.form = form
        /\ userPage'.open = userPage.open /\ userPage'.saves = userPage.saves
        /\ userPage'.me = userPage.me /\ userPage'.profile = userPage.profile /\ userPage'.table = userPage.table
        /\ userPage'.isAdmin = userPage.isAdmin /\ userPage'.editing = userPage.editing
    BY <1>1, <2>4 DEF UserPageTyped
  <2>6. UserPageTyped' /\ (ProfileHeld => ProfileHeld') /\ SamePopup
    BY <1>1, <2>3, <2>5 DEF UserPageTyped, ProfileHeld, SamePopup
  <2>7. UsersCalm => ProfileHeld'
    BY <2>6 DEF UsersCalm
  <2>8. QED
    BY <2>1, <2>5, <2>6, <2>7, UserSent
<1>6. ASSUME SaveUser \/ CloseUser
      PROVE  UsersTyped' /\ UsersHeld'
  <2>1. PICK fn, key : IF userPage.saves = None THEN fn = "createUser" /\ key = None
                       ELSE fn = "updateUser" /\ key = userPage.saves
    OBVIOUS
  <2>2. PICK new :
            /\ userPage.open /\ userRows' = userRows /\ userPage' = [userPage EXCEPT !.open = FALSE]
            /\ new = <<>> \/ new = <<Call(fn, key, userPage.form)>>
            /\ EndEdit("users", new)
    BY <1>6, <2>1 DEF SaveUser, CloseUser
  <2>3. /\ DOMAIN userPage' = DOMAIN userPage /\ userPage'.open = FALSE
        /\ userPage'.form = userPage.form /\ userPage'.saves = userPage.saves
        /\ userPage'.me = userPage.me /\ userPage'.profile = userPage.profile /\ userPage'.table = userPage.table
        /\ userPage'.isAdmin = userPage.isAdmin /\ userPage'.editing = userPage.editing
    BY <1>1, <2>2 DEF UserPageTyped
  <2>4. UserPageTyped' /\ (ProfileHeld => ProfileHeld') /\ FormHeld'
    BY <1>1, <2>3 DEF UserPageTyped, ProfileHeld, FormHeld
  <2>5. UserMade(fn, key, userPage.form)
    BY <1>1, <2>1 DEF UserPageTyped, UserMade
  <2>6. UsersCalm /\ NoneEdited => UserMadeOf(fn, key, userPage.form)
    <3>1. page = "users"
      BY <2>2 DEF EndEdit, Clicked
    <3>2. NoneEdited => "editUser" \notin FunctionsOf(calls)
      BY CalledNow DEF NoneEdited
    <3>3. QED
      BY <2>1, <2>2, <3>1, <3>2 DEF UsersCalm, FormHeld, UserMadeOf
  <2>7. UsersCalm => ProfileHeld'
    BY <2>4 DEF UsersCalm
  <2>8. UsersCalm /\ (EndEdit("users", new) /\ Unfilled' => NoneEdited) =>
            /\ ProfileHeld'
            /\ SamePopup \/ (FormHeld' /\ NoneEdited) \/ (~Unfilled')
            /\ new # <<>> /\ Unfilled' => UserMadeOf(fn, key, userPage.form)
    BY <2>2, <2>4, <2>6, <2>7
  <2>9. QED
    BY <2>2, <2>3, <2>4, <2>5, <2>8, UserSent
<1>7. QED
  BY <1>3, <1>4, <1>5, <1>6

\* The user edits the profile; or deletes somebody.
LEMMA UsersProfile ==
    ASSUME Typed, UsersTyped, UsersHeld,
           (\E u \in Users : DeleteUser(u)) \/ (\E n \in Names : Rename(n)) \/ EditProfile \/ CancelProfile \/ UpdateProfile
    PROVE  UsersTyped' /\ UsersHeld'
<1>1. UserPageTyped
  BY UserParts
<1>2. ASSUME UNCHANGED <<userRows, userPage>>, NEW fn, NEW key, NEW data, NEW new, new = <<Call(fn, key, data)>>,
             Click("users", new) \/ EndEdit("users", new), UserMade(fn, key, data),
             UsersCalm => UserMadeOf(fn, key, data)
      PROVE  UsersTyped' /\ UsersHeld'
  <2>1. UserPageTyped' /\ (ProfileHeld => ProfileHeld') /\ SamePopup
    BY <1>1, <1>2 DEF UserPageTyped, ProfileHeld, SamePopup
  <2>2. UsersCalm => ProfileHeld'
    BY <2>1 DEF UsersCalm
  <2>3. QED
    BY <1>2, <2>1, <2>2, UserSent
<1>3. ASSUME NEW u \in Users, DeleteUser(u)
      PROVE  UsersTyped' /\ UsersHeld'
  <2>1. UNCHANGED <<userRows, userPage>> /\ Click("users", <<Call("deleteUser", u, None)>>)
    BY <1>3 DEF DeleteUser, UserClick
  <2>2. UserMade("deleteUser", u, None) /\ UserMadeOf("deleteUser", u, None)
    BY DEF UserMade, UserMadeOf
  <2>3. QED
    BY <1>2, <2>1, <2>2
<1>4. ASSUME CancelProfile
      PROVE  UsersTyped' /\ UsersHeld'
  <2>1. PICK cookie : cookie = userPage.cookie
    OBVIOUS
  <2>2. UNCHANGED <<userRows, userPage>> /\ EndEdit("users", <<Call("getUser", cookie, None)>>)
    BY <1>4, <2>1 DEF CancelProfile, GetUser, userVars
  <2>3. UserMade("getUser", cookie, None) /\ UserMadeOf("getUser", cookie, None)
    BY DEF UserMade, UserMadeOf
  <2>4. QED
    BY <1>2, <2>2, <2>3
<1>5. ASSUME UpdateProfile
      PROVE  UsersTyped' /\ UsersHeld'
  <2>1. PICK data : data = [userPage.profile EXCEPT !.admin = userPage.isAdmin, !.active = TRUE]
    OBVIOUS
  <2>2. /\ UNCHANGED <<userRows, userPage>> /\ EndEdit("users", <<Call("updateProfile", userPage.me, data)>>)
        /\ userPage.editing
    BY <1>5, <2>1 DEF UpdateProfile, userVars
  <2>3. /\ userPage.me # None /\ userPage.me \in Users /\ data \in UserRow
        /\ data.of = userPage.profile.of /\ data.password = userPage.profile.password
    BY <1>1, <2>1, <2>2 DEF UserPageTyped, UserRow
  <2>4. UserMade("updateProfile", userPage.me, data)
    BY <2>3 DEF UserMade
  <2>5. UsersCalm => UserMadeOf("updateProfile", userPage.me, data)
    BY <2>3 DEF UsersCalm, ProfileHeld, UserMadeOf, IsOf
  <2>6. QED
    BY <1>2, <2>2, <2>4, <2>5
<1>6. ASSUME NEW profile \in UserRow, NEW editing \in BOOLEAN, Click("users", <<>>), userRows' = userRows, userPage.me # None,
             profile.of = userPage.profile.of, profile.password = userPage.profile.password,
             userPage' = [userPage EXCEPT !.profile = profile, !.editing = editing]
      PROVE  UsersTyped' /\ UsersHeld'
  <2>1. /\ DOMAIN userPage' = DOMAIN userPage /\ userPage'.form = userPage.form
        /\ userPage'.open = userPage.open /\ userPage'.saves = userPage.saves
        /\ userPage'.me = userPage.me /\ userPage'.profile = profile /\ userPage'.table = userPage.table
        /\ userPage'.isAdmin = userPage.isAdmin /\ userPage'.editing = editing
    BY <1>1, <1>6 DEF UserPageTyped
  <2>2. UserPageTyped' /\ (ProfileHeld => ProfileHeld') /\ SamePopup
    BY <1>1, <1>6, <2>1 DEF UserPageTyped, ProfileHeld, SamePopup, IsOf
  <2>3. UsersCalm => ProfileHeld'
    BY <2>2 DEF UsersCalm
  <2>4. QED
    BY <1>6, <2>1, <2>2, <2>3, UserSent
<1>7. ASSUME EditProfile
      PROVE  UsersTyped' /\ UsersHeld'
  <2>1. /\ Click("users", <<>>) /\ userRows' = userRows /\ userPage.me # None
        /\ userPage' = [userPage EXCEPT !.editing = TRUE]
    BY <1>7 DEF EditProfile, UserClick
  <2>2. userPage.profile \in UserRow /\ userPage' = [userPage EXCEPT !.profile = userPage.profile, !.editing = TRUE]
    BY <1>1, <2>1 DEF UserPageTyped
  <2>3. QED
    BY <1>6, <2>1, <2>2
<1>8. ASSUME NEW n \in Names, Rename(n)
      PROVE  UsersTyped' /\ UsersHeld'
  <2>1. /\ Click("users", <<>>) /\ userRows' = userRows /\ userPage.editing
        /\ userPage' = [userPage EXCEPT !.profile.name = n]
    BY <1>8 DEF Rename, UserClick
  <2>2. PICK profile : profile = [userPage.profile EXCEPT !.name = n]
    OBVIOUS
  <2>3. profile \in UserRow /\ profile.of = userPage.profile.of /\ profile.password = userPage.profile.password
    BY <1>1, <2>2 DEF UserPageTyped, UserRow
  <2>4. userPage' = [userPage EXCEPT !.profile = profile]
    BY <2>1, <2>2
  <2>5. userPage' = [userPage EXCEPT !.profile = profile, !.editing = userPage.editing] /\ userPage.editing \in BOOLEAN
    BY <1>1, <2>4 DEF UserPageTyped
  <2>6. userPage.me # None
    BY <1>1, <2>1 DEF UserPageTyped
  <2>7. QED
    BY <1>6, <2>1, <2>3, <2>5, <2>6
<1>9. QED
  BY <1>3, <1>4, <1>5, <1>7, <1>8

\* The servlet answers out of its rows, and changes them as the calls say.
LEMMA UsersAnswers ==
    ASSUME Typed, UsersTyped, UsersHeld, ReadUsers \/ ReadUser \/ StoreUser \/ InsertUser \/ DeactivateUser
    PROVE  UsersTyped' /\ UsersHeld'
<1>1. IsCalls(calls) /\ failures \in Nat
  BY DEF Typed
<1>2. UserRowsTyped /\ UserPageTyped /\ TableTyped /\ \A i \in DOMAIN calls : UserCallTyped(calls[i])
  BY UserParts
<1>3. ASSUME NEW i \in DOMAIN calls, NEW answer, Executed(i, answer) \/ Reply(i, answer), userPage' = userPage,
             UserRowsTyped', UserRowsHeld /\ UserCall(calls[i]) => UserRowsHeld',
             \A u \in Users : userRows[u] # None => userRows'[u] # None,
             calls[i].fn \in {"getUser", "editUser"} =>
                /\ answer \in {Null} \cup Account
                /\ UserRowsHeld => /\ answer = Null \/ IsOf(answer.row, answer.id)
                                   /\ calls[i].fn = "editUser" => answer # Null /\ answer.id = calls[i].key,
             calls[i].fn = "getUsers" => \A u \in DOMAIN answer : u \in Users /\ userRows[u] # None
      PROVE  UsersTyped' /\ UsersHeld'
  <2>1. /\ page' = page /\ hasty' = hasty /\ DOMAIN calls' = DOMAIN calls
        /\ failures' = failures \/ failures' = failures + 1
        /\ overtaken \subseteq overtaken' /\ calls[i].answer = None
        /\ \A j \in DOMAIN calls : j # i => calls'[j] = calls[j]
    BY <1>1, <1>3, AfterAnswer
  <2>2. PICK a \in {answer, Failed, Denied} :
            /\ calls'[i] = [fn |-> calls[i].fn, key |-> calls[i].key, data |-> calls[i].data, answer |-> a]
            /\ failures' = 0 => a = answer
    BY <1>1, <1>3, AfterAnswer
  <2>3. Grows
    BY <1>1, <2>1 DEF Grows
  <2>4. UserPageTyped' /\ TableTyped'
    BY <1>2, <1>3 DEF UserPageTyped, TableTyped
  <2>5. \A j \in DOMAIN calls' : (\E k \in DOMAIN calls : calls'[j] = calls[k]) \/ j = i
    BY <2>1
  <2>6. PICK d : d = calls'[i]
    OBVIOUS
  <2>7. d.fn = calls[i].fn /\ d.key = calls[i].key /\ d.data = calls[i].data /\ d.answer = a /\ UserCallTyped(calls[i])
    BY <1>2, <2>2, <2>6
  <2>8. UserCallTyped(calls[i])'
    <3>1. UserCallTyped(d)'
      BY <1>3, <2>7 DEF UserCallTyped
    <3>2. QED
      BY <2>6, <3>1 DEF UserCallTyped
  <2>9. ASSUME UsersCalm, Unfilled'
        PROVE  UserRowsHeld' /\ ProfileHeld' /\ FormHeld' /\ UserCall(calls[i])'
    <3>1. UserRowsHeld /\ ProfileHeld /\ FormHeld /\ UserCall(calls[i]) /\ a = answer
      BY <2>2, <2>9 DEF UsersCalm, Unfilled, Undisturbed
    <3>2. UserRowsHeld' /\ ProfileHeld'
      BY <1>3, <3>1 DEF ProfileHeld
    <3>3. \A j \in DOMAIN calls' : calls'[j].fn = calls[j].fn
      BY <2>1, <2>6, <2>7
    <3>4. \A fn : fn \in FunctionsOf(calls) => fn \in FunctionsOf(calls)'
      BY <2>1, <3>3, CalledNow, CalledNext
    <3>5. FormHeld'
      BY <1>3, <2>1, <3>1, <3>4 DEF FormHeld
    <3>6. UserCall(d)'
      BY <1>3, <2>7, <3>1, AnswersAssumption DEF UserCall
    <3>7. QED
      BY <2>6, <3>2, <3>5, <3>6 DEF UserCall
  <2>10. UsersCalm /\ Unfilled' =>
            /\ UserRowsHeld' /\ ProfileHeld' /\ FormHeld'
            /\ \A j \in DOMAIN calls' : (\E k \in DOMAIN calls : calls'[j] = calls[k]) \/ UserCall(calls[j])'
            /\ (userPage'.open = userPage.open /\ userPage'.saves = userPage.saves) \/ NoneEdited
    BY <1>3, <2>5, <2>9
  <2>11. \A j \in DOMAIN calls' : (\E k \in DOMAIN calls : calls'[j] = calls[k]) \/ UserCallTyped(calls[j])'
    BY <2>5, <2>8
  <2>12. QED
    BY <1>3, <2>3, <2>4, <2>10, <2>11, UsersMove
<1>4. UNCHANGED userRows => /\ UserRowsTyped' /\ (UserRowsHeld => UserRowsHeld')
                            /\ \A u \in Users : userRows[u] # None => userRows'[u] # None
  BY <1>2 DEF UserRowsTyped, UserRowsHeld
<1>5. CASE ReadUsers
  <2>1. PICK i \in DOMAIN calls :
            calls[i].fn = "getUsers" /\ Reply(i, [u \in Rows |-> userRows[u]]) /\ UNCHANGED <<userRows, userPage>>
    BY <1>5 DEF ReadUsers, userVars
  <2>2. PICK answer : answer = [u \in Rows |-> userRows[u]]
    OBVIOUS
  <2>3. \A u \in DOMAIN answer : u \in Users /\ userRows[u] # None
    BY <2>2 DEF Rows
  <2>4. QED
    BY <1>3, <1>4, <2>1, <2>2, <2>3
<1>6. CASE ReadUser
  <2>1. PICK i \in DOMAIN calls :
            /\ calls[i].fn \in {"editUser", "getUser"} /\ UNCHANGED <<userRows, userPage>>
            /\ LET found == {u \in Rows : calls[i].key = IF calls[i].fn = "getUser" THEN userRows[u].name ELSE u}
               IN  \/ found = {} /\ Reply(i, Null)
                   \/ \E u \in found : Reply(i, [id |-> u, row |-> userRows[u]])
    BY <1>6 DEF ReadUser, userVars
  <2>2. CASE Reply(i, Null) /\ (calls[i].fn = "editUser" => calls[i].key \notin Rows)
    <3>1. calls[i].fn # "editUser"
      BY <1>2, <2>2 DEF UserCallTyped, Rows
    <3>2. QED
      BY <1>3, <1>4, <2>1, <2>2, <3>1
  <2>3. ASSUME NEW u \in Rows, Reply(i, [id |-> u, row |-> userRows[u]]), calls[i].fn = "editUser" => calls[i].key = u
        PROVE  UsersTyped' /\ UsersHeld'
    <3>1. PICK answer : answer = [id |-> u, row |-> userRows[u]]
      OBVIOUS
    <3>2. answer.id = u /\ answer.row = userRows[u] /\ u \in Users /\ userRows[u] # None /\ userRows[u] \in UserRow
      BY <1>2, <3>1 DEF Rows, UserRowsTyped
    <3>3. answer \in Account
      BY <3>1, <3>2 DEF Account
    <3>4. UserRowsHeld => IsOf(answer.row, answer.id)
      BY <3>2 DEF UserRowsHeld
    <3>5. answer # Null
      BY <3>3, UserAssumption
    <3>6. QED
      BY <1>3, <1>4, <2>1, <2>3, <3>1, <3>2, <3>3, <3>4, <3>5
  <2>4. QED
    BY <2>1, <2>2, <2>3
<1>7. ASSUME NEW i \in DOMAIN calls, calls[i].fn \in {"updateUser", "updateProfile", "createUser", "deleteUser"},
             Executed(i, "done"), userPage' = userPage, NEW u \in Users, NEW row \in UserRow,
             userRows' = [userRows EXCEPT ![u] = row], UserRowsHeld /\ UserCall(calls[i]) => IsOf(row, u)
      PROVE  UsersTyped' /\ UsersHeld'
  <2>1. /\ UserRowsTyped' /\ userRows'[u] = row /\ row # None
        /\ \A v \in Users : v # u => userRows'[v] = userRows[v]
    BY <1>2, <1>7, UserAssumption DEF UserRowsTyped
  <2>2. /\ UserRowsHeld /\ UserCall(calls[i]) => UserRowsHeld'
        /\ \A v \in Users : userRows[v] # None => userRows'[v] # None
    BY <1>7, <2>1 DEF UserRowsHeld
  <2>3. QED
    BY <1>3, <1>7, <2>1, <2>2
<1>8. ASSUME NEW i \in DOMAIN calls, calls[i].fn \in {"updateUser", "updateProfile", "createUser", "deleteUser"},
             Executed(i, "done") \/ Reply(i, Denied), UNCHANGED <<userRows, userPage>>
      PROVE  UsersTyped' /\ UsersHeld'
  BY <1>3, <1>4, <1>8
<1>9. CASE StoreUser
  <2>1. PICK i \in DOMAIN calls :
            /\ calls[i].fn \in {"updateUser", "updateProfile"} /\ Executed(i, "done") /\ userPage' = userPage
            /\ userRows' = [userRows EXCEPT ![calls[i].key] = IF @ = None THEN None ELSE Stored(calls[i].data)]
    BY <1>9 DEF StoreUser
  <2>2. PICK u, data : u = calls[i].key /\ data = calls[i].data
    OBVIOUS
  <2>3. u \in Users /\ data \in UserRow
    BY <1>2, <2>1, <2>2 DEF UserCallTyped
  <2>4. CASE userRows[u] = None
    <3>1. userRows' = userRows
      BY <1>2, <2>1, <2>2, <2>3, <2>4 DEF UserRowsTyped
    <3>2. QED
      BY <1>8, <2>1, <3>1
  <2>5. CASE userRows[u] # None
    <3>1. PICK row : row = Stored(data)
      OBVIOUS
    <3>2. userRows' = [userRows EXCEPT ![u] = row]
      BY <2>1, <2>2, <2>5, <3>1
    <3>3. PICK password : password = IF data.of \in ShortHash /\ data.password = "hash" THEN "rehashed"
                                     ELSE IF data.password = "typed" THEN "hash" ELSE data.password
      OBVIOUS
    <3>4. PICK active : active = (data.active = TRUE)
      OBVIOUS
    <3>5. /\ password \in {"hash", "typed", "rehashed"} /\ active \in BOOLEAN
          /\ password = "rehashed" => data.of \in ShortHash \/ data.password = "rehashed"
      BY <2>3, <3>3, <3>4 DEF UserRow
    <3>6. row = [data EXCEPT !.active = active, !.password = password]
      BY <2>3, <3>1, <3>3, <3>4 DEF Stored, UserRow
    <3>7. row \in UserRow /\ row.of = data.of /\ row.password = password
      BY <2>3, <3>5, <3>6 DEF UserRow
    <3>8. UserCall(calls[i]) => IsOf(row, u)
      BY <2>1, <2>2, <3>5, <3>7 DEF UserCall, IsOf
    <3>9. QED
      BY <1>7, <2>1, <2>3, <3>2, <3>7, <3>8
  <2>6. QED
    BY <2>4, <2>5
<1>10. CASE InsertUser
  <2>1. PICK i \in DOMAIN calls :
            /\ calls[i].fn = "createUser" /\ userPage' = userPage
            /\ \/ TableFull(i, Users \ Rows) /\ UNCHANGED userRows
               \/ \E u \in Users \ Rows :
                    /\ Executed(i, "done")
                    /\ userRows' = [userRows EXCEPT ![u] =
                            [calls[i].data EXCEPT !.of = IF @ = None THEN u ELSE @, !.active = TRUE,
                                                  !.password = IF @ = "typed" THEN "hash" ELSE "rehashed"]]
    BY <1>10, Zenon DEF InsertUser
  <2>2. CASE TableFull(i, Users \ Rows) /\ UNCHANGED userRows
    BY <1>8, <2>1, <2>2 DEF TableFull
  <2>3. ASSUME NEW u \in Users \ Rows, Executed(i, "done"),
               userRows' = [userRows EXCEPT ![u] =
                        [calls[i].data EXCEPT !.of = IF @ = None THEN u ELSE @, !.active = TRUE,
                                              !.password = IF @ = "typed" THEN "hash" ELSE "rehashed"]]
        PROVE  UsersTyped' /\ UsersHeld'
    <3>1. PICK data : data = calls[i].data
      OBVIOUS
    <3>2. data \in UserRow
      BY <1>2, <2>1, <3>1 DEF UserCallTyped
    <3>3. PICK of : of = IF data.of = None THEN u ELSE data.of
      OBVIOUS
    <3>4. PICK password : password = IF data.password = "typed" THEN "hash" ELSE "rehashed"
      OBVIOUS
    <3>5. PICK row : row = [data EXCEPT !.of = of, !.active = TRUE, !.password = password]
      OBVIOUS
    <3>6. userRows' = [userRows EXCEPT ![u] = row]
      BY <2>3, <3>1, <3>2, <3>3, <3>4, <3>5 DEF UserRow
    <3>7. row \in UserRow /\ row.of = of /\ row.password = password
      BY <3>2, <3>3, <3>4, <3>5 DEF UserRow
    <3>8. UserCall(calls[i]) => IsOf(row, u)
      BY <2>1, <3>1, <3>3, <3>4, <3>7 DEF UserCall, IsOf
    <3>9. calls[i].fn = "createUser" /\ userPage' = userPage /\ Executed(i, "done") /\ u \in Users
      BY <2>1, <2>3
    <3>10. QED
      BY <1>7, <3>6, <3>7, <3>8, <3>9
  <2>4. QED
    BY <2>1, <2>2, <2>3
<1>11. CASE DeactivateUser
  <2>1. PICK i \in DOMAIN calls :
            /\ calls[i].fn = "deleteUser" /\ Executed(i, "done") /\ userPage' = userPage
            /\ userRows' = [userRows EXCEPT ![calls[i].key] = IF @ = None THEN None ELSE [@ EXCEPT !.active = FALSE]]
    BY <1>11 DEF DeactivateUser
  <2>2. PICK u : u = calls[i].key
    OBVIOUS
  <2>3. CASE u \notin Users \/ userRows[u] = None
    <3>1. userRows' = userRows
      BY <1>2, <2>1, <2>2, <2>3 DEF UserRowsTyped
    <3>2. QED
      BY <1>8, <2>1, <3>1
  <2>4. CASE u \in Users /\ userRows[u] # None
    <3>1. PICK row : row = [userRows[u] EXCEPT !.active = FALSE]
      OBVIOUS
    <3>2. userRows' = [userRows EXCEPT ![u] = row] /\ userRows[u] \in UserRow
      BY <1>2, <2>1, <2>2, <2>4, <3>1 DEF UserRowsTyped
    <3>3. row \in UserRow /\ row.of = userRows[u].of /\ row.password = userRows[u].password
      BY <3>1, <3>2 DEF UserRow
    <3>4. UserRowsHeld => IsOf(row, u)
      BY <2>4, <3>3 DEF UserRowsHeld, IsOf
    <3>5. QED
      BY <1>7, <2>1, <2>4, <3>2, <3>3, <3>4
  <2>5. QED
    BY <2>3, <2>4
<1>12. QED
  BY <1>5, <1>6, <1>9, <1>10, <1>11

\* The page hears: the answer for the pop-up comes to the form of its row.
LEMMA UsersHear ==
    ASSUME Typed, UsersTyped, UsersHeld, UsersHeard \/ ProfileHeard \/ UserHeard \/ UserSaved \/ ProfileSaved
    PROVE  UsersTyped' /\ UsersHeld'
<1>1. IsCalls(calls) /\ failures \in Nat
  BY DEF Typed
<1>2. UserRowsTyped /\ UserPageTyped /\ TableTyped /\ \A i \in DOMAIN calls : UserCallTyped(calls[i])
  BY UserParts
<1>3. ASSUME NEW i \in DOMAIN calls, NEW new, IsCalls(new), Hear(i, new), userRows' = userRows, UserPageTyped', TableTyped',
             \A c : Comes(c, new) => (\E k \in DOMAIN calls : c = calls[k]) \/ (c.fn \in {"getUser", "getUsers"} /\ c.answer = None),
             userPage'.open = userPage.open /\ userPage'.saves = userPage.saves,
             ProfileHeld /\ UserCall(calls[i]) => ProfileHeld',
             \/ userPage'.form = userPage.form /\ (UserCall(calls[i]) => calls[i].fn # "editUser" \/ calls[i].answer = Null)
             \/ userPage.saves # None /\ (UserCall(calls[i]) => IsOf(userPage'.form, userPage'.saves))
             \/ ~UserCall(calls[i])
      PROVE  UsersTyped' /\ UsersHeld'
  <2>1. /\ \A j \in DOMAIN calls' : Comes(calls'[j], new)
        /\ \A j \in DOMAIN calls : j # i => \E k \in DOMAIN calls' : calls'[k] = calls[j]
        /\ page' = page /\ failures' = failures /\ hasty' = hasty /\ overtaken \subseteq overtaken'
    BY <1>1, <1>3, AfterHearing
  <2>2. Grows
    BY <2>1 DEF Grows
  <2>3. \A j \in DOMAIN calls' : (\E k \in DOMAIN calls : calls'[j] = calls[k])
                                 \/ (UserCallTyped(calls[j])' /\ UserCall(calls[j])')
    BY <1>3, <2>1 DEF UserCallTyped, UserCall
  <2>4. UserRowsTyped' /\ (UserRowsHeld => UserRowsHeld')
    BY <1>2, <1>3 DEF UserRowsTyped, UserRowsHeld
  <2>5. ASSUME UsersCalm
        PROVE  ProfileHeld' /\ FormHeld'
    <3>1. ProfileHeld /\ FormHeld /\ UserCall(calls[i])
      BY <2>5 DEF UsersCalm
    <3>2. CASE userPage'.form = userPage.form /\ calls[i].fn # "editUser"
      <4>1. "editUser" \in FunctionsOf(calls) => "editUser" \in FunctionsOf(calls)'
        BY <2>1, <3>2, CalledNow, CalledNext
      <4>2. QED
        BY <1>3, <2>1, <3>1, <3>2, <4>1 DEF FormHeld
    <3>3. CASE calls[i].fn = "editUser" /\ calls[i].answer = Null
      BY <3>1, <3>3 DEF UserCall
    <3>4. CASE userPage.saves # None /\ IsOf(userPage'.form, userPage'.saves)
      BY <1>3, <3>1, <3>4 DEF FormHeld, IsOf
    <3>5. QED
      BY <1>3, <3>1, <3>2, <3>3, <3>4
  <2>6. UserPageTyped' /\ TableTyped' /\ \A u \in Users : userRows[u] # None => userRows'[u] # None
    BY <1>3
  <2>7. UsersCalm /\ Unfilled' =>
            /\ UserRowsHeld' /\ ProfileHeld' /\ FormHeld'
            /\ \A j \in DOMAIN calls' : (\E k \in DOMAIN calls : calls'[j] = calls[k]) \/ UserCall(calls[j])'
            /\ (userPage'.open = userPage.open /\ userPage'.saves = userPage.saves) \/ NoneEdited
    BY <1>3, <2>3, <2>4, <2>5 DEF UsersCalm
  <2>8. QED
    BY <2>2, <2>3, <2>4, <2>6, <2>7, UsersMove
<1>4. userRows' = userRows /\ userPage' = userPage => UserPageTyped' /\ TableTyped' /\ (ProfileHeld => ProfileHeld')
  BY <1>2 DEF UserPageTyped, TableTyped, ProfileHeld
<1>5. CASE UsersHeard
  <2>1. PICK i \in DOMAIN calls :
            /\ calls[i].fn = "getUsers" /\ Heard(i, <<>>) /\ userRows' = userRows
            /\ LET rows == calls[i].answer
               IN  userPage' = [userPage EXCEPT !.table =
                        [u \in {v \in DOMAIN rows : rows[v].name # userPage.cookie} |-> rows[u]]]
    BY <1>5 DEF UsersHeard
  <2>2. PICK rows : rows = calls[i].answer
    OBVIOUS
  <2>3. PICK table : table = [u \in {v \in DOMAIN rows : rows[v].name # userPage.cookie} |-> rows[u]]
    OBVIOUS
  <2>4. DOMAIN table \subseteq DOMAIN rows
    BY <2>3
  <2>5. userPage' = [userPage EXCEPT !.table = table]
    BY <2>1, <2>2, <2>3
  <2>6. /\ DOMAIN userPage' = DOMAIN userPage /\ userPage'.form = userPage.form
        /\ userPage'.open = userPage.open /\ userPage'.saves = userPage.saves
        /\ userPage'.me = userPage.me /\ userPage'.profile = userPage.profile /\ userPage'.table = table
        /\ userPage'.isAdmin = userPage.isAdmin /\ userPage'.editing = userPage.editing
    BY <1>2, <2>5 DEF UserPageTyped
  <2>7. \A u \in DOMAIN rows : u \in Users /\ userRows[u] # None
    BY <1>2, <2>1, <2>2 DEF UserCallTyped, Heard
  <2>8. UserPageTyped' /\ TableTyped' /\ (ProfileHeld => ProfileHeld')
    BY <1>2, <2>1, <2>4, <2>6, <2>7 DEF UserPageTyped, TableTyped, ProfileHeld
  <2>9. Hear(i, <<>>) /\ calls[i].fn # "editUser"
    BY <2>1, Listening
  <2>10. QED
    BY <1>3, <2>1, <2>6, <2>8, <2>9, NoneMade
<1>6. CASE ProfileHeard
  <2>1. PICK i \in DOMAIN calls :
            /\ calls[i].fn = "getUser" /\ Heard(i, <<>>) /\ userRows' = userRows
            /\ userPage' = IF calls[i].answer = Null THEN userPage
                           ELSE [userPage EXCEPT !.profile = calls[i].answer.row, !.me = calls[i].answer.id,
                                                 !.editing = FALSE]
    BY <1>6 DEF ProfileHeard
  <2>2. Hear(i, <<>>) /\ calls[i].fn # "editUser" /\ calls[i].answer \notin {None, Failed, Denied}
    BY <2>1, Listening DEF Heard
  <2>3. CASE userPage' = userPage
    BY <1>3, <1>4, <2>1, <2>2, <2>3, NoneMade
  <2>4. CASE calls[i].answer # Null
    <3>1. PICK a : a = calls[i].answer
      OBVIOUS
    <3>2. a \in Account
      BY <1>2, <2>1, <2>2, <2>4, <3>1 DEF UserCallTyped
    <3>3. a.id \in Users /\ a.row \in UserRow
      BY <3>2 DEF Account
    <3>4. userPage' = [userPage EXCEPT !.profile = a.row, !.me = a.id, !.editing = FALSE]
      BY <2>1, <2>4, <3>1
    <3>5. /\ DOMAIN userPage' = DOMAIN userPage /\ userPage'.form = userPage.form
          /\ userPage'.open = userPage.open /\ userPage'.saves = userPage.saves
          /\ userPage'.me = a.id /\ userPage'.profile = a.row /\ userPage'.table = userPage.table
          /\ userPage'.isAdmin = userPage.isAdmin /\ userPage'.editing = FALSE
      BY <1>2, <3>4 DEF UserPageTyped
    <3>6. UserPageTyped' /\ TableTyped'
      BY <1>2, <2>1, <3>3, <3>5 DEF UserPageTyped, TableTyped
    <3>7. UserCall(calls[i]) => IsOf(a.row, a.id)
      BY <2>1, <2>2, <2>4, <3>1 DEF UserCall
    <3>8. UserCall(calls[i]) => ProfileHeld'
      BY <3>5, <3>7 DEF ProfileHeld
    <3>9. QED
      BY <1>3, <2>1, <2>2, <3>5, <3>6, <3>8, NoneMade
  <2>5. QED
    BY <2>1, <2>3, <2>4
<1>7. CASE UserHeard
  <2>1. PICK i \in DOMAIN calls :
            /\ calls[i].fn = "editUser" /\ Heard(i, <<>>) /\ userRows' = userRows
            /\ userPage' = IF calls[i].answer = Null THEN userPage
                           ELSE [userPage EXCEPT !.form = calls[i].answer.row]
    BY <1>7 DEF UserHeard
  <2>2. Hear(i, <<>>) /\ calls[i].answer \notin {None, Failed, Denied}
    BY <2>1, Listening DEF Heard
  <2>3. CASE calls[i].answer = Null
    <3>1. userPage' = userPage
      BY <2>1, <2>3
    <3>2. userPage'.form = userPage.form
      BY <3>1
    <3>3. QED
      BY <1>3, <1>4, <2>1, <2>2, <2>3, <3>1, <3>2, NoneMade
  <2>4. CASE calls[i].answer # Null
    <3>1. PICK a : a = calls[i].answer
      OBVIOUS
    <3>2. a \in Account
      BY <1>2, <2>1, <2>2, <2>4, <3>1 DEF UserCallTyped
    <3>3. a.id \in Users /\ a.row \in UserRow
      BY <3>2 DEF Account
    <3>4. userPage' = [userPage EXCEPT !.form = a.row]
      BY <2>1, <2>4, <3>1
    <3>5. /\ DOMAIN userPage' = DOMAIN userPage /\ userPage'.form = a.row
          /\ userPage'.open = userPage.open /\ userPage'.saves = userPage.saves
          /\ userPage'.me = userPage.me /\ userPage'.profile = userPage.profile /\ userPage'.table = userPage.table
          /\ userPage'.isAdmin = userPage.isAdmin /\ userPage'.editing = userPage.editing
      BY <1>2, <3>4 DEF UserPageTyped
    <3>6. UserPageTyped' /\ TableTyped' /\ (ProfileHeld => ProfileHeld')
      BY <1>2, <2>1, <3>3, <3>5 DEF UserPageTyped, TableTyped, ProfileHeld
    <3>7. UserCall(calls[i]) => userPage.saves # None /\ IsOf(a.row, userPage.saves)
      <4>1. UserCall(calls[i]) => IsOf(a.row, a.id) /\ a.id = calls[i].key /\ userPage.saves = calls[i].key
        BY <2>1, <2>2, <2>4, <3>1 DEF UserCall
      <4>2. calls[i].key # None
        BY <1>2, <2>1, UserAssumption DEF UserCallTyped
      <4>3. QED
        BY <4>1, <4>2
    <3>8. \/ userPage.saves # None /\ (UserCall(calls[i]) => IsOf(userPage'.form, userPage'.saves))
          \/ ~UserCall(calls[i])
      BY <3>5, <3>7
    <3>9. QED
      BY <1>3, <2>1, <2>2, <3>5, <3>6, <3>8, NoneMade
  <2>5. QED
    BY <2>3, <2>4
<1>8. CASE UserSaved \/ ProfileSaved
  <2>1. PICK i, fn, key :
            /\ i \in DOMAIN calls /\ calls[i].fn # "editUser" /\ fn \in {"getUser", "getUsers"}
            /\ Heard(i, <<Call(fn, key, None)>>) /\ UNCHANGED <<userRows, userPage>>
    BY <1>8 DEF UserSaved, ProfileSaved, GetUser, GetUsers, userVars
  <2>2. PICK new : new = <<Call(fn, key, None)>>
    OBVIOUS
  <2>3. /\ IsCalls(new)
        /\ \A c : Comes(c, new) => (\E k \in DOMAIN calls : c = calls[k]) \/ (c.fn = fn /\ c.answer = None)
    BY <2>2, OneMade
  <2>4. Hear(i, new)
    BY <2>1, <2>2, Listening
  <2>5. i \in DOMAIN calls /\ userPage'.form = userPage.form /\ calls[i].fn # "editUser"
    BY <2>1
  <2>6. \A c : Comes(c, new) => (\E k \in DOMAIN calls : c = calls[k]) \/ (c.fn \in {"getUser", "getUsers"} /\ c.answer = None)
    BY <2>1, <2>3
  <2>7. QED
    BY <1>3, <1>4, <2>1, <2>3, <2>4, <2>5, <2>6
<1>9. QED
  BY <1>5, <1>6, <1>7, <1>8

\* No step breaks it.
LEMMA UsersNext ==
    ASSUME Typed, UsersTyped, UsersHeld, [Next]_vars
    PROVE  UsersTyped' /\ UsersHeld'
<1>1. ASSUME NEW F, F \cap UserFns = {}, Only(F), UNCHANGED <<userRows, userPage>>
      PROVE  UsersTyped' /\ UsersHeld'
  <2>1. /\ Grows /\ (page' = page \/ page' = "left")
        /\ \A j \in DOMAIN calls' : calls'[j].fn \in UserFns => \E i \in DOMAIN calls : calls[i] = calls'[j]
        /\ page' # "left" => \A fn \in UserFns : fn \in FunctionsOf(calls) => fn \in FunctionsOf(calls)'
    BY <1>1, LeftAlone
  <2>2. "editUser" \in UserFns
    BY DEF UserFns
  <2>3. QED
    BY <1>1, <2>1, <2>2, UsersLeft
<1> USE DEF UserFns
<1>2. CASE SensorStep /\ OfSensors
  BY <1>1, <1>2, SensorSteps DEF Keeps, OfSensors, userVars, SensorFns
<1>3. CASE GroupStep /\ OfGroups
  BY <1>1, <1>3, GroupSteps DEF Keeps, OfGroups, userVars, GroupCalls, GroupFns
<1>4. CASE LocationStep /\ OfLocations
  BY <1>1, <1>4, LocationSteps DEF Keeps, OfLocations, userVars, LocationFns
<1>5. CASE UserPanelStep
  BY <1>5, UsersPopup, UsersProfile, UsersAnswers, UsersHear DEF UserPanelStep
<1>6. CASE LoginStep /\ OfLogin
  BY <1>1, <1>6, LoginSteps DEF Keeps, OfLogin, userVars, LoginFns
<1>7. CASE ConfigStep /\ OfConfig
  BY <1>1, <1>7, ConfigSteps DEF Keeps, OfConfig, userVars, ConfigFns
<1>8. CASE SearchStep /\ OfSearch
  BY <1>1, <1>8, SearchSteps DEF Keeps, OfSearch, userVars, SearchFns
<1>9. CASE GraphStep /\ OfGraphs
  <2>1. Only({}) /\ UNCHANGED <<userRows, userPage>>
    BY <1>9, GraphSteps DEF Keeps, OfGraphs, userVars
  <2>2. QED
    BY <1>1, <2>1
<1>10. CASE CallFails \/ CallRefused \/ PageRedirected
  <2>1. UNCHANGED <<userRows, userPage>> /\ failures' \in Nat /\ Grows
    BY <1>10, AnyCall DEF panelVars, userVars
  <2>2. CASE /\ failures' # 0 /\ DOMAIN calls' = DOMAIN calls
             /\ \A j \in DOMAIN calls :
                    \/ calls'[j] = calls[j]
                    \/ \E bad \in {Failed, Denied} :
                        calls'[j] = [fn |-> calls[j].fn, key |-> calls[j].key, data |-> calls[j].data, answer |-> bad]
    <3>1. ASSUME NEW j \in DOMAIN calls
          PROVE  /\ calls'[j].fn = calls[j].fn /\ calls'[j].key = calls[j].key /\ calls'[j].data = calls[j].data
                 /\ calls'[j].answer \in {calls[j].answer, Failed, Denied}
      BY <2>2
    <3>2. UserRowsTyped /\ UserPageTyped /\ TableTyped /\ \A i \in DOMAIN calls : UserCallTyped(calls[i])
      BY UserParts
    <3>3. ASSUME NEW j \in DOMAIN calls
          PROVE  UserCallTyped(calls[j])'
      BY <2>1, <3>1, <3>2 DEF UserCallTyped
    <3>4. UserRowsTyped' /\ UserPageTyped' /\ TableTyped'
      BY <2>1, <3>2 DEF UserRowsTyped, UserPageTyped, TableTyped
    <3>5. ~Unfilled'
      BY <2>2 DEF Unfilled, Undisturbed
    <3>6. QED
      BY <2>2, <3>3, <3>4, <3>5, UserParts
  <2>3. CASE page' = "left" /\ calls' = <<>>
    <3>1. DOMAIN calls' = {}
      BY <2>3
    <3>2. QED
      BY <2>1, <2>3, <3>1, UsersLeft
  <2>4. ASSUME NEW i \in DOMAIN calls, Refused(i)
        PROVE  UsersTyped' /\ UsersHeld'
    <3>1. Hear(i, <<>>) /\ (calls[i].fn = "editUser" => calls[i].answer = Failed)
      BY <2>4, Listening DEF Refused, WithoutTable
    <3>2. /\ \A j \in DOMAIN calls' : \E k \in DOMAIN calls : calls'[j] = calls[k]
          /\ \A j \in DOMAIN calls : j # i => \E k \in DOMAIN calls' : calls'[k] = calls[j]
          /\ page' = page
      BY <3>1, AfterHearing, NoneMade DEF Typed
    <3>3. UsersCalm => calls[i].fn # "editUser"
      BY <3>1, UserAssumption, AnswersAssumption DEF UsersCalm, UserCall
    <3>4. UsersCalm => ("editUser" \in FunctionsOf(calls) => "editUser" \in FunctionsOf(calls)')
      BY <3>2, <3>3, CalledNow, CalledNext
    <3>5. QED
      BY <2>1, <3>2, <3>4, UsersLeft
  <2>5. QED
    BY <1>10, <2>2, <2>3, <2>4, AnyCall
<1>11. CASE Timer \/ UNCHANGED vars
  <2>1. UNCHANGED <<page, calls, failures, overtaken, hasty>> /\ UNCHANGED <<userRows, userPage>>
    BY <1>11 DEF Timer, HideAlert, vars, web, panelVars, userVars
  <2>2. Only({})
    BY <2>1, Idling DEF Keeps
  <2>3. QED
    BY <1>1, <2>1, <2>2
<1>12. QED
  BY <1>2, <1>3, <1>4, <1>5, <1>6, <1>7, <1>8, <1>9, <1>10, <1>11, EachStep

-----------------------------------------------------------------------------
(* The groups. *)

\* What GroupsTyped and GroupsHeld say of the rows, of the panel and of a call.
TurnFns == {"getGroup", "deleteGroup"}
GroupRowsTyped == groupRows \in [Groups -> Text \cup {None}]
GroupPanelTyped == DOMAIN group = {"options", "chosen", "form", "enabled", "buttons"} /\ group.form \in Text
GroupCallTyped(c) ==
    /\ c.fn = "updateGroup" => c.data \in Text
    /\ c.fn = "getGroup" => c.key \in Groups /\ c.answer \in {None, Null, Failed, Denied} \cup Text
GroupRowsHeld == \A g \in Groups : groupRows[g] # None => groupRows[g].of = g
GroupFormHeld == page = "groups" => Fits(group.form, hidden.groupId) \/ "getGroup" \in FunctionsOf(calls)
GroupCall(c) ==
    /\ c.fn = "updateGroup" => Fits(c.data, c.key)
    /\ c.fn = "getGroup" =>
        /\ c.answer \in {None, Null} \cup Text
        /\ c.answer = Null => groupRows[c.key] = None
        /\ c.answer \notin {None, Null} => Fits(c.answer, c.key)
    /\ c.fn = "deleteGroup" /\ c.key \in Groups => c.answer \in {None, Denied} \/ groupRows[c.key] = None
TurnsHeld == \A i \in DOMAIN calls : calls[i].fn \in TurnFns => Superseded(i) \/ calls[i].key = hidden.groupId
GroupsCalm == GroupRowsHeld /\ GroupFormHeld /\ TurnsHeld /\ \A i \in DOMAIN calls : GroupCall(calls[i])
InTurn == Undisturbed(TurnFns)

\* They say nothing else.
LEMMA GroupParts ==
    /\ GroupsTyped <=> GroupRowsTyped /\ GroupPanelTyped /\ \A i \in DOMAIN calls : GroupCallTyped(calls[i])
    /\ GroupsHeld <=> (InTurn => GroupsCalm)
    /\ GroupsTyped' <=> GroupRowsTyped' /\ GroupPanelTyped' /\ \A i \in DOMAIN calls' : GroupCallTyped(calls[i])'
    /\ GroupsHeld' <=> (InTurn' => /\ GroupRowsHeld' /\ GroupFormHeld' /\ TurnsHeld'
                                   /\ \A i \in DOMAIN calls' : GroupCall(calls[i])')
<1>1. /\ GroupsTyped <=> GroupRowsTyped /\ GroupPanelTyped /\ \A i \in DOMAIN calls : GroupCallTyped(calls[i])
      /\ GroupsTyped' <=> GroupRowsTyped' /\ GroupPanelTyped' /\ \A i \in DOMAIN calls' : GroupCallTyped(calls[i])'
  BY Zenon DEF GroupsTyped, GroupRowsTyped, GroupPanelTyped, GroupCallTyped
<1>2. GroupsHeld <=> (InTurn => GroupsCalm)
  BY Zenon DEF GroupsHeld, InTurn, GroupsCalm, GroupRowsHeld, GroupFormHeld, TurnsHeld, GroupCall, TurnFns
<1>3. GroupsHeld' <=> (InTurn' => /\ GroupRowsHeld' /\ GroupFormHeld' /\ TurnsHeld'
                                  /\ \A i \in DOMAIN calls' : GroupCall(calls[i])')
  BY Zenon DEF GroupsHeld, InTurn, GroupRowsHeld, GroupFormHeld, TurnsHeld, GroupCall, TurnFns
<1>4. QED
  BY <1>1, <1>2, <1>3

\* A row that is no more does not come back while a call names it.
Vacant == \A i \in DOMAIN calls :
    calls[i].key \in Groups /\ groupRows[calls[i].key] = None => groupRows'[calls[i].key] = None

\* What a step has to show.
LEMMA GroupsMove ==
    ASSUME GroupsTyped, GroupsHeld, Grows, GroupRowsTyped', GroupPanelTyped',
           \A j \in DOMAIN calls' : (\E i \in DOMAIN calls : calls'[j] = calls[i]) \/ GroupCallTyped(calls[j])',
           GroupsCalm /\ InTurn' =>
                /\ GroupRowsHeld' /\ GroupFormHeld' /\ TurnsHeld' /\ Vacant
                /\ \A j \in DOMAIN calls' : (\E i \in DOMAIN calls : calls'[j] = calls[i]) \/ GroupCall(calls[j])'
    PROVE  GroupsTyped' /\ GroupsHeld'
<1>1. \A j \in DOMAIN calls' : GroupCallTyped(calls[j])'
  <2>1. ASSUME NEW j \in DOMAIN calls', NEW i \in DOMAIN calls, calls'[j] = calls[i]
        PROVE  GroupCallTyped(calls[j])'
    <3>1. GroupCallTyped(calls'[j])
      BY <2>1, GroupParts
    <3>2. QED
      BY <3>1 DEF GroupCallTyped
  <2>2. QED
    BY <2>1
<1>2. ASSUME InTurn'
      PROVE  GroupRowsHeld' /\ GroupFormHeld' /\ TurnsHeld' /\ \A j \in DOMAIN calls' : GroupCall(calls[j])'
  <2>1. GroupsCalm
    BY <1>2, GroupParts, Calm DEF InTurn
  <2>2. ASSUME NEW j \in DOMAIN calls', NEW i \in DOMAIN calls, calls'[j] = calls[i]
        PROVE  GroupCall(calls[j])'
    <3>1. GroupCall(calls'[j]) /\ GroupCallTyped(calls'[j])
      BY <2>1, <2>2, GroupParts DEF GroupsCalm
    <3>2. calls'[j].key \in Groups /\ groupRows[calls'[j].key] = None => groupRows'[calls'[j].key] = None
      BY <1>2, <2>1, <2>2 DEF Vacant
    <3>3. \A text : Fits(text, calls'[j].key) => Fits(text, calls[j].key)'
      BY <3>2 DEF Fits
    <3>4. QED
      BY <3>1, <3>2, <3>3 DEF GroupCall, GroupCallTyped
  <2>3. QED
    BY <1>2, <2>1, <2>2
<1>3. QED
  BY <1>1, <1>2, GroupParts

\* Calls of other functions leave the turns alone.
LEMMA TurnsLeft ==
    ASSUME IsCalls(calls), IsCalls(calls)', TurnsHeld, NEW F, F \cap TurnFns = {}, Only(F), hidden'.groupId = hidden.groupId
    PROVE  TurnsHeld'
<1>1. CASE page' = "left" /\ calls' = <<>>
  BY <1>1 DEF TurnsHeld
<1>2. ASSUME NEW f, Matching(f, F)
      PROVE  TurnsHeld'
  <2>1. Len(calls) \in Nat /\ DOMAIN calls = 1..Len(calls)
    BY CallsAreSequence
  <2>2. PICK later : later = calls'
    OBVIOUS
  <2>3. IsCalls(later)
    BY <2>2 DEF IsCalls, Elements, IsCall
  <2>4. Len(later) \in Nat /\ DOMAIN later = 1..Len(later)
    BY <2>3, CallsAreSequence
  <2>5. ASSUME NEW j \in DOMAIN later, later[j].fn \in TurnFns
        PROVE  Superseded(j)' \/ later[j].key = hidden'.groupId
    <3>1. PICK i : i = f[j]
      OBVIOUS
    <3>2. i \in DOMAIN calls /\ calls[i] = later[j]
      BY <1>2, <2>2, <2>5, <3>1 DEF Matching
    <3>3. CASE Superseded(i)
      <4>1. PICK k \in DOMAIN calls : k > i /\ calls[k].fn = "getGroup"
        BY <3>3 DEF Superseded
      <4>2. PICK m \in DOMAIN later : f[m] = k /\ later[m].fn \notin F
        BY <1>2, <2>2, <4>1 DEF Matching, TurnFns
      <4>3. later[m] = calls[k]
        BY <1>2, <2>2, <4>2 DEF Matching
      <4>4. /\ m < j => f[m] < f[j]
            /\ later[j].fn \notin F
        BY <1>2, <2>2, <2>5, <4>2 DEF Matching
      <4>5. m > j
        BY <2>1, <2>4, <3>1, <3>2, <4>1, <4>2, <4>4
      <4>6. QED
        BY <2>2, <4>1, <4>3, <4>5 DEF Superseded
    <3>4. CASE calls[i].key = hidden.groupId
      BY <3>2, <3>4
    <3>5. QED
      BY <2>5, <3>2, <3>3, <3>4 DEF TurnsHeld
  <2>6. QED
    BY <2>2, <2>5 DEF TurnsHeld
<1>3. QED
  BY <1>1, <1>2 DEF Only

\* Nor does an answer.
LEMMA TurnsAnswered ==
    ASSUME TurnsHeld, DOMAIN calls' = DOMAIN calls, hidden'.groupId = hidden.groupId,
           \A j \in DOMAIN calls : calls'[j].fn = calls[j].fn /\ calls'[j].key = calls[j].key
    PROVE  TurnsHeld'
<1>1. \A i \in DOMAIN calls : Superseded(i) => Superseded(i)'
  BY DEF Superseded
<1>2. QED
  BY <1>1 DEF TurnsHeld

\* A step that leaves the groups and their panel alone, and the calls as far as they are about them.
LEMMA GroupsLeft ==
    ASSUME IsCalls(calls), IsCalls(calls)', GroupsTyped, GroupsHeld, UNCHANGED <<groupRows, group>>,
           hidden'.groupId = hidden.groupId, NEW F, F \cap GroupFns = {}, Only(F)
    PROVE  GroupsTyped' /\ GroupsHeld'
<1>1. /\ Grows /\ (page' = page \/ page' = "left")
      /\ \A j \in DOMAIN calls' : calls'[j].fn \in GroupFns => \E i \in DOMAIN calls : calls[i] = calls'[j]
      /\ page' # "left" => \A fn \in GroupFns : fn \in FunctionsOf(calls) => fn \in FunctionsOf(calls)'
  BY LeftAlone
<1>2. GroupRowsTyped' /\ GroupPanelTyped'
  BY GroupParts DEF GroupRowsTyped, GroupPanelTyped
<1>3. ASSUME NEW j \in DOMAIN calls'
      PROVE  (\E i \in DOMAIN calls : calls'[j] = calls[i]) \/ (GroupCallTyped(calls[j])' /\ GroupCall(calls[j])')
  <2>1. CASE calls'[j].fn \in GroupFns
    BY <1>1, <2>1
  <2>2. CASE calls'[j].fn \notin GroupFns
    BY <2>2 DEF GroupCallTyped, GroupCall, GroupFns
  <2>3. QED
    BY <2>1, <2>2
<1>4. ASSUME GroupsCalm
      PROVE  GroupRowsHeld' /\ GroupFormHeld' /\ TurnsHeld' /\ Vacant
  <2>1. TurnsHeld'
    BY <1>4, TurnsLeft DEF GroupsCalm, GroupFns, TurnFns
  <2>2. GroupRowsHeld' /\ Vacant
    BY <1>4 DEF GroupsCalm, GroupRowsHeld, Vacant
  <2>3. "getGroup" \in GroupFns
    BY DEF GroupFns
  <2>4. GroupFormHeld'
    BY <1>1, <1>4, <2>3 DEF GroupsCalm, GroupFormHeld, Fits
  <2>5. QED
    BY <2>1, <2>2, <2>4
<1>5. QED
  BY <1>1, <1>2, <1>3, <1>4, GroupsMove

\* At first every row is its group's own.
LEMMA GroupsAtFirst ==
    ASSUME Init
    PROVE  GroupsTyped /\ GroupsHeld
<1>1. GroupInit /\ calls = CallsOfReady /\ SensorInit
  BY DEF Init
<1>2. \A i \in DOMAIN calls : calls[i].fn \in {"getGroups", "getConfig", "getUser", "getUsers"}
  BY <1>1 DEF CallsOfReady, GetGroups, GetConfig, GetUser, GetUsers, Call
<1>3. GroupRowsTyped /\ GroupRowsHeld
  <2>1. PICK s : groupRows = [g \in Groups |-> IF g \in s THEN Row(g) ELSE None]
    BY <1>1 DEF GroupInit
  <2>2. \A g \in Groups : Row(g) \in Text /\ Row(g).of = g
    BY DEF Row, Text
  <2>3. \A g \in Groups : groupRows[g] \in {Row(g), None}
    BY <2>1
  <2>4. GroupRowsTyped
    BY <2>1, <2>2 DEF GroupRowsTyped
  <2>5. GroupRowsHeld
    BY <2>2, <2>3 DEF GroupRowsHeld
  <2>6. QED
    BY <2>4, <2>5
<1>4. Blank \in Text
  BY DEF Blank, Text
<1>5. GroupPanelTyped
  BY <1>1, <1>4 DEF GroupInit, GroupPanelTyped
<1>6. page = "groups" => hidden.groupId = None
  BY <1>1 DEF SensorInit
<1>7. GroupFormHeld
  BY <1>1, <1>6 DEF GroupInit, GroupFormHeld, Fits, Blank
<1>8. TurnsHeld /\ \A i \in DOMAIN calls : GroupCallTyped(calls[i]) /\ GroupCall(calls[i])
  BY <1>2 DEF TurnsHeld, TurnFns, GroupCallTyped, GroupCall
<1>9. QED
  BY <1>3, <1>5, <1>7, <1>8, GroupParts DEF GroupsCalm

\* New calls are of some functions.
LEMMA MakingSome ==
    ASSUME NEW new, IsCalls(new)
    PROVE  \E F : Making(new, F)
<1>1. PICK F : F = {new[k].fn : k \in DOMAIN new}
  OBVIOUS
<1>2. Making(new, F)
  BY <1>1 DEF Making
<1>3. QED
  BY <1>2

\* They are under way after the click.
LEMMA SentIsUnderWay ==
    ASSUME IsCalls(calls), failures \in Nat, NEW p, NEW new, IsCalls(new), Click(p, new) \/ EndEdit(p, new)
    PROVE  \A k \in DOMAIN new : \E j \in DOMAIN calls' : calls'[j] = new[k]
<1>1. PICK F : Making(new, F)
  BY MakingSome
<1>2. /\ Len(calls) \in Nat /\ DOMAIN calls = 1..Len(calls) /\ DOMAIN calls' = 1..(Len(calls) + Len(new))
      /\ Len(new) \in Nat /\ DOMAIN new = 1..Len(new)
      /\ \A i \in 1..Len(calls) : calls'[i] = calls[i]
      /\ \A i \in 1..Len(new) : calls'[Len(calls) + i] = new[i]
  BY <1>1, Sending
<1>3. \A k \in 1..Len(new) : Len(calls) + k \in 1..(Len(calls) + Len(new))
  BY <1>2
<1>4. QED
  BY <1>2, <1>3

\* The calls of a click come last: what they name is what is selected.
LEMMA TurnsSent ==
    ASSUME IsCalls(calls), failures \in Nat, TurnsHeld, NEW p, NEW new, IsCalls(new), Click(p, new) \/ EndEdit(p, new),
           \A k \in DOMAIN new : new[k].fn \in TurnFns => new[k].key = hidden'.groupId,
           hidden'.groupId = hidden.groupId \/ \E k \in DOMAIN new : new[k].fn = "getGroup"
    PROVE  TurnsHeld'
<1>1. PICK F : Making(new, F)
  BY MakingSome
<1>2. /\ Len(calls) \in Nat /\ DOMAIN calls = 1..Len(calls) /\ DOMAIN calls' = 1..(Len(calls) + Len(new))
      /\ Len(new) \in Nat /\ DOMAIN new = 1..Len(new)
      /\ \A i \in 1..Len(calls) : calls'[i] = calls[i]
      /\ \A i \in 1..Len(new) : calls'[Len(calls) + i] = new[i]
  BY <1>1, Sending
<1>3. ASSUME NEW j \in DOMAIN calls', calls'[j].fn \in TurnFns
      PROVE  Superseded(j)' \/ calls'[j].key = hidden'.groupId
  <2>1. CASE j =< Len(calls)
    <3>1. j \in DOMAIN calls /\ calls'[j] = calls[j]
      BY <1>2, <2>1
    <3>2. CASE Superseded(j)
      <4>1. PICK k \in DOMAIN calls : k > j /\ calls[k].fn = "getGroup"
        BY <3>2 DEF Superseded
      <4>2. k \in DOMAIN calls' /\ calls'[k].fn = "getGroup"
        BY <1>2, <4>1
      <4>3. QED
        BY <4>1, <4>2 DEF Superseded
    <3>3. CASE \E k \in DOMAIN new : new[k].fn = "getGroup"
      <4>1. PICK k \in DOMAIN new : new[k].fn = "getGroup"
        BY <3>3
      <4>2. PICK m : m = Len(calls) + k
        OBVIOUS
      <4>3. m \in DOMAIN calls' /\ calls'[m].fn = "getGroup" /\ m > j
        BY <1>2, <3>1, <4>1, <4>2
      <4>4. QED
        BY <4>3 DEF Superseded
    <3>4. QED
      BY <1>3, <3>1, <3>2, <3>3 DEF TurnsHeld
  <2>2. CASE j > Len(calls)
    <3>1. PICK k : k = j - Len(calls)
      OBVIOUS
    <3>2. k \in DOMAIN new /\ calls'[j] = new[k]
      BY <1>2, <2>2, <3>1
    <3>3. QED
      BY <1>3, <3>2
  <2>3. QED
    BY <1>2, <2>1, <2>2
<1>4. QED
  BY <1>3 DEF TurnsHeld

\* A click that leaves the rows and what the form is of.
LEMMA GroupSent ==
    ASSUME Typed, GroupsTyped, GroupsHeld, NEW new, IsCalls(new), Click("groups", new) \/ EndEdit("groups", new),
           groupRows' = groupRows, GroupPanelTyped', group'.form.of = group.form.of,
           \A c : Comes(c, new) =>
                \/ \E i \in DOMAIN calls : c = calls[i]
                \/ /\ c.fn = "updateGroup" => c.data \in Text
                   /\ c.fn = "getGroup" => c.key \in Groups
                   /\ c.answer = None,
           \A k \in DOMAIN new : new[k].fn \in TurnFns => new[k].key = hidden'.groupId,
           hidden'.groupId = hidden.groupId \/ \E k \in DOMAIN new : new[k].fn = "getGroup",
           GroupFormHeld /\ (EndEdit("groups", new) /\ InTurn' => \A i \in DOMAIN calls : calls[i].fn \notin TurnFns) =>
                \A c : Comes(c, new) /\ c.fn = "updateGroup" =>
                    (\E i \in DOMAIN calls : c = calls[i]) \/ Fits(c.data, c.key) \/ (~InTurn')
    PROVE  GroupsTyped' /\ GroupsHeld'
<1>1. IsCalls(calls) /\ failures \in Nat
  BY DEF Typed
<1>2. /\ \A j \in DOMAIN calls' : Comes(calls'[j], new)
      /\ \A i \in DOMAIN calls : i \in DOMAIN calls' /\ calls'[i] = calls[i]
      /\ page' = page /\ failures' = failures /\ overtaken' = overtaken
      /\ hasty' \in {hasty, hasty \cup FunctionsOf(calls)}
      /\ EndEdit("groups", new) => hasty' = hasty \cup FunctionsOf(calls)
  BY <1>1, AfterClick
<1>3. Grows
  BY <1>2 DEF Grows
<1>4. GroupRowsTyped'
  BY GroupParts DEF GroupRowsTyped
<1>5. ASSUME NEW j \in DOMAIN calls'
      PROVE  (\E i \in DOMAIN calls : calls'[j] = calls[i]) \/ GroupCallTyped(calls[j])'
  BY <1>2 DEF GroupCallTyped
<1>6. EndEdit("groups", new) /\ InTurn' => \A i \in DOMAIN calls : calls[i].fn \notin TurnFns
  BY <1>2, CalledNow DEF InTurn, Undisturbed
<1>7. ASSUME GroupsCalm, InTurn'
      PROVE  /\ GroupRowsHeld' /\ GroupFormHeld' /\ TurnsHeld' /\ Vacant
             /\ \A j \in DOMAIN calls' : (\E i \in DOMAIN calls : calls'[j] = calls[i]) \/ GroupCall(calls[j])'
  <2>1. TurnsHeld'
    BY <1>1, <1>7, TurnsSent DEF GroupsCalm
  <2>2. GroupRowsHeld' /\ Vacant
    BY <1>7 DEF GroupsCalm, GroupRowsHeld, Vacant
  <2>3. \A fn : fn \in FunctionsOf(calls) => fn \in FunctionsOf(calls)'
    BY <1>2, CalledNow, CalledNext
  <2>4. GroupFormHeld'
    <3>1. CASE hidden'.groupId = hidden.groupId
      BY <1>2, <1>7, <2>3, <3>1 DEF GroupsCalm, GroupFormHeld, Fits
    <3>2. CASE \E k \in DOMAIN new : new[k].fn = "getGroup"
      <4>1. PICK k \in DOMAIN new : new[k].fn = "getGroup"
        BY <3>2
      <4>2. PICK j \in DOMAIN calls' : calls'[j] = new[k]
        BY <1>1, SentIsUnderWay
      <4>3. QED
        BY <4>1, <4>2, CalledNext DEF GroupFormHeld
    <3>3. QED
      BY <3>1, <3>2
  <2>5. ASSUME NEW j \in DOMAIN calls'
        PROVE  (\E i \in DOMAIN calls : calls'[j] = calls[i]) \/ GroupCall(calls[j])'
    <3>1. CASE \E i \in DOMAIN calls : calls'[j] = calls[i]
      BY <3>1
    <3>2. CASE ~\E i \in DOMAIN calls : calls'[j] = calls[i]
      <4>1. calls'[j].answer = None
        BY <1>2, <3>2
      <4>2. calls'[j].fn = "updateGroup" => Fits(calls'[j].data, calls'[j].key)
        BY <1>2, <1>6, <1>7, <3>2 DEF GroupsCalm
      <4>3. calls'[j].fn = "updateGroup" => Fits(calls[j].data, calls[j].key)'
        BY <4>2 DEF Fits
      <4>4. QED
        BY <4>1, <4>3, AnswersAssumption DEF GroupCall
    <3>3. QED
      BY <3>1, <3>2
  <2>6. QED
    BY <2>1, <2>2, <2>4, <2>5
<1>8. QED
  BY <1>3, <1>4, <1>5, <1>7, GroupsMove

\* The user selects a group, edits its form and has it saved, adds and deletes groups.
LEMMA GroupsClicks ==
    ASSUME Typed, GroupsTyped, GroupsHeld,
           \/ \E g \in Groups : SelectGroup(g)
           \/ TypeGroup \/ AddGroup \/ EditGroup \/ UpdateGroup \/ CancelGroup \/ DeleteGroup
    PROVE  GroupsTyped' /\ GroupsHeld'
<1>1. GroupPanelTyped /\ DOMAIN hidden = {"sensorId", "groupId", "results", "devices"}
  BY GroupParts DEF Typed
<1>2. ASSUME NEW g \in Groups, SelectGroup(g)
      PROVE  GroupsTyped' /\ GroupsHeld'
  <2>1. PICK new : new = <<Call("getGroup", g, None), Call("getSensorsFromId", g, None)>>
    OBVIOUS
  <2>2. /\ Click("groups", new) /\ groupRows' = groupRows /\ hidden' = [hidden EXCEPT !.groupId = g]
        /\ group' = [group EXCEPT !.chosen = g, !.enabled = FALSE]
    BY <1>2, <2>1 DEF SelectGroup, OnGroups, GetGroup, GetSensorsFromId
  <2>3. /\ IsCalls(new) /\ DOMAIN new = 1..2
        /\ new[1] = Call("getGroup", g, None) /\ new[2] = Call("getSensorsFromId", g, None)
        /\ \A c : Comes(c, new) => \/ \E i \in DOMAIN calls : c = calls[i]
                                   \/ c.fn = "getGroup" /\ c.key = g /\ c.data = None /\ c.answer = None
                                   \/ c.fn = "getSensorsFromId" /\ c.key = g /\ c.data = None /\ c.answer = None
    BY <2>1, TwoMade
  <2>4. hidden'.groupId = g
    BY <1>1, <2>2
  <2>5. DOMAIN group' = DOMAIN group /\ group'.form = group.form
    BY <1>1, <2>2 DEF GroupPanelTyped
  <2>6. GroupPanelTyped'
    BY <1>1, <2>5 DEF GroupPanelTyped
  <2>7. 1 \in DOMAIN new /\ new[1].fn = "getGroup" /\ \A k \in DOMAIN new : new[k].key = g
    <3>1. \A k \in 1..2 : k = 1 \/ k = 2
      OBVIOUS
    <3>2. new[1].fn = "getGroup" /\ new[1].key = g /\ new[2].key = g
      BY <2>3 DEF Call
    <3>3. QED
      BY <2>3, <3>1, <3>2
  <2>8. \A c : Comes(c, new) =>
                \/ \E i \in DOMAIN calls : c = calls[i]
                \/ /\ c.fn = "updateGroup" => c.data \in Text
                   /\ c.fn = "getGroup" => c.key \in Groups
                   /\ c.answer = None
    BY <2>3
  <2>9. \A c : Comes(c, new) /\ c.fn = "updateGroup" => \E i \in DOMAIN calls : c = calls[i]
    BY <2>3
  <2>10. (\A k \in DOMAIN new : new[k].fn \in TurnFns => new[k].key = hidden'.groupId)
         /\ (\E k \in DOMAIN new : new[k].fn = "getGroup")
    BY <2>4, <2>7
  <2>11. QED
    BY <2>2, <2>3, <2>5, <2>6, <2>8, <2>9, <2>10, GroupSent
<1>3. ASSUME NEW fn \in {"addGroup", "getGroups", "updateGroup", "deleteGroup"}, NEW key, NEW data, NEW new,
             new = <<>> \/ new = <<Call(fn, key, data)>>, Click("groups", new) \/ EndEdit("groups", new),
             groupRows' = groupRows, hidden' = hidden, GroupPanelTyped', group'.form.of = group.form.of,
             new # <<>> /\ fn = "updateGroup" => data \in Text,
             new # <<>> /\ fn = "deleteGroup" => key = hidden.groupId,
             new # <<>> /\ fn = "updateGroup" /\ GroupFormHeld
                /\ (EndEdit("groups", new) /\ InTurn' => \A i \in DOMAIN calls : calls[i].fn \notin TurnFns) =>
                    Fits(data, key) \/ (~InTurn')
      PROVE  GroupsTyped' /\ GroupsHeld'
  <2>1. /\ IsCalls(new)
        /\ \A c : Comes(c, new) => \/ \E i \in DOMAIN calls : c = calls[i]
                                   \/ new # <<>> /\ c.fn = fn /\ c.key = key /\ c.data = data /\ c.answer = None
    BY <1>3, NoneMade, OneMade
  <2>2. \A k \in DOMAIN new : new[k].fn = fn /\ new[k].key = key /\ new # <<>>
    <3>1. CASE new = <<>>
      BY <3>1
    <3>2. CASE new = <<Call(fn, key, data)>>
      <4>1. DOMAIN new = 1..1 /\ new[1] = Call(fn, key, data)
        BY <3>2, MakingOne
      <4>2. new[1].fn = fn /\ new[1].key = key
        BY <4>1 DEF Call
      <4>3. QED
        BY <3>2, <4>1, <4>2
    <3>3. QED
      BY <1>3, <3>1, <3>2
  <2>3. \A k \in DOMAIN new : new[k].fn \in TurnFns => new[k].key = hidden'.groupId
    BY <1>3, <2>2 DEF TurnFns
  <2>4. \A c : Comes(c, new) =>
                \/ \E i \in DOMAIN calls : c = calls[i]
                \/ /\ c.fn = "updateGroup" => c.data \in Text
                   /\ c.fn = "getGroup" => c.key \in Groups
                   /\ c.answer = None
    BY <1>3, <2>1
  <2>5. GroupFormHeld /\ (EndEdit("groups", new) /\ InTurn' => \A i \in DOMAIN calls : calls[i].fn \notin TurnFns) =>
            \A c : Comes(c, new) /\ c.fn = "updateGroup" =>
                (\E i \in DOMAIN calls : c = calls[i]) \/ Fits(c.data, c.key) \/ (~InTurn')
    BY <1>3, <2>1
  <2>6. hidden'.groupId = hidden.groupId
    BY <1>3
  <2>7. QED
    BY <1>3, <2>1, <2>3, <2>4, <2>5, <2>6, GroupSent
<1>4. group' = group => GroupPanelTyped' /\ group'.form.of = group.form.of
  BY <1>1 DEF GroupPanelTyped
<1>5. CASE AddGroup \/ DeleteGroup
  <2>1. CASE AddGroup
    BY <1>3, <1>4, <2>1 DEF AddGroup, OnGroups
  <2>2. CASE DeleteGroup
    BY <1>3, <1>4, <2>2 DEF DeleteGroup, OnGroups
  <2>3. QED
    BY <1>5, <2>1, <2>2
<1>6. CASE TypeGroup
  <2>1. Click("groups", <<>>) /\ groupRows' = groupRows /\ hidden' = hidden /\ group' = [group EXCEPT !.form.edited = TRUE]
    BY <1>6 DEF TypeGroup, OnGroups
  <2>2. PICK form : form = [group.form EXCEPT !.edited = TRUE]
    OBVIOUS
  <2>3. form \in Text /\ form.of = group.form.of
    BY <1>1, <2>2 DEF GroupPanelTyped, Text
  <2>4. group' = [group EXCEPT !.form = form]
    BY <2>1, <2>2
  <2>5. DOMAIN group' = DOMAIN group /\ group'.form = form
    BY <1>1, <2>4 DEF GroupPanelTyped
  <2>6. GroupPanelTyped' /\ group'.form.of = group.form.of
    BY <1>1, <2>3, <2>5 DEF GroupPanelTyped
  <2>7. QED
    BY <1>3, <2>1, <2>6
<1>7. CASE EditGroup \/ CancelGroup
  <2>1. CASE EditGroup
    <3>1. /\ Click("groups", <<>>) /\ groupRows' = groupRows /\ hidden' = hidden
          /\ group' = [group EXCEPT !.enabled = TRUE, !.buttons = "edit"]
      BY <2>1 DEF EditGroup, OnGroups
    <3>2. DOMAIN group' = DOMAIN group /\ group'.form = group.form
      BY <1>1, <3>1 DEF GroupPanelTyped
    <3>3. GroupPanelTyped' /\ group'.form.of = group.form.of
      BY <1>1, <3>2 DEF GroupPanelTyped
    <3>4. QED
      BY <1>3, <3>1, <3>3
  <2>2. CASE CancelGroup
    <3>1. PICK new : new = <<Call("getGroups", None, None)>>
      OBVIOUS
    <3>2. /\ EndEdit("groups", new) /\ groupRows' = groupRows /\ hidden' = hidden
          /\ group' = [group EXCEPT !.enabled = FALSE, !.buttons = "view"]
      BY <2>2, <3>1 DEF CancelGroup, Closed, GetGroups, sensorVars
    <3>3. DOMAIN group' = DOMAIN group /\ group'.form = group.form
      BY <1>1, <3>2 DEF GroupPanelTyped
    <3>4. GroupPanelTyped' /\ group'.form.of = group.form.of
      BY <1>1, <3>3 DEF GroupPanelTyped
    <3>5. QED
      BY <1>3, <3>1, <3>2, <3>4
  <2>3. QED
    BY <1>7, <2>1, <2>2
<1>8. CASE UpdateGroup
  <2>1. PICK new : new = <<Call("updateGroup", hidden.groupId, group.form)>>
    OBVIOUS
  <2>2. EndEdit("groups", new) /\ groupRows' = groupRows /\ hidden' = hidden /\ group' = group
    BY <1>8, <2>1 DEF UpdateGroup, groupVars, sensorVars
  <2>3. page = "groups"
    BY <2>2 DEF EndEdit, Clicked
  <2>4. (\A i \in DOMAIN calls : calls[i].fn \notin TurnFns) => "getGroup" \notin FunctionsOf(calls)
    BY CalledNow DEF TurnFns
  <2>5. GroupFormHeld /\ (EndEdit("groups", new) /\ InTurn' => \A i \in DOMAIN calls : calls[i].fn \notin TurnFns) =>
            Fits(group.form, hidden.groupId) \/ (~InTurn')
    BY <2>2, <2>3, <2>4 DEF GroupFormHeld
  <2>6. group.form \in Text
    BY <1>1 DEF GroupPanelTyped
  <2>7. QED
    BY <1>3, <1>4, <2>1, <2>2, <2>5, <2>6
<1>9. QED
  BY <1>2, <1>5, <1>6, <1>7, <1>8

\* The servlet answers out of its rows, and changes them as the calls say.
LEMMA GroupsAnswers ==
    ASSUME Typed, GroupsTyped, GroupsHeld, ReadGroups \/ ReadGroup \/ InsertGroup \/ StoreGroup \/ RemoveGroup
    PROVE  GroupsTyped' /\ GroupsHeld'
<1>1. IsCalls(calls) /\ failures \in Nat
  BY DEF Typed
<1>2. GroupRowsTyped /\ GroupPanelTyped /\ \A i \in DOMAIN calls : GroupCallTyped(calls[i])
  BY GroupParts
<1>3. ASSUME NEW i \in DOMAIN calls, NEW answer, Executed(i, answer) \/ Reply(i, answer), UNCHANGED <<group, hidden>>,
             GroupRowsTyped', GroupRowsHeld /\ GroupCall(calls[i]) => GroupRowsHeld', Vacant,
             hidden.groupId \in Groups /\ groupRows[hidden.groupId] = None => groupRows'[hidden.groupId] = None,
             calls[i].fn = "getGroup" =>
                /\ answer \in {Null} \cup Text /\ groupRows' = groupRows
                /\ GroupRowsHeld => IF answer = Null THEN groupRows[calls[i].key] = None ELSE Fits(answer, calls[i].key),
             calls[i].fn = "deleteGroup" /\ calls[i].key \in Groups =>
                \/ groupRows'[calls[i].key] = None
                \/ answer = Denied
      PROVE  GroupsTyped' /\ GroupsHeld'
  <2>1. /\ page' = page /\ hasty' = hasty /\ DOMAIN calls' = DOMAIN calls
        /\ failures' = failures \/ failures' = failures + 1
        /\ overtaken \subseteq overtaken' /\ calls[i].answer = None
        /\ \A j \in DOMAIN calls : j # i => calls'[j] = calls[j]
    BY <1>1, <1>3, AfterAnswer
  <2>2. PICK a \in {answer, Failed, Denied} :
            /\ calls'[i] = [fn |-> calls[i].fn, key |-> calls[i].key, data |-> calls[i].data, answer |-> a]
            /\ failures' = 0 => a = answer
    BY <1>1, <1>3, AfterAnswer
  <2>3. Grows
    BY <1>1, <2>1 DEF Grows
  <2>4. GroupPanelTyped'
    BY <1>2, <1>3 DEF GroupPanelTyped
  <2>5. \A j \in DOMAIN calls' : (\E k \in DOMAIN calls : calls'[j] = calls[k]) \/ j = i
    BY <2>1
  <2>6. PICK d : d = calls'[i]
    OBVIOUS
  <2>7. d.fn = calls[i].fn /\ d.key = calls[i].key /\ d.data = calls[i].data /\ d.answer = a /\ GroupCallTyped(calls[i])
    BY <1>2, <2>2, <2>6
  <2>8. GroupCallTyped(calls[i])'
    <3>1. GroupCallTyped(d)
      BY <1>3, <2>7 DEF GroupCallTyped
    <3>2. QED
      BY <2>6, <3>1 DEF GroupCallTyped
  <2>9. \A j \in DOMAIN calls : calls'[j].fn = calls[j].fn /\ calls'[j].key = calls[j].key
    BY <2>1, <2>6, <2>7
  <2>10. ASSUME GroupsCalm, InTurn'
         PROVE  GroupRowsHeld' /\ GroupFormHeld' /\ TurnsHeld' /\ GroupCall(calls[i])'
    <3>1. GroupRowsHeld /\ GroupFormHeld /\ TurnsHeld /\ GroupCall(calls[i]) /\ a = answer
      BY <2>2, <2>10 DEF GroupsCalm, InTurn, Undisturbed
    <3>2. GroupRowsHeld'
      BY <1>3, <3>1
    <3>3. \A fn : fn \in FunctionsOf(calls) => fn \in FunctionsOf(calls)'
      BY <2>1, <2>9, CalledNow, CalledNext
    <3>4. GroupFormHeld'
      BY <1>3, <2>1, <3>1, <3>3 DEF GroupFormHeld, Fits
    <3>5. TurnsHeld'
      BY <1>3, <2>1, <2>9, <3>1, TurnsAnswered
    <3>6. d.key \in Groups /\ groupRows[d.key] = None => groupRows'[d.key] = None
      BY <1>3, <2>7 DEF Vacant
    <3>7. \A text : Fits(text, d.key) => Fits(text, d.key)'
      BY <3>6 DEF Fits
    <3>8. ASSUME d.fn = "updateGroup"
          PROVE  GroupCall(d)'
      BY <2>7, <3>1, <3>7, <3>8 DEF GroupCall
    <3>9. ASSUME d.fn = "getGroup"
          PROVE  GroupCall(d)'
      <4>1. answer \in {Null} \cup Text /\ groupRows' = groupRows
            /\ IF answer = Null THEN groupRows[d.key] = None ELSE Fits(answer, d.key)
        BY <1>3, <2>7, <3>1, <3>9
      <4>2. d.answer = answer
        BY <2>7, <3>1
      <4>3. QED
        BY <3>7, <3>9, <4>1, <4>2 DEF GroupCall
    <3>10. ASSUME d.fn = "deleteGroup"
           PROVE  GroupCall(d)'
      <4>1. d.key \in Groups => groupRows'[d.key] = None \/ d.answer = Denied
        BY <1>3, <2>7, <3>1, <3>10
      <4>2. QED
        BY <3>10, <4>1 DEF GroupCall
    <3>11. ASSUME d.fn \notin {"updateGroup", "getGroup", "deleteGroup"}
           PROVE  GroupCall(d)'
      BY <3>11 DEF GroupCall
    <3>12. GroupCall(d)'
      BY <3>8, <3>9, <3>10, <3>11
    <3>13. QED
      BY <2>6, <3>2, <3>4, <3>5, <3>12 DEF GroupCall
  <2>11. GroupsCalm /\ InTurn' =>
            /\ GroupRowsHeld' /\ GroupFormHeld' /\ TurnsHeld' /\ Vacant
            /\ \A j \in DOMAIN calls' : (\E k \in DOMAIN calls : calls'[j] = calls[k]) \/ GroupCall(calls[j])'
    BY <1>3, <2>5, <2>10
  <2>12. \A j \in DOMAIN calls' : (\E k \in DOMAIN calls : calls'[j] = calls[k]) \/ GroupCallTyped(calls[j])'
    BY <2>5, <2>8
  <2>13. QED
    BY <1>3, <2>3, <2>4, <2>11, <2>12, GroupsMove
<1>4. UNCHANGED groupRows => GroupRowsTyped' /\ (GroupRowsHeld => GroupRowsHeld') /\ Vacant
  BY <1>2 DEF GroupRowsTyped, GroupRowsHeld, Vacant
<1>5. CASE ReadGroups
  <2>1. PICK i, answer :
            /\ i \in DOMAIN calls /\ calls[i].fn = "getGroups" /\ Reply(i, answer) /\ UNCHANGED <<groupRows, group, hidden>>
    BY <1>5 DEF ReadGroups, groupVars, sensorVars
  <2>2. QED
    BY <1>3, <1>4, <2>1
<1>6. CASE ReadGroup
  <2>1. PICK i \in DOMAIN calls :
            /\ calls[i].fn = "getGroup" /\ UNCHANGED <<groupRows, group, hidden>>
            /\ Reply(i, IF groupRows[calls[i].key] = None THEN Null ELSE groupRows[calls[i].key])
    BY <1>6 DEF ReadGroup, groupVars, sensorVars
  <2>2. PICK answer : answer = IF groupRows[calls[i].key] = None THEN Null ELSE groupRows[calls[i].key]
    OBVIOUS
  <2>3. calls[i].key \in Groups
    BY <1>2, <2>1 DEF GroupCallTyped
  <2>4. answer \in {Null} \cup Text
    BY <1>2, <2>2, <2>3 DEF GroupRowsTyped
  <2>5. GroupRowsHeld => IF answer = Null THEN groupRows[calls[i].key] = None ELSE Fits(answer, calls[i].key)
    BY <1>2, <2>2, <2>3, GroupAssumption DEF GroupRowsTyped, GroupRowsHeld, Fits
  <2>6. QED
    BY <1>3, <1>4, <2>1, <2>2, <2>4, <2>5
<1>7. CASE InsertGroup
  <2>1. PICK i \in DOMAIN calls :
            LET free == {g \in Groups : groupRows[g] = None /\ g # hidden.groupId
                                          /\ \A j \in DOMAIN calls : calls[j].key # g}
            IN  /\ calls[i].fn = "addGroup"
                /\ \/ TableFull(i, free) /\ UNCHANGED groupRows
                   \/ \E g \in free : Executed(i, "done") /\ groupRows' = [groupRows EXCEPT ![g] = Row(g)]
                /\ UNCHANGED <<group, sensorVars>>
    BY <1>7 DEF InsertGroup
  <2>2. calls[i].fn = "addGroup" /\ UNCHANGED <<group, hidden>>
    BY <2>1 DEF sensorVars
  <2>3. CASE Reply(i, Denied) /\ UNCHANGED groupRows
    BY <1>3, <1>4, <2>2, <2>3
  <2>4. ASSUME NEW g \in Groups, groupRows[g] = None, g # hidden.groupId, \A j \in DOMAIN calls : calls[j].key # g,
               Executed(i, "done"), groupRows' = [groupRows EXCEPT ![g] = Row(g)]
        PROVE  GroupsTyped' /\ GroupsHeld'
    <3>1. PICK row : row = Row(g)
      OBVIOUS
    <3>2. row \in Text /\ row.of = g
      BY <3>1 DEF Row, Text
    <3>3. groupRows'[g] = row /\ \A h \in Groups : h # g => groupRows'[h] = groupRows[h]
      BY <1>2, <2>4, <3>1 DEF GroupRowsTyped
    <3>4. GroupRowsTyped'
      BY <1>2, <2>4, <3>1, <3>2 DEF GroupRowsTyped
    <3>5. /\ GroupRowsHeld => GroupRowsHeld'
          /\ Vacant
          /\ hidden.groupId \in Groups /\ groupRows[hidden.groupId] = None => groupRows'[hidden.groupId] = None
      BY <2>4, <3>2, <3>3 DEF GroupRowsHeld, Vacant
    <3>6. QED
      BY <1>3, <2>2, <2>4, <3>4, <3>5
  <2>5. QED
    BY <2>1, <2>3, <2>4 DEF TableFull
<1>8. CASE StoreGroup
  <2>1. PICK i \in DOMAIN calls :
            /\ calls[i].fn = "updateGroup" /\ Executed(i, "done") /\ UNCHANGED <<group, hidden>>
            /\ groupRows' = [groupRows EXCEPT ![calls[i].key] = IF @ = None THEN None ELSE calls[i].data]
    BY <1>8 DEF StoreGroup, sensorVars
  <2>2. calls[i].data \in Text
    BY <1>2, <2>1 DEF GroupCallTyped
  <2>3. PICK row : row = IF groupRows[calls[i].key] = None THEN None ELSE calls[i].data
    OBVIOUS
  <2>4. groupRows' = [groupRows EXCEPT ![calls[i].key] = row] /\ row \in Text \cup {None}
    BY <2>1, <2>2, <2>3
  <2>5. /\ GroupRowsTyped' /\ \A h \in Groups : h # calls[i].key => groupRows'[h] = groupRows[h]
        /\ calls[i].key \in Groups => groupRows'[calls[i].key] = row
    BY <1>2, <2>4 DEF GroupRowsTyped
  <2>6. \A h \in Groups : groupRows[h] = None => groupRows'[h] = None
    BY <2>3, <2>5
  <2>7. GroupRowsHeld /\ GroupCall(calls[i]) => GroupRowsHeld'
    BY <2>1, <2>3, <2>5 DEF GroupRowsHeld, GroupCall, Fits
  <2>8. Vacant
    BY <2>6 DEF Vacant
  <2>9. QED
    BY <1>3, <2>1, <2>5, <2>6, <2>7, <2>8
<1>9. CASE RemoveGroup
  <2>1. PICK i \in DOMAIN calls :
            /\ calls[i].fn = "deleteGroup" /\ UNCHANGED <<group, hidden>>
            /\ \/ Executed(i, "done") /\ groupRows' = [groupRows EXCEPT ![calls[i].key] = None]
               \/ Reply(i, Denied) /\ UNCHANGED groupRows
    BY <1>9 DEF RemoveGroup
  <2>2. CASE Reply(i, Denied) /\ UNCHANGED groupRows
    BY <1>3, <1>4, <2>1, <2>2
  <2>3. CASE Executed(i, "done") /\ groupRows' = [groupRows EXCEPT ![calls[i].key] = None]
    <3>1. /\ GroupRowsTyped' /\ \A h \in Groups : h # calls[i].key => groupRows'[h] = groupRows[h]
          /\ calls[i].key \in Groups => groupRows'[calls[i].key] = None
      BY <1>2, <2>3 DEF GroupRowsTyped
    <3>2. \A h \in Groups : groupRows'[h] = groupRows[h] \/ groupRows'[h] = None
      BY <3>1
    <3>3. Vacant /\ (GroupRowsHeld => GroupRowsHeld')
      BY <3>2 DEF Vacant, GroupRowsHeld
    <3>4. hidden.groupId \in Groups /\ groupRows[hidden.groupId] = None => groupRows'[hidden.groupId] = None
      BY <3>2
    <3>5. calls[i].fn # "getGroup" /\ UNCHANGED <<group, hidden>>
      BY <2>1
    <3>6. QED
      BY <1>3, <2>3, <3>1, <3>3, <3>4, <3>5
  <2>4. QED
    BY <2>1, <2>2, <2>3
<1>10. QED
  BY <1>5, <1>6, <1>7, <1>8, <1>9

\* Nor a call that is heard, for the calls before it are not about the turns, or it comes too early.
LEMMA TurnsHeard ==
    ASSUME IsCalls(calls), failures \in Nat, TurnsHeld, hidden'.groupId = hidden.groupId, InTurn',
           NEW i \in DOMAIN calls, NEW new, IsCalls(new), Hear(i, new), \A k \in DOMAIN new : new[k].fn \notin TurnFns
    PROVE  TurnsHeld'
<1>1. PICK F : F = {calls[i].fn} \cup {new[k].fn : k \in DOMAIN new}
  OBVIOUS
<1>2. Making(new, F) /\ calls[i].fn \in F
  BY <1>1 DEF Making
<1>3. /\ page' = page /\ failures' = failures /\ hasty' = hasty
      /\ overtaken' = overtaken \cup {calls[j].fn : j \in 1..(i - 1)}
      /\ Len(calls) \in Nat /\ Len(calls) - 1 \in Nat /\ DOMAIN calls = 1..Len(calls)
      /\ Len(new) \in Nat /\ DOMAIN new = 1..Len(new)
      /\ DOMAIN calls' = 1..(Len(calls) - 1 + Len(new))
      /\ \A j \in 1..(Len(calls) - 1) : calls'[j] = calls[IF j < i THEN j ELSE j + 1]
      /\ \A j \in 1..Len(new) : calls'[Len(calls) - 1 + j] = new[j]
  BY <1>2, Hearing
<1>4. \A j \in 1..(i - 1) : calls[j].fn \notin TurnFns
  BY <1>3 DEF InTurn, Undisturbed
<1>5. ASSUME NEW j \in DOMAIN calls', calls'[j].fn \in TurnFns
      PROVE  Superseded(j)' \/ calls'[j].key = hidden'.groupId
  <2>1. j =< Len(calls) - 1
    <3>1. SUFFICES ASSUME j > Len(calls) - 1
                   PROVE  FALSE
      BY <1>3
    <3>2. PICK k : k = j - (Len(calls) - 1)
      OBVIOUS
    <3>3. k \in DOMAIN new /\ Len(calls) - 1 + k = j
      BY <1>3, <3>1, <3>2
    <3>4. calls'[j] = new[k]
      BY <1>3, <3>3
    <3>5. QED
      BY <1>5, <3>3, <3>4
  <2>2. PICK o : o = IF j < i THEN j ELSE j + 1
    OBVIOUS
  <2>3. o \in DOMAIN calls /\ calls'[j] = calls[o]
    <3>1. j \in 1..(Len(calls) - 1)
      BY <1>3, <2>1
    <3>2. calls'[j] = calls[o]
      BY <1>3, <2>2, <3>1
    <3>3. o \in 1..Len(calls)
      BY <1>3, <2>2, <3>1
    <3>4. QED
      BY <1>3, <3>2, <3>3
  <2>4. CASE Superseded(o)
    <3>1. PICK k \in DOMAIN calls : k > o /\ calls[k].fn = "getGroup"
      BY <2>4 DEF Superseded
    <3>2. ~(o < i)
      BY <1>3, <1>4, <1>5, <2>3
    <3>3. PICK m : m = k - 1
      OBVIOUS
    <3>4. m \in 1..(Len(calls) - 1) /\ m > j /\ ~(m < i) /\ m + 1 = k
      BY <1>3, <2>1, <2>2, <3>1, <3>2, <3>3
    <3>5. m \in DOMAIN calls' /\ calls'[m].fn = "getGroup"
      BY <1>3, <3>1, <3>4
    <3>6. QED
      BY <3>4, <3>5 DEF Superseded
  <2>5. CASE calls[o].key = hidden.groupId
    BY <2>3, <2>5
  <2>6. QED
    BY <1>5, <2>3, <2>4, <2>5 DEF TurnsHeld
<1>6. QED
  BY <1>5 DEF TurnsHeld

\* A call that is heard leaves the rows; if it is about what the form is of, the form is then of that.
LEMMA GroupHearing ==
    ASSUME Typed, GroupsTyped, GroupsHeld, NEW i \in DOMAIN calls, NEW new, IsCalls(new), Hear(i, new),
           groupRows' = groupRows, hidden' = hidden, GroupPanelTyped',
           \A c : Comes(c, new) => (\E k \in DOMAIN calls : c = calls[k]) \/ c.fn = "getGroups",
           \A k \in DOMAIN new : new[k].fn \notin TurnFns,
           \/ group'.form.of = group.form.of /\ calls[i].fn # "getGroup"
           \/ /\ calls[i].fn \in TurnFns
              /\ GroupCall(calls[i]) /\ calls[i].key = hidden.groupId => Fits(group'.form, hidden.groupId)
    PROVE  GroupsTyped' /\ GroupsHeld'
<1>1. IsCalls(calls) /\ failures \in Nat
  BY DEF Typed
<1>2. /\ \A j \in DOMAIN calls' : Comes(calls'[j], new)
      /\ \A j \in DOMAIN calls : j # i => \E k \in DOMAIN calls' : calls'[k] = calls[j]
      /\ page' = page /\ failures' = failures /\ hasty' = hasty /\ overtaken \subseteq overtaken'
  BY <1>1, AfterHearing
<1>3. Grows
  BY <1>2 DEF Grows
<1>4. GroupRowsTyped'
  BY GroupParts DEF GroupRowsTyped
<1>5. ASSUME NEW j \in DOMAIN calls'
      PROVE  (\E k \in DOMAIN calls : calls'[j] = calls[k]) \/ (GroupCallTyped(calls[j])' /\ GroupCall(calls[j])')
  <2>1. CASE calls'[j].fn = "getGroups"
    BY <2>1 DEF GroupCallTyped, GroupCall
  <2>2. QED
    BY <1>2, <2>1
<1>6. ASSUME GroupsCalm, InTurn'
      PROVE  GroupRowsHeld' /\ GroupFormHeld' /\ TurnsHeld' /\ Vacant
  <2>1. GroupRowsHeld /\ GroupFormHeld /\ TurnsHeld /\ GroupCall(calls[i])
    BY <1>6 DEF GroupsCalm
  <2>2. GroupRowsHeld' /\ Vacant
    BY <2>1 DEF GroupRowsHeld, Vacant
  <2>3. TurnsHeld'
    BY <1>1, <1>6, <2>1, TurnsHeard
  <2>4. ASSUME NEW k \in DOMAIN calls, k # i, calls[k].fn = "getGroup"
        PROVE  GroupFormHeld'
    BY <1>2, <2>4, CalledNext DEF GroupFormHeld
  <2>5. Fits(group'.form, hidden.groupId) => GroupFormHeld'
    BY DEF GroupFormHeld, Fits
  <2>6. ASSUME group'.form.of = group.form.of, calls[i].fn # "getGroup"
        PROVE  GroupFormHeld'
    <3>1. CASE "getGroup" \in FunctionsOf(calls)
      BY <2>4, <2>6, <3>1, CalledNow
    <3>2. CASE Fits(group.form, hidden.groupId)
      BY <2>5, <2>6, <3>2 DEF Fits
    <3>3. CASE page # "groups"
      BY <1>2, <3>3 DEF GroupFormHeld
    <3>4. QED
      BY <2>1, <3>1, <3>2, <3>3 DEF GroupFormHeld
  <2>7. ASSUME calls[i].fn \in TurnFns,
               GroupCall(calls[i]) /\ calls[i].key = hidden.groupId => Fits(group'.form, hidden.groupId)
        PROVE  GroupFormHeld'
    <3>1. CASE Superseded(i)
      <4>1. PICK k \in DOMAIN calls : k > i /\ calls[k].fn = "getGroup"
        BY <3>1 DEF Superseded
      <4>2. DOMAIN calls = 1..Len(calls) /\ Len(calls) \in Nat
        BY <1>1, CallsAreSequence
      <4>3. k # i
        BY <4>1, <4>2
      <4>4. QED
        BY <2>4, <4>1, <4>3
    <3>2. CASE calls[i].key = hidden.groupId
      BY <2>1, <2>5, <2>7, <3>2
    <3>3. QED
      BY <2>1, <2>7, <3>1, <3>2 DEF TurnsHeld
  <2>8. QED
    BY <2>2, <2>3, <2>6, <2>7
<1>7. QED
  BY <1>3, <1>4, <1>5, <1>6, GroupsMove

\* The list and the form are filled anew; an edit is over.
LEMMA GroupsHear ==
    ASSUME Typed, GroupsTyped, GroupsHeld, GroupsHeard \/ GroupHeard \/ GroupAdded \/ GroupUpdated \/ GroupDeleted
    PROVE  GroupsTyped' /\ GroupsHeld'
<1>1. GroupPanelTyped /\ \A i \in DOMAIN calls : GroupCallTyped(calls[i])
  BY GroupParts
<1>2. ASSUME NEW new, new = <<>> \/ new = <<Call("getGroups", None, None)>>
      PROVE  /\ IsCalls(new)
             /\ \A c : Comes(c, new) => (\E k \in DOMAIN calls : c = calls[k]) \/ c.fn = "getGroups"
             /\ \A k \in DOMAIN new : new[k].fn \notin TurnFns
  <2>1. /\ IsCalls(new)
        /\ \A c : Comes(c, new) => (\E k \in DOMAIN calls : c = calls[k]) \/ c.fn = "getGroups"
    BY <1>2, NoneMade, OneMade
  <2>2. PICK F : F = {"getGroups"}
    OBVIOUS
  <2>3. Making(new, F)
    BY <1>2, <2>2, MakingNone, MakingOne
  <2>4. QED
    BY <2>1, <2>2, <2>3 DEF Making, TurnFns
<1>3. ASSUME NEW i \in DOMAIN calls, NEW new, new = <<>> \/ new = <<Call("getGroups", None, None)>>, Heard(i, new),
             groupRows' = groupRows, hidden' = hidden, GroupPanelTyped',
             \/ group'.form.of = group.form.of /\ calls[i].fn # "getGroup"
             \/ /\ calls[i].fn \in TurnFns
                /\ GroupCall(calls[i]) /\ calls[i].key = hidden.groupId => Fits(group'.form, hidden.groupId)
      PROVE  GroupsTyped' /\ GroupsHeld'
  <2>1. Hear(i, new)
    BY <1>3, Listening
  <2>2. /\ IsCalls(new)
        /\ \A c : Comes(c, new) => (\E k \in DOMAIN calls : c = calls[k]) \/ c.fn = "getGroups"
        /\ \A k \in DOMAIN new : new[k].fn \notin TurnFns
    BY <1>2, <1>3
  <2>3. QED
    BY <1>3, <2>1, <2>2, GroupHearing
<1>4. CASE GroupsHeard
  <2>1. PICK i \in DOMAIN calls :
            /\ calls[i].fn = "getGroups" /\ Heard(i, <<>>) /\ groupRows' = groupRows /\ hidden' = hidden
            /\ group' = IF calls[i].answer = {} THEN group
                        ELSE [group EXCEPT !.options = calls[i].answer, !.chosen = Min(calls[i].answer)]
    BY <1>4 DEF GroupsHeard, sensorVars
  <2>2. DOMAIN group' = DOMAIN group /\ group'.form = group.form
    BY <1>1, <2>1 DEF GroupPanelTyped
  <2>3. GroupPanelTyped' /\ group'.form.of = group.form.of
    BY <1>1, <2>2 DEF GroupPanelTyped
  <2>4. QED
    BY <1>3, <2>1, <2>3
<1>5. CASE GroupHeard
  <2>1. PICK i \in DOMAIN calls :
            /\ calls[i].fn = "getGroup" /\ Heard(i, <<>>) /\ groupRows' = groupRows /\ hidden' = hidden
            /\ group' = IF calls[i].answer = Null THEN group
                        ELSE [group EXCEPT !.form = calls[i].answer, !.buttons = "view"]
    BY <1>5 DEF GroupHeard, sensorVars
  <2>2. calls[i].answer \notin {None, Failed, Denied} /\ calls[i].fn \in TurnFns
    BY <2>1 DEF Heard, TurnFns
  <2>3. calls[i].answer = Null \/ calls[i].answer \in Text
    BY <1>1, <2>1, <2>2 DEF GroupCallTyped
  <2>4. CASE calls[i].answer = Null
    <3>1. group' = group /\ GroupPanelTyped'
      BY <1>1, <2>1, <2>4 DEF GroupPanelTyped
    <3>2. GroupCall(calls[i]) /\ calls[i].key = hidden.groupId => Fits(group'.form, hidden.groupId)
      BY <2>1, <2>4 DEF GroupCall, Fits
    <3>3. QED
      BY <1>3, <2>1, <2>2, <3>1, <3>2
  <2>5. CASE calls[i].answer # Null
    <3>1. group' = [group EXCEPT !.form = calls[i].answer, !.buttons = "view"]
      BY <2>1, <2>5
    <3>2. DOMAIN group' = DOMAIN group /\ group'.form = calls[i].answer
      BY <1>1, <3>1 DEF GroupPanelTyped
    <3>3. GroupPanelTyped'
      BY <1>1, <2>3, <2>5, <3>2 DEF GroupPanelTyped
    <3>4. GroupCall(calls[i]) /\ calls[i].key = hidden.groupId => Fits(group'.form, hidden.groupId)
      BY <2>1, <2>2, <2>5, <3>2 DEF GroupCall
    <3>5. QED
      BY <1>3, <2>1, <2>2, <3>3, <3>4
  <2>6. QED
    BY <2>4, <2>5
<1>6. CASE GroupAdded
  <2>1. PICK i \in DOMAIN calls :
            /\ calls[i].fn = "addGroup" /\ Heard(i, <<Call("getGroups", None, None)>>)
            /\ groupRows' = groupRows /\ hidden' = hidden /\ group' = group
    BY <1>6 DEF GroupAdded, GetGroups, groupVars, sensorVars
  <2>2. GroupPanelTyped' /\ group'.form.of = group.form.of
    BY <1>1, <2>1 DEF GroupPanelTyped
  <2>3. QED
    BY <1>3, <2>1, <2>2
<1>7. CASE GroupUpdated
  <2>1. PICK i \in DOMAIN calls :
            /\ calls[i].fn = "updateGroup" /\ Heard(i, <<Call("getGroups", None, None)>>)
            /\ groupRows' = groupRows /\ hidden' = hidden /\ group' = [group EXCEPT !.enabled = FALSE, !.buttons = "view"]
    BY <1>7 DEF GroupUpdated, GetGroups, Closed
  <2>2. DOMAIN group' = DOMAIN group /\ group'.form = group.form
    BY <1>1, <2>1 DEF GroupPanelTyped
  <2>3. GroupPanelTyped' /\ group'.form.of = group.form.of
    BY <1>1, <2>2 DEF GroupPanelTyped
  <2>4. QED
    BY <1>3, <2>1, <2>3
<1>8. CASE GroupDeleted
  <2>1. PICK i \in DOMAIN calls :
            /\ calls[i].fn = "deleteGroup" /\ Heard(i, <<Call("getGroups", None, None)>>)
            /\ groupRows' = groupRows /\ hidden' = hidden /\ group' = [group EXCEPT !.form = Blank]
    BY <1>8 DEF GroupDeleted, GetGroups
  <2>2. calls[i].answer \notin {None, Failed, Denied} /\ calls[i].fn \in TurnFns
    BY <2>1 DEF Heard, TurnFns
  <2>3. Blank \in Text
    BY DEF Blank, Text
  <2>4. DOMAIN group' = DOMAIN group /\ group'.form = Blank
    BY <1>1, <2>1 DEF GroupPanelTyped
  <2>5. GroupPanelTyped'
    BY <1>1, <2>3, <2>4 DEF GroupPanelTyped
  <2>6. GroupCall(calls[i]) /\ calls[i].key = hidden.groupId => Fits(group'.form, hidden.groupId)
    BY <2>1, <2>2 DEF GroupCall, Fits
  <2>7. QED
    BY <1>3, <2>1, <2>2, <2>5, <2>6
<1>9. QED
  BY <1>4, <1>5, <1>6, <1>7, <1>8

\* No step spoils it.
LEMMA GroupsNext ==
    ASSUME Typed, GroupsTyped, GroupsHeld, [Next]_vars
    PROVE  GroupsTyped' /\ GroupsHeld'
<1>1. IsCalls(calls) /\ IsCalls(calls)'
  BY TypedNext DEF Typed
<1>2. ASSUME NEW F, F \cap GroupFns = {}, Only(F), UNCHANGED <<groupRows, group>>, hidden'.groupId = hidden.groupId
      PROVE  GroupsTyped' /\ GroupsHeld'
  BY <1>1, <1>2, GroupsLeft
<1> USE DEF GroupFns
<1>3. CASE SensorStep /\ OfSensors
  BY <1>2, <1>3, SensorSteps DEF Keeps, OfSensors, groupVars, SensorFns
<1>4. CASE GroupStep
  BY <1>4, GroupsClicks, GroupsAnswers, GroupsHear DEF GroupStep
<1>5. CASE LocationStep /\ OfLocations
  BY <1>2, <1>5, LocationSteps DEF Keeps, OfLocations, groupVars, LocationFns
<1>6. CASE UserPanelStep /\ OfUsers
  BY <1>2, <1>6, UserSteps DEF Keeps, OfUsers, groupVars, sensorVars, UserFns
<1>7. CASE LoginStep /\ OfLogin
  BY <1>2, <1>7, LoginSteps DEF Keeps, OfLogin, groupVars, sensorVars, LoginFns
<1>8. CASE ConfigStep /\ OfConfig
  BY <1>2, <1>8, ConfigSteps DEF Keeps, OfConfig, groupVars, sensorVars, ConfigFns
<1>9. CASE SearchStep /\ OfSearch
  BY <1>2, <1>9, SearchSteps DEF Keeps, OfSearch, groupVars, sensorVars, SearchFns
<1>10. CASE GraphStep /\ OfGraphs
  <2>1. Only({}) /\ UNCHANGED <<groupRows, group>> /\ hidden' = hidden
    BY <1>10, GraphSteps DEF Keeps, OfGraphs, groupVars, sensorVars
  <2>2. QED
    BY <1>2, <2>1
<1>11. CASE CallFails \/ CallRefused \/ PageRedirected
  <2>1. UNCHANGED <<groupRows, group>> /\ hidden' = hidden /\ failures' \in Nat /\ Grows
    BY <1>11, AnyCall DEF panelVars, groupVars, sensorVars
  <2>2. GroupRowsTyped /\ GroupPanelTyped /\ \A i \in DOMAIN calls : GroupCallTyped(calls[i])
    BY GroupParts
  <2>3. GroupRowsTyped' /\ GroupPanelTyped'
    BY <2>1, <2>2 DEF GroupRowsTyped, GroupPanelTyped
  <2>4. CASE /\ failures' # 0 /\ DOMAIN calls' = DOMAIN calls
             /\ \A j \in DOMAIN calls :
                    \/ calls'[j] = calls[j]
                    \/ \E bad \in {Failed, Denied} :
                        calls'[j] = [fn |-> calls[j].fn, key |-> calls[j].key, data |-> calls[j].data, answer |-> bad]
    <3>1. ASSUME NEW j \in DOMAIN calls
          PROVE  /\ calls'[j].fn = calls[j].fn /\ calls'[j].key = calls[j].key /\ calls'[j].data = calls[j].data
                 /\ calls'[j].answer \in {calls[j].answer, Failed, Denied}
      BY <2>4
    <3>2. ASSUME NEW j \in DOMAIN calls
          PROVE  GroupCallTyped(calls[j])'
      BY <2>2, <3>1 DEF GroupCallTyped
    <3>3. ~InTurn'
      BY <2>4 DEF InTurn, Undisturbed
    <3>4. QED
      BY <2>3, <2>4, <3>2, <3>3, GroupParts
  <2>5. CASE page' = "left" /\ calls' = <<>>
    <3>1. Only({})
      BY <2>1, <2>5 DEF Only
    <3>2. QED
      BY <1>2, <2>1, <3>1
  <2>6. ASSUME NEW i \in DOMAIN calls, Refused(i)
        PROVE  GroupsTyped' /\ GroupsHeld'
    <3>1. PICK new : new = <<>>
      OBVIOUS
    <3>2. Hear(i, new) /\ (calls[i].fn = "getGroup" => calls[i].answer = Failed)
      BY <2>6, <3>1, Listening DEF Refused, WithoutTable
    <3>3. /\ IsCalls(new)
          /\ \A c : Comes(c, new) => (\E k \in DOMAIN calls : c = calls[k]) \/ c.fn = "getGroups"
          /\ \A k \in DOMAIN new : new[k].fn \notin TurnFns
      BY <3>1, NoneMade
    <3>4. calls[i].fn = "getGroup" => ~GroupCall(calls[i]) /\ calls[i].fn \in TurnFns
      BY <3>2, AnswersAssumption, GroupAssumption DEF GroupCall, TurnFns
    <3>5. groupRows' = groupRows /\ hidden' = hidden /\ GroupPanelTyped' /\ group'.form.of = group.form.of
      BY <2>1, <2>3
    <3>6. QED
      BY <3>2, <3>3, <3>4, <3>5, GroupHearing
  <2>7. QED
    BY <1>11, <2>4, <2>5, <2>6, AnyCall
<1>12. CASE Timer \/ UNCHANGED vars
  <2>1. UNCHANGED <<page, calls, failures, overtaken, hasty>> /\ UNCHANGED <<groupRows, group, hidden>>
    BY <1>12 DEF Timer, HideAlert, vars, web, panelVars, groupVars, sensorVars
  <2>2. Only({})
    BY <2>1, Idling DEF Keeps
  <2>3. QED
    BY <1>2, <2>1, <2>2
<1>13. QED
  BY <1>3, <1>4, <1>5, <1>6, <1>7, <1>8, <1>9, <1>10, <1>11, <1>12, EachStep

-----------------------------------------------------------------------------
(* The rows of all forms. *)

RowsHeld ==
    /\ Typed /\ ConfigHeld /\ GroupsTyped /\ GroupsHeld /\ UsersTyped /\ UsersHeld /\ PlacesTyped /\ PlacesHeld

\* Whatever the user does on the pages and in whatever order the servlet answers and the answers are heard: as
\* long as no call of the functions that fill a form fails, is overtaken, or is under way when an edit ends,
\* what is saved goes to the row that the form was filled from.
THEOREM SavedToOwnRowAlways == Spec => []SavedToOwnRow
<1>1. Init => RowsHeld
  BY TypedAtFirst, ConfigAtFirst, GroupsAtFirst, UsersAtFirst, PlacesAtFirst DEF RowsHeld
<1>2. RowsHeld /\ [Next]_vars => RowsHeld'
  BY TypedNext, ConfigNext, GroupsNext, UsersNext, PlacesNext DEF RowsHeld
<1>3. RowsHeld => SavedToOwnRow
  <2>1. SUFFICES ASSUME RowsHeld PROVE SavedToOwnRow
    OBVIOUS
  <2>2. Undisturbed({"getGroup", "deleteGroup"}) => \A g \in Groups : groupRows[g] # None => groupRows[g].of = g
    BY <2>1, Zenon DEF RowsHeld, GroupsHeld
  <2>3. Undisturbed({"getUser", "editUser"}) => \A u \in Users : userRows[u] # None => IsOf(userRows[u], u)
    BY <2>1, Zenon DEF RowsHeld, UsersHeld
  <2>4. Undisturbed({"editLocation"}) => \A l \in Places : placeRows[l] # None => placeRows[l].name \in {l, None}
    <3>1. Undisturbed({"editLocation"}) => \A l \in Places : placeRows[l] # None => NameFits(placeRows[l].name, l)
      BY <2>1, Zenon DEF RowsHeld, PlacesHeld
    <3>2. QED
      BY <3>1 DEF NameFits
  <2>5. Undisturbed({"getConfig"}) => configRow # Null
    <3>1. Undisturbed({"getConfig"}) => configRow \in Zones
      BY <2>1, Zenon DEF RowsHeld, ConfigHeld
    <3>2. QED
      BY <3>1, ZonesAssumption
  <2>6. QED
    BY <2>2, <2>3, <2>4, <2>5 DEF SavedToOwnRow, IsOf
<1>4. QED
  BY <1>1, <1>2, <1>3, PTL DEF Spec
====
