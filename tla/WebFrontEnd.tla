----------------------------- MODULE WebFrontEnd -----------------------------
(***************************************************************************)
(* The pages of the EnOcean web front end, composed: in a behaviour the    *)
(* user works on one of them, while the servlet answers the calls and the  *)
(* browser hands the answers over.                                         *)
(***************************************************************************)
EXTENDS GroupPanel, LocationPanel, UserPanel, LoginPage, ConfigPanel, SearchPanel, GraphPage

panelVars == <<sensorVars, groupVars, locationVars, userVars, loginVars, configVars, search, graphPage>>
vars == <<web, panelVars>>

\* What $(document).ready calls: the rights of the cookie decide on the table of users.
CallsOfReady ==
    CASE page = "groups" -> <<GetGroups>>
      [] page = "config" -> <<GetConfig>>
      [] page = "users" -> IF userPage.isAdmin THEN <<GetUser, GetUsers>> ELSE <<GetUser>>
      [] OTHER -> <<>>

Init ==
    /\ page \in Pages
    /\ SensorInit /\ GroupInit /\ LocationInit /\ UserInit /\ LoginInit /\ ConfigInit /\ SearchInit /\ GraphInit
    /\ calls = CallsOfReady /\ clicks = 0 /\ failures = 0 /\ overtaken = {} /\ hasty = {}
    \* What a page does not show has one value.
    /\ page \notin {"sensors", "newSensor", "groups", "locations"} => sensorRows = CHOOSE r \in SensorRows : TRUE
    /\ page # "groups" => {g \in Groups : groupRows[g] # None} = CHOOSE s \in Existing : TRUE
    /\ page # "users" => \A v \in UserRows : userRows = CHOOSE r \in UserRows : TRUE
    /\ page # "users" => userPage.cookie = userRows[CHOOSE u \in Rows : TRUE].name
    /\ page # "login" => admins = {}
    /\ page # "config" => configRow = CHOOSE z \in Zones : TRUE
    /\ page # "graphs" => /\ graphPage.catalogue = CHOOSE c \in Catalogues : TRUE
                          /\ graphPage.selection = CHOOSE c \in Selections : TRUE
    /\ page # "locations" => placeRows = CHOOSE r \in PlaceRows : TRUE

-----------------------------------------------------------------------------

\* The call does not reach the servlet, or breaks there.
CallFails == \E i \in DOMAIN calls : AnswerBadly(i) /\ UNCHANGED panelVars

\* The callback for error, which but for the first two only shows an alert, or does nothing.
CallRefused ==
    \E i \in DOMAIN calls :
        /\ calls[i].fn \notin {"login", "getConfig", "updateConfig"}
        /\ Refused(i) /\ UNCHANGED panelVars

PageRedirected == \E i \in DOMAIN calls : Redirected(i) /\ UNCHANGED panelVars

OfSensors == UNCHANGED <<groupVars, locationVars, userVars, loginVars, configVars, search, graphPage>>
OfGroups == UNCHANGED <<locationVars, userVars, loginVars, configVars, search, graphPage>>
OfLocations == UNCHANGED <<groupVars, userVars, loginVars, configVars, search, graphPage>>
OfUsers == UNCHANGED <<sensorVars, groupVars, locationVars, loginVars, configVars, search, graphPage>>
OfLogin == UNCHANGED <<sensorVars, groupVars, locationVars, userVars, configVars, search, graphPage>>
OfConfig == UNCHANGED <<sensorVars, groupVars, locationVars, userVars, loginVars, search, graphPage>>
OfSearch == UNCHANGED <<sensorVars, groupVars, locationVars, userVars, loginVars, configVars, graphPage>>
OfGraphs == UNCHANGED <<sensorVars, groupVars, locationVars, userVars, loginVars, configVars, search>>

UserStep ==
    \/ \E s \in Sensors : (EditSensor(s) \/ CancelSensor(s) \/ UpdateSensor(s) \/ DeleteSensor(s)) /\ OfSensors
    \/ \E p \in Panels : (\E r \in At(panels, p).rorg.options : PickRorg(p, r)) /\ OfSensors
    \/ \E p \in Panels : (\E f \in At(panels, p).function.options : PickFunction(p, f)) /\ OfSensors
    \/ \E p \in Panels : (\E t \in At(panels, p).type.options : PickType(p, t)) /\ OfSensors
    \/ SaveMeasureTypes /\ OfSensors
    \/ \E name \in popups : Dismiss(name) /\ OfSensors
    \/ (ViewSensor \/ DescribeSensor \/ ChooseDiscovered \/ CreateSensor \/ CreateLearnSensor) /\ OfSensors
    \/ \E eep \in hidden.devices : PickDevice(eep) /\ OfSensors
    \/ \E matching \in Searches : SearchSensor(matching) /\ OfSensors
    \/ \E s \in Sensors : AddExistingSensor(s) /\ OfSensors
    \/ \E g \in Groups : SelectGroup(g) /\ OfGroups
    \/ (TypeGroup \/ AddGroup \/ EditGroup \/ UpdateGroup \/ CancelGroup \/ DeleteGroup) /\ OfGroups
    \/ (ManageLocation \/ SaveLocation \/ AddRootLocation \/ CancelLocation \/ SaveForm) /\ OfLocations
    \/ \E l \in Places : (SelectLocation(l) \/ AddLocation(l) \/ EditLocation(l) \/ DeleteLocation(l)) /\ OfLocations
    \/ \E t \in PlaceTypes : ChooseType(t) /\ OfLocations
    \/ \E u \in Users : (EditUser(u) \/ DeleteUser(u)) /\ OfUsers
    \/ \E n \in Names : Rename(n) /\ OfUsers
    \/ (AddUser \/ ChangeStatus \/ SaveUser \/ CloseUser) /\ OfUsers
    \/ (EditProfile \/ CancelProfile \/ UpdateProfile) /\ OfUsers
    \/ \E a \in Accounts \cup {None}, right \in BOOLEAN : TypeAccount(a, right) /\ OfLogin
    \/ (Login \/ Logout) /\ OfLogin
    \/ (EditConfig \/ CancelConfig \/ UpdateConfig \/ \E z \in Zones : TypeZone(z)) /\ OfConfig
    \/ \E term \in Terms : (SearchSensorSelection(term) \/ SearchGroups(term)) /\ OfSearch
    \/ (DisplayGraphs \/ PlotPoint \/ DownloadCsv) /\ OfGraphs

Servlet ==
    \/ (ReadSensors \/ ReadAllSensors \/ StoreSensor \/ InsertSensor \/ LinkSensor \/ UnlinkSensor) /\ OfSensors
    \/ (ReadGroups \/ ReadGroup \/ InsertGroup \/ StoreGroup \/ RemoveGroup) /\ OfGroups
    \/ (ReadPlaces \/ ReadPlace \/ ReadTypes \/ StorePlace \/ RemovePlace) /\ OfLocations
    \/ (ReadUsers \/ ReadUser \/ StoreUser \/ InsertUser \/ DeactivateUser) /\ OfUsers
    \/ (CheckPassword \/ ReadAccount \/ RenewToken) /\ OfLogin
    \/ (ReadConfig \/ StoreConfig) /\ OfConfig
    \/ CallFails

Browser ==
    \/ (SensorsHeard \/ EditRorgsHeard \/ EditFunctionsHeard \/ EditTypesHeard) /\ OfSensors
    \/ (EepRorgsHeard \/ EepFunctionsHeard \/ EepTypesHeard \/ MeasureTypesHeard) /\ OfSensors
    \/ (SensorUpdated \/ SensorDeleted \/ SensorCreated \/ SensorLinked \/ SearchHeard \/ DevicesHeard) /\ OfSensors
    \/ (GroupsHeard \/ GroupHeard \/ GroupAdded \/ GroupUpdated \/ GroupDeleted) /\ OfGroups
    \/ (RootsHeard \/ ChildrenHeard \/ PlaceHeard \/ TypesHeard \/ PlaceSaved) /\ OfLocations
    \/ (UsersHeard \/ ProfileHeard \/ UserHeard \/ UserSaved \/ ProfileSaved) /\ OfUsers
    \/ (PasswordAccepted \/ LoginRefused \/ AccountHeard) /\ OfLogin
    \/ (ConfigHeard \/ ConfigUpdated \/ ConfigRefused) /\ OfConfig
    \/ (SelectionHeard \/ GroupsFound \/ GroupFilled) /\ OfSearch
    \/ CallRefused \/ PageRedirected

Timer == HideAlert /\ UNCHANGED <<sensorVars, groupVars, locationVars, userVars, loginVars, search, graphPage>>

Next == UserStep \/ Servlet \/ Browser \/ Timer

Spec == Init /\ [][Next]_vars

-----------------------------------------------------------------------------
(* Properties. *)

\* No call of these functions failed, was overtaken by a later call, or was under way at the end of an edit.
Undisturbed(fns) == failures = 0 /\ fns \cap (overtaken \cup hasty) = {}

\* What a form was filled with is saved in the row it came from: the text of a group, the personal data
\* of a user, the name of a location (None if it was typed), the configuration.  The forms are filled by
\* callbacks, while the row is chosen by a hidden input or by the buttons.  A password stays the hash it
\* was, but for the hashes of fewer than 40 digits, which are taken for passwords.
SavedToOwnRow ==
    /\ Undisturbed({"getGroup", "deleteGroup"}) =>
            \A g \in Groups : groupRows[g] # None => groupRows[g].of = g
    /\ Undisturbed({"getUser", "editUser"}) =>
            \A u \in Users : userRows[u] # None =>
                userRows[u].of = u /\ (userRows[u].password = "rehashed" => u \in ShortHash)
    /\ Undisturbed({"editLocation"}) =>
            \A l \in Places : placeRows[l] # None => placeRows[l].name \in {l, None}
    /\ Undisturbed({"getConfig"}) => configRow # Null

\* Who leaves the three lists alone saves the EEP that the panel was shown with, or that of the device chosen:
\* though the lists are emptied and loaded anew at every edit, by callbacks that write into whichever panel
\* sensorId names, that of another sensor in edit included.  (The EEP a sensor was shown with is not the one it
\* has, if another was saved since.)  Not so where a choice in another panel has loaded a list of this one; nor
\* where the sensors were loaded anew during an edit, so that its lists came into a panel that was no longer in
\* edit, and the next edit starts from them; nor for a device in learn mode whose EEP has a code of one letter:
\* the browser selects the first option in the place of the one not found.
UntouchedEepKept ==
    \A i \in DOMAIN calls :
        LET data == calls[i].data
        IN  /\ calls[i].fn \in {"updateSensor", "createLearnSensor"} /\ data.valid /\ ~data.touched
            /\ Undisturbed(EepFunctions)
            /\ calls[i].fn = "createLearnSensor" /\ data.meant # None => Wanted(data.meant) = data.meant
            => data.eep = data.meant

\* The three cookies that the other pages read belong together: the user is the one whose token it is,
\* and he is an administrator if the cookie says so.
SessionAgrees ==
    LET cookies == login.cookies
    IN  cookies.token # None /\ ~retyped =>
            cookies.user = cookies.token /\ cookies.admin = (cookies.user \in admins)

\* With no call under way a page shows what the servlet has, as long as no answer was lost or overtaken.
Current(fns) == calls = <<>> /\ page # "left" /\ failures = 0 /\ fns \cap overtaken = {}
Named(u) == \A v \in Rows : userRows[v].name = userRows[u].name => v = u
Shows(u, row) == row.of = userRows[u].of /\ row.name = userRows[u].name /\ row.admin = userRows[u].admin
ShownIsCurrent ==
    /\ Current({"getGroups"}) /\ page = "groups" =>
            LET rows == {g \in Groups : groupRows[g] # None}
            IN  rows # {} => group.options = rows
    /\ Current({"getSensorsFromId", "deleteGroup"}) =>
            LET shown == {s \in Sensors : panels[s] # None}
            IN  /\ page = "sensors" => shown = InGroup(hidden.groupId)
                /\ page = "groups" => shown \subseteq InGroup(hidden.groupId)
    /\ Current({"manageLocation", "getLocationChilds"}) /\ page = "locations" /\ ChildrenOf(None) # {} =>
            /\ \A e \in location.tree : e[2] \in ChildrenOf(e[1])
            /\ location.tree # {} => {None} \X ChildrenOf(None) \subseteq location.tree
    /\ Current({"getUsers", "getUser"}) /\ page = "users" =>
            /\ userPage.isAdmin =>
                    \A u \in Rows \ {userPage.me} : Named(u) =>
                        u \in DOMAIN userPage.table /\ userPage.table[u] = userRows[u]
            /\ userPage.me # None /\ ~userPage.editing /\ userPage.cookie = userRows[userPage.me].name
                    /\ userPage.me \notin DOMAIN userPage.table =>
                    Shows(userPage.me, userPage.profile)
    /\ Current({"getConfig"}) /\ page = "config" /\ ~config.enabled =>
            config.zone = configRow /\ config.dns = configRow
    /\ Current({"searchSensorSelection"}) /\ page = "search" /\ search.term # None =>
            Throws(search.term) \/ search.sensors = SensorsFor(search.term)
    /\ Current({"searchGroups", "getGroupDetails", "getGroupSensors"}) /\ page = "search"
            /\ search.groupTerm # None =>
            search.groups = [g \in GroupsFor(search.groupTerm) |->
                                [details |-> TRUE, sensors |-> SearchedGroups[g].sensors]]

\* Every measure of a selected sensor is drawn once, in the graph of its type and with its unit, unless
\* the first sensor has none, for which the chart is missing at its first turn.  (Of two measures of one
\* type that a sensor has the last is drawn twice.)
OneOfAType(measures) == IsInjective(Project(measures, "type"))
UnitsMatch(measures) == \A m, n \in measures : m.type = n.type <=> m.unit = n.unit
GraphsComplete ==
    LET drawing == graphPage.drawing
        selected == {MeasuresOf(id, graphPage.catalogue) : id \in ToSet(graphPage.selection)}
        measures == UNION {ToSet(ms) : ms \in selected}
        Drawings(m) == {e \in {<<i, k>> : i \in DOMAIN drawing.graphs, k \in 1..Cardinality(measures)} :
                            /\ e[2] \in DOMAIN drawing.graphs[e[1]].series
                            /\ drawing.graphs[e[1]].series[e[2]] = m.id}
    IN  drawing # None /\ (\A ms \in selected : OneOfAType(ms)) =>
            /\ drawing.thrown <=> measures # {} /\ MeasuresOf(Head(graphPage.selection), graphPage.catalogue) = <<>>
            /\ ~drawing.thrown => \A m \in measures :
                    \E e \in Drawings(m) :
                        /\ Drawings(m) = {e} /\ drawing.graphs[e[1]].type = m.type
                        /\ UnitsMatch(measures) => drawing.graphs[e[1]].unit = m.unit

\* A measurement is plotted at its date: the date is put together from its parts in the current date, and
\* only a day that the current month does not have, in this year or in that of the date, goes astray.
PlottedAtItsDate ==
    LET point == graphPage.point
        fits == \A year \in {point.today.year, point.date.year} :
                    point.date.day =< DaysIn(year, point.today.month)
    IN  point # None /\ fits => point.plotted = point.date
=============================================================================
