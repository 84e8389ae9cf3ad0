SPECIFICATION Spec
CONSTANTS
    None = None
    Null = Null
    Failed = Failed
    Denied = Denied
    New = New
    Learn = Learn
    Pages = {"sensors", "newSensor", "groups", "locations", "users", "login", "config", "search", "graphs"}
    MaxClicks <- MCMaxClicks
    MaxCalls <- MCMaxCalls
    MaxFailures <- MCMaxFailures
    Groups = {1, 2}
    Existing = {{1}, {1, 2}}
    Sensors = {1, 2, 3}
    EepTree <- MCEepTree
    Discovered <- MCDiscovered
    Searches <- MCSearches
    SensorRows <- MCSensorRows
    Places = {1, 2, 3}
    PlaceTypes = {1, 2}
    PlaceRows <- MCPlaceRows
    Users = {1, 2, 3}
    Names = {"a", "b", "c"}
    UserRows <- MCUserRows
    ShortHash = {2}
    Accounts = {"a", "b"}
    Zones = {"z1", "z2"}
    Terms = {"x", "y"}
    SearchedSensors <- MCSearchedSensors
    SearchedGroups <- MCSearchedGroups
    Catalogues <- MCCatalogues
    Selections <- MCSelections
    Dates <- MCDates
    Today <- MCToday
CHECK_DEADLOCK FALSE
INVARIANTS
    SavedToOwnRow
    UntouchedEepKept
    SessionAgrees
    ShownIsCurrent
    GraphsComplete
    PlottedAtItsDate
