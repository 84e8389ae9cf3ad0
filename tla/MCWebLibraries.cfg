\* jQuery, jQuery UI, Bootstrap and the time picker under the pages, and the KNX configuration page.
SPECIFICATION Spec
CONSTANTS
    Sources = {a, b}
    Derived = {d}
    UserHandlers = {h}
    MaxCalls = 3
    None = None
    Requests = {r1, r2}
    NotSent = NotSent
    Elements = {1, 2}
    MaxItems <- MCMaxItems
    MaxFxCalls = 2
    Depth = 2
    Inline = {2}
    EventFns = {f}
    NotGiven = NotGiven
    MaxBindings = 2
    MaxEvents = 2
    Nodes = {1, 2}
    Keys = {"a"}
    Attributed = {1}
    Types = {"keyup", "click"}
    Special = {"click"}
    Dates = {1, 2, 3}
    Today = 2
    Units = 2
    LastUnit = 1
    Limits <- MCLimits
    Given <- MCGiven
    MaxPicks = 5
    Modals = {1, 2}
    MaxModalCalls = 4
    Groups = {1, 2, 3}
    MaxClicks = 4
    IPs = {2, 3}
    Configured = 2
    MaxLogins = 2
    MaxActions = 2
INVARIANTS
    NoneForgotten
    RequestsEndOnce
    QueueMovesOn
    EventsReachOnce
    DataKeptApart
    FieldAsPicked
    WidgetsSettle
    KnxPageAgrees
PROPERTY ImplementsPromises
CHECK_DEADLOCK FALSE
