\* A key of the worker's own and one that other threads remove, and two values so that
\* an entry can be overridden.  The clock only advances.
SPECIFICATION Spec
CONSTANTS
    Keys = {k1, k2}
    Values = {v1, v2}
    NoKey = NoKey
    NoEntry = NoEntry
    Timeout = 2
    ClockSteps = {1}
    SharedKeys = {k2}
    MaxTime = 6
    MaxQueue = 3
INVARIANTS
    NeverThrows
PROPERTIES
    ImplementsExpiringMap
