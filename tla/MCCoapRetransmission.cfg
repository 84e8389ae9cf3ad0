\* Two CON messages, one with an ID its remote also uses, and a NON message.  Timeouts
\* run from 1 to 4 ticks; the worker is up to one tick late.
SPECIFICATION Spec
CONSTANTS
    Con = {c1, c2}
    Non = {n1}
    CollidingIds = {c2}
    None = None
    MAX_RETRANSMIT = 3
    ResponseTimeouts = {1}
    POLLING_INTERVALL = 5
    ACK_RST_RETRANS_TIMEOUT = 120
    MaxDelay = 1
INVARIANTS
    OneTimer
    UnconfirmedKept
    NoOversleep
PROPERTIES
    ConfirmedStaysQuiet
    EveryConResolved
