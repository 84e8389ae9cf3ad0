SPECIFICATION Spec
CONSTANTS
    p1 = p1
    p2 = p2
    Peers = {p1, p2}
    Datagrams <- Requests
    MaxHandlers = 2
    Clients = {p1}
    Refused = {}
    Ids = {1, 2, 3, 4}
    Unconfirmed = {3, 4}
    NoPeer = NoPeer
    NoDatagram = NoDatagram
    Garbled = Garbled
INVARIANTS
    ExecutedOnce
CHECK_DEADLOCK FALSE
