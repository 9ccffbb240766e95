\* Safety: three connections compete for one slot and two sessions.
SPECIFICATION Spec
CONSTANTS
    Conn = {c1, c2, c3}
    Port = {p1, p2}
    Slots = 1
    MaxSessions = 2
    Mode = "iran"
    Transport = "kcp"
SYMMETRY Symmetry
CHECK_DEADLOCK FALSE
INVARIANTS SlotsAccounted StopReachesEveryConn NothingLeftOpen
PROPERTY ImplementsLimit
