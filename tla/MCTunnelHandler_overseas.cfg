\* The server side, fair: two connections, two ports, one slot; no symmetry.
SPECIFICATION FairSpec
CONSTANTS
    Conn = {c1, c2}
    Port = {p1, p2}
    Slots = 1
    MaxSessions = 2
    Mode = "overseas"
    Transport = "tcp"
CHECK_DEADLOCK FALSE
PROPERTIES StopDrains SlotsComeBack
