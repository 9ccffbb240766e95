\* Two workers and so two dials, a cap of one connection, one network failure.
SPECIFICATION FairSpec
CONSTANTS
    Worker = {w1, w2}
    Link = {l1, l2}
    NoLink = NoLink
    MaxLinks = 1
    MaxStreams = 1
    Psk = {ours, other}
    IranPsk = ours
    MaxFaults = 1
CHECK_DEADLOCK FALSE
INVARIANTS OneSharedLink StopEndsTheLink ServedLinksAreListed
PROPERTIES StopDrains DeadLinksLeave
