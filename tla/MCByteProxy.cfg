\* Side 1 is a client's TCP connection, side 2 the KCP link to the peer.  Two
\* chunks in all, a buffer of one chunk, a timeout of two ticks.
SPECIFICATION FairSpec
CONSTANTS
    HalfClose = {1}
    Timeout = 2
    MaxChunks = 2
    Buffer = 1
CHECK_DEADLOCK FALSE
INVARIANT CleanEndIsComplete
PROPERTIES CutIsEarned SessionEnds
