\* Two configured keys, two writers and three chunks, two callers of Close.
SPECIFICATION FairLinkSpec
CONSTANTS
    Psk = {ours, other}
    Writer = {w1, w2}
    Closer = {k1, k2}
    MaxChunks = 3
CHECK_DEADLOCK FALSE
INVARIANTS KeysAgree NonceUsedOnce ReadErrorIsEarned
PROPERTIES ImplementsStream CloseReturns
