\* Two sockets and two tickets used again and again, buffers that overflow,
\* and a message after the overflow.
SPECIFICATION FairSpec
CONSTANTS
    Channel = {s1, s2}
    Ticket = {t1, t2}
    Ring = 2
    Slack = 1
    MaxLogs = 5
    TTL = 0
INVARIANTS OneAttempt StreamsComplete
PROPERTIES LeavingCleansUp DeadStreamsLeave
