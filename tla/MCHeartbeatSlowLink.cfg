\* The same timing as MCHeartbeat.cfg: a ping alone is answered 2-4 s after
\* the tick, within the 6 s pong_wait leaves, but messages written ahead
\* of it push the pong past the read deadline of a live peer.
CONSTANTS
    PongWait = 30
    PingPeriod = 27
    WriteWait = 5
    LinkDelay = 1
    RTT = 1
    QCap = 2
SPECIFICATION Spec
INVARIANT LivePeerKept
CHECK_DEADLOCK FALSE
