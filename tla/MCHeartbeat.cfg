\* pong_wait 60 s, ping_period 54 s, write_wait 10 s in units of 2 s;
\* writes to a live peer take up to 2 s, round trips up to 2 s, writeChan
\* of 2.  A closed connection has nothing left to do: no deadlock check.
CONSTANTS
    PongWait = 30
    PingPeriod = 27
    WriteWait = 5
    LinkDelay = 1
    RTT = 1
    QCap = 2
SPECIFICATION Spec
PROPERTY DeadPeerDetected
CHECK_DEADLOCK FALSE
