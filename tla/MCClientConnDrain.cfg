\* Same instance as MCClientConn.cfg, checking that a Close with no socket
\* error leaves no accepted message in writeChan (spec.md 4.4).
CONSTANTS
    p1 = p1
    p2 = p2
    Producers <- MCProducers
    MsgsPerProducer = 2
    WriteChanCap = 2
    MaxPings = 1
SPECIFICATION Spec
INVARIANT DrainedOnClose
CHECK_DEADLOCK FALSE
