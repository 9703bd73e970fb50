\* Two producers, two messages each, a channel of capacity 2 (so both the
\* full-channel path and a full channel behind a dead writer are reached),
\* and one ping.  A closed connection is a terminal state, hence no
\* deadlock check.
CONSTANTS
    p1 = p1
    p2 = p2
    Producers <- MCProducers
    MsgsPerProducer = 2
    WriteChanCap = 2
    MaxPings = 1
SPECIFICATION Spec
INVARIANT NoPanic
INVARIANT SingleWriterFifo
PROPERTY CloseCompletes
PROPERTY ImplementsConnAbstract
CHECK_DEADLOCK FALSE
