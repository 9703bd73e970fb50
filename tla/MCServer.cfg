\* main.go lifecycle with two sessions and two requests, checking that the
\* process exits only after sessions are closed and requests drained.
\* Deadlock is not checked: the process really stops once main returns.
CONSTANTS
    Sessions <- MCSessions
    HttpReqs <- MCHttpReqs
SPECIFICATION Spec
INVARIANT ShutdownGraceful
CHECK_DEADLOCK FALSE
