------------------------------ MODULE Heartbeat ------------------------------
(***************************************************************************)
(* Keep-alive of one WebSocket connection (src/unnamed/part_001) in time:  *)
(* writeLoop's ticker sends a ping every pingPeriod, the pong handler and  *)
(* every ReadMessage push the read deadline pongWait ahead, and a read     *)
(* that hits the deadline fails, after which the server's reader closes    *)
(* the connection.  The peer answers pings after a round trip, may send    *)
(* data frames, and may die.                                               *)
(*                                                                         *)
(* Time is discrete; timers are countdowns so the state space stays        *)
(* finite.  An event whose countdown reached 0 happens before time moves   *)
(* on, and so does a select of writeLoop with a ready case (a goroutine   *)
(* runs in microseconds).  Two events due at the same instant happen in    *)
(* either order.  Payloads are not modelled, only how long a write takes.  *)
(***************************************************************************)
EXTENDS Integers

CONSTANTS
    PongWait,     \* pongWait, in time units
    PingPeriod,   \* pingPeriod
    WriteWait,    \* WriteWait (write deadline)
    LinkDelay,    \* longest time a write to a live peer takes
    RTT,          \* longest time from a ping written to its pong read
    QCap          \* writeChan capacity

ASSUME /\ PingPeriod \in Nat \ {0} /\ PongWait \in Nat \ {0}
       /\ LinkDelay <= WriteWait /\ RTT \in Nat /\ QCap \in Nat \ {0}

None == -1

VARIABLES
    readLeft,    \* time until the read deadline
    tickLeft,    \* time until ticker.C fires
    tickReady,   \* ticker.C holds a tick (capacity 1; later ticks drop)
    queued,      \* messages in writeChan
    pushed,      \* a producer queued a message in this time unit
    writing,     \* frame writeLoop is writing: "none", "msg", "ping"
    writeLeft,   \* time until that write returns
    writeFails,  \* that write returns an error (deadline exceeded)
    writerDone,  \* writeLoop has returned (and closed the socket)
    pongLeft,    \* time until the pong to the last ping is read, or None
    peerAlive,   \* the peer still reads, writes and answers pings
    open         \* the connection has not been closed

vars == <<readLeft, tickLeft, tickReady, queued, pushed, writing, writeLeft,
          writeFails, writerDone, pongLeft, peerAlive, open>>

(* NewWebSocketClientConn starts the ticker and writeLoop; the server's    *)
(* reader then calls ReadMessage, which sets the first read deadline.      *)
Init ==
    /\ readLeft = PongWait
    /\ tickLeft = PingPeriod
    /\ tickReady = FALSE
    /\ queued = 0
    /\ pushed = FALSE
    /\ writing = "none"
    /\ writeLeft = 0
    /\ writeFails = FALSE
    /\ writerDone = FALSE
    /\ pongLeft = None
    /\ peerAlive = TRUE
    /\ open = TRUE

-----------------------------------------------------------------------------
(* Events due now; time does not pass while one is pending.                *)
SelectReady == writing = "none" /\ ~writerDone /\ open /\ (queued > 0 \/ tickReady)
Urgent ==
    \/ readLeft = 0
    \/ pongLeft = 0
    \/ writing # "none" /\ writeLeft = 0
    \/ SelectReady
    \/ writerDone /\ open

(* Time advances by one unit: every countdown runs; the ticker re-arms.    *)
Tick ==
    /\ open /\ ~Urgent
    /\ readLeft' = readLeft - 1
    /\ tickLeft' = IF tickLeft = 1 THEN PingPeriod ELSE tickLeft - 1
    /\ tickReady' = (tickReady \/ tickLeft = 1)
    /\ writeLeft' = IF writing # "none" THEN writeLeft - 1 ELSE writeLeft
    /\ pongLeft' = IF pongLeft = None THEN None ELSE pongLeft - 1
    /\ pushed' = FALSE
    /\ UNCHANGED <<queued, writing, writeFails, writerDone, peerAlive, open>>

(* WriteMessage: queue a message if there is room (ClientConn models the   *)
(* full and closed cases).                                                 *)
Push ==
    /\ open /\ ~pushed /\ queued < QCap
    /\ queued' = queued + 1 /\ pushed' = TRUE
    /\ UNCHANGED <<readLeft, tickLeft, tickReady, writing, writeLeft, writeFails,
                   writerDone, pongLeft, peerAlive, open>>

(* How long a write takes and whether it fails: to a live peer it returns  *)
(* within LinkDelay; to a dead one it may still be buffered by the kernel, *)
(* or block until the write deadline and fail.                             *)
WriteOutcomes ==
    {[d |-> d, fail |-> FALSE] : d \in 0..LinkDelay}
    \cup (IF peerAlive THEN {} ELSE {[d |-> WriteWait, fail |-> TRUE]})

(* writeLoop's select takes a ready case: a queued message or a tick       *)
(* (SetWriteDeadline, then WriteMessage of the frame).                     *)
WriteLoopSelect ==
    /\ SelectReady
    /\ \E kind \in {"msg", "ping"}, o \in WriteOutcomes :
         /\ IF kind = "msg" THEN queued > 0 ELSE tickReady
         /\ writing' = kind /\ writeLeft' = o.d /\ writeFails' = o.fail
         /\ queued' = IF kind = "msg" THEN queued - 1 ELSE queued
         /\ tickReady' = (tickReady /\ kind = "msg")
    /\ UNCHANGED <<readLeft, tickLeft, pushed, writerDone, pongLeft, peerAlive, open>>

(* Mutant: the ping case calls SetReadDeadline where SetWriteDeadline is   *)
(* meant, so every ping written pushes the read deadline out.            *)
WriteReturnsPingExtendsRead ==
    /\ writing # "none" /\ writeLeft = 0
    /\ writing' = "none"
    /\ writerDone' = writeFails
    /\ pongLeft' = IF writing = "ping" /\ peerAlive /\ ~writeFails /\ pongLeft = None
                   THEN RTT ELSE pongLeft
    /\ readLeft' = IF writing = "ping" THEN PongWait ELSE readLeft
    /\ UNCHANGED <<tickLeft, tickReady, queued, pushed, writeLeft, writeFails,
                   peerAlive, open>>

(* The write returns: an error ends writeLoop (its defer closes the        *)
(* socket); a ping that reached a live peer will be answered.  The round  *)
(* trip is any time up to RTT.                                             *)
WriteReturns ==
    /\ writing # "none" /\ writeLeft = 0
    /\ writing' = "none"
    /\ writerDone' = writeFails
    /\ \E rtt \in 0..RTT :
         pongLeft' = IF writing = "ping" /\ peerAlive /\ ~writeFails /\ pongLeft = None
                     THEN rtt ELSE pongLeft
    /\ UNCHANGED <<readLeft, tickLeft, tickReady, queued, pushed, writeLeft,
                   writeFails, peerAlive, open>>

(* The pong is read inside ReadMessage; the pong handler pushes the read   *)
(* deadline to now + pongWait.                                             *)
PongHandler ==
    /\ pongLeft = 0 /\ open
    /\ pongLeft' = None /\ readLeft' = PongWait
    /\ UNCHANGED <<tickLeft, tickReady, queued, pushed, writing, writeLeft,
                   writeFails, writerDone, peerAlive, open>>

(* A data frame from the peer: ReadMessage returns it, and the reader's    *)
(* next ReadMessage sets the deadline to now + pongWait.                   *)
ReadMessage ==
    /\ open /\ peerAlive /\ readLeft > 0
    /\ readLeft' = PongWait
    /\ UNCHANGED <<tickLeft, tickReady, queued, pushed, writing, writeLeft,
                   writeFails, writerDone, pongLeft, peerAlive, open>>

(* ReadMessage fails: the deadline passed, or writeLoop closed the socket. *)
(* The server's reader then closes the connection.                         *)
ReadFails ==
    /\ open /\ (readLeft = 0 \/ writerDone)
    /\ open' = FALSE
    /\ UNCHANGED <<readLeft, tickLeft, tickReady, queued, pushed, writing, writeLeft,
                   writeFails, writerDone, pongLeft, peerAlive>>

(* The peer goes away silently (crash, network loss); a pong in flight is  *)
(* lost.                                                                   *)
PeerDies ==
    /\ peerAlive
    /\ peerAlive' = FALSE /\ pongLeft' = None
    /\ UNCHANGED <<readLeft, tickLeft, tickReady, queued, pushed, writing, writeLeft,
                   writeFails, writerDone, open>>

Next ==
    \/ Tick \/ Push \/ WriteLoopSelect \/ WriteReturns \/ PongHandler
    \/ ReadMessage \/ ReadFails \/ PeerDies

(* Time passes and the goroutines run when they can; the peer and the      *)
(* producers are not obliged to act.                                       *)
Fairness ==
    /\ WF_vars(Tick) /\ WF_vars(WriteLoopSelect) /\ WF_vars(WriteReturns)
    /\ WF_vars(PongHandler) /\ WF_vars(ReadFails)

Spec == Init /\ [][Next]_vars /\ Fairness

-----------------------------------------------------------------------------
(* spec.md 4.4: a connection leaves Active on missed pongs beyond          *)
(* pong_wait.  A peer that answers every ping within the round trip and    *)
(* reads every frame is never disconnected by the read deadline.  The     *)
(* ping goes through writeChan's select like any message, so the messages  *)
(* writeLoop writes before it delay it, while pingPeriod leaves only       *)
(* pongWait - pingPeriod for the write and the round trip.                 *)
LivePeerKept == peerAlive => open

(* A peer that dies silently is eventually disconnected: its pongs stop,   *)
(* the read deadline passes and the reader closes the connection.          *)
DeadPeerDetected == ~peerAlive ~> ~open

=============================================================================
