----------------------------- MODULE ClientConn -----------------------------
(***************************************************************************)
(* WebsocketClientConn (src/unnamed/part_001, package gateway): the       *)
(* single-writer wrapper around one WebSocket.                             *)
(*                                                                         *)
(*  - producers call WriteMessage, which takes writeMu, returns            *)
(*    ErrConnClosed when the closed flag is set, and otherwise does a      *)
(*    NON-blocking send on the bounded writeChan (ErrWriteChannelFull      *)
(*    when it is full);                                                    *)
(*  - Close runs once (closeOnce): under writeMu it sets closed and        *)
(*    closes writeChan, then, after unlocking, closes closeChan;           *)
(*  - writeLoop is the only goroutine that writes to the socket. Its       *)
(*    select picks any ready case: a queued message, the closed writeChan  *)
(*    (close frame), the ping ticker, or the closed closeChan.  Any write  *)
(*    error ends the loop; its defer closes the socket.                    *)
(*                                                                         *)
(* Payloads are abstracted to <<producer, k>>; timing (deadlines, ticker   *)
(* period) to nondeterminism: a socket write may succeed or fail, a tick   *)
(* may come at any time.                                                   *)
(***************************************************************************)
EXTENDS Naturals, Sequences, SequencesExt

CONSTANTS
    Producers,        \* goroutines that call WriteMessage (pushers, handlers)
    MsgsPerProducer,  \* WriteMessage calls each producer makes
    WriteChanCap,     \* capacity of writeChan (256 in the code)
    MaxPings          \* bound on successful ticker pings

ASSUME /\ Producers # {}
       /\ MsgsPerProducer \in Nat \ {0}
       /\ WriteChanCap \in Nat \ {0}
       /\ MaxPings \in Nat

NoHolder == "none"          \* writeMu is free

Msgs == Producers \X (1..MsgsPerProducer)
DataFrame(m) == [kind |-> "data", msg |-> m]
PingFrame == [kind |-> "ping", msg |-> "none"]
CloseFrame == [kind |-> "close", msg |-> "none"]
Frames == {DataFrame(m) : m \in Msgs} \cup {PingFrame, CloseFrame}

VARIABLES
    buffer,       \* contents of writeChan, oldest first
    closed,       \* c.closed
    chanClosed,   \* writeChan has been closed
    doneClosed,   \* closeChan has been closed
    mu,           \* holder of writeMu
    pc,           \* per producer: "idle" or "send" (holding writeMu)
    sent,         \* per producer: WriteMessage calls made so far
    closer,       \* Close: "idle" | "lock" (called) | "signal" | "done"
    writer,       \* writeLoop goroutine: "running" | "exited"
    wire,         \* frames the socket has written, in order
    pings,        \* successful pings so far
    accepted,     \* history: messages WriteMessage returned nil for, in order
    writeFailed,  \* history: some socket write returned an error
    panicked      \* a channel operation panicked (send on / close of closed channel)

vars == <<buffer, closed, chanClosed, doneClosed, mu, pc, sent, closer,
          writer, wire, pings, accepted, writeFailed, panicked>>
closeVars == <<closed, chanClosed, doneClosed, closer>>
loopVars == <<writer, wire, pings, writeFailed>>

Init ==
    /\ buffer = <<>>
    /\ closed = FALSE
    /\ chanClosed = FALSE
    /\ doneClosed = FALSE
    /\ mu = NoHolder
    /\ pc = [p \in Producers |-> "idle"]
    /\ sent = [p \in Producers |-> 0]
    /\ closer = "idle"
    /\ writer = "running"
    /\ wire = <<>>
    /\ pings = 0
    /\ accepted = <<>>
    /\ writeFailed = FALSE
    /\ panicked = FALSE

-----------------------------------------------------------------------------
(* WriteMessage, first half: c.writeMu.Lock(); if c.closed return          *)
(* ErrConnClosed (the deferred Unlock releases the mutex at once).         *)
WriteMessageLock(p) ==
    /\ pc[p] = "idle"
    /\ sent[p] < MsgsPerProducer
    /\ mu = NoHolder
    /\ \/ /\ closed
          /\ sent' = [sent EXCEPT ![p] = @ + 1]
          /\ UNCHANGED <<mu, pc>>
       \/ /\ ~closed
          /\ mu' = p
          /\ pc' = [pc EXCEPT ![p] = "send"]
          /\ UNCHANGED sent
    /\ UNCHANGED <<buffer, accepted, panicked, closeVars, loopVars>>

(* The channel send: a send on a closed channel panics (also inside a      *)
(* select with default).                                                   *)
ChanSend(m) ==
    /\ panicked' = (panicked \/ chanClosed)
    /\ \/ /\ Len(buffer) < WriteChanCap
          /\ buffer' = Append(buffer, m)
          /\ accepted' = Append(accepted, m)
       \/ /\ Len(buffer) = WriteChanCap     \* default: ErrWriteChannelFull
          /\ UNCHANGED <<buffer, accepted>>

(* Mutant: a drop-oldest policy, evicting the head of a full writeChan    *)
(* to make room instead of returning ErrWriteChannelFull.                  *)
WriteMessageSendDropOldest(p) ==
    /\ pc[p] = "send"
    /\ panicked' = (panicked \/ chanClosed)
    /\ buffer' = IF Len(buffer) < WriteChanCap
                 THEN Append(buffer, <<p, sent[p] + 1>>)
                 ELSE Append(Tail(buffer), <<p, sent[p] + 1>>)
    /\ accepted' = Append(accepted, <<p, sent[p] + 1>>)
    /\ sent' = [sent EXCEPT ![p] = @ + 1]
    /\ pc' = [pc EXCEPT ![p] = "idle"]
    /\ mu' = NoHolder
    /\ UNCHANGED <<closeVars, loopVars>>

(* Mutant: a plain blocking send c.writeChan <- data under writeMu.        *)
WriteMessageSendBlocking(p) ==
    /\ pc[p] = "send"
    /\ panicked' = (panicked \/ chanClosed)
    /\ Len(buffer) < WriteChanCap
    /\ buffer' = Append(buffer, <<p, sent[p] + 1>>)
    /\ accepted' = Append(accepted, <<p, sent[p] + 1>>)
    /\ sent' = [sent EXCEPT ![p] = @ + 1]
    /\ pc' = [pc EXCEPT ![p] = "idle"]
    /\ mu' = NoHolder
    /\ UNCHANGED <<closeVars, loopVars>>

(* WriteMessage, second half: select { case writeChan <- data: nil;        *)
(* default: ErrWriteChannelFull }, then the deferred Unlock.               *)
WriteMessageSend(p) ==
    /\ pc[p] = "send"
    /\ ChanSend(<<p, sent[p] + 1>>)
    /\ sent' = [sent EXCEPT ![p] = @ + 1]
    /\ pc' = [pc EXCEPT ![p] = "idle"]
    /\ mu' = NoHolder
    /\ UNCHANGED <<closeVars, loopVars>>

-----------------------------------------------------------------------------
(* Some goroutine (read loop on error, a kick, shutdown) calls Close.      *)
(* Later calls are no-ops of closeOnce and change nothing.                 *)
CloseCall ==
    /\ closer = "idle"
    /\ closer' = "lock"
    /\ UNCHANGED <<buffer, closed, chanClosed, doneClosed, mu, pc, sent,
                   accepted, panicked, loopVars>>

(* Mutant: Close sets closed and closes writeChan without taking writeMu. *)
CloseLockedWithoutMutex ==
    /\ closer = "lock"
    /\ closed' = TRUE
    /\ chanClosed' = TRUE
    /\ panicked' = (panicked \/ chanClosed)
    /\ closer' = "signal"
    /\ UNCHANGED <<buffer, doneClosed, mu, pc, sent, accepted, loopVars>>

(* Inside closeOnce.Do: Lock; closed = true; close(writeChan); Unlock.     *)
CloseLocked ==
    /\ closer = "lock"
    /\ mu = NoHolder
    /\ closed' = TRUE
    /\ chanClosed' = TRUE
    /\ panicked' = (panicked \/ chanClosed)
    /\ closer' = "signal"
    /\ UNCHANGED <<buffer, doneClosed, mu, pc, sent, accepted, loopVars>>

(* Then close(closeChan).                                                  *)
CloseSignal ==
    /\ closer = "signal"
    /\ doneClosed' = TRUE
    /\ panicked' = (panicked \/ doneClosed)
    /\ closer' = "done"
    /\ UNCHANGED <<buffer, closed, chanClosed, mu, pc, sent, accepted, loopVars>>

-----------------------------------------------------------------------------
(* writeLoop, case message, ok := <-writeChan with ok: write it as a       *)
(* binary frame; on error log and return (the deferred conn.Close runs).  *)
WriteLoopMessage ==
    /\ writer = "running"
    /\ buffer # <<>>
    /\ buffer' = Tail(buffer)
    /\ \/ /\ wire' = Append(wire, DataFrame(Head(buffer)))
          /\ UNCHANGED <<writer, writeFailed>>
       \/ /\ writer' = "exited"
          /\ writeFailed' = TRUE
          /\ UNCHANGED wire
    /\ UNCHANGED <<pings, closeVars, mu, pc, sent, accepted, panicked>>

(* writeLoop, writeChan closed and drained (!ok): write a close frame,     *)
(* ignoring its error, and return.                                         *)
WriteLoopChanClosed ==
    /\ writer = "running"
    /\ chanClosed
    /\ buffer = <<>>
    /\ writer' = "exited"
    /\ \/ /\ wire' = Append(wire, CloseFrame)
          /\ UNCHANGED writeFailed
       \/ /\ writeFailed' = TRUE
          /\ UNCHANGED wire
    /\ UNCHANGED <<buffer, pings, closeVars, mu, pc, sent,
                   accepted, panicked>>

(* writeLoop, case <-ticker.C: write a ping; on error return.              *)
WriteLoopPing ==
    /\ writer = "running"
    /\ pings < MaxPings
    /\ \/ /\ wire' = Append(wire, PingFrame)
          /\ pings' = pings + 1
          /\ UNCHANGED <<writer, writeFailed>>
       \/ /\ writer' = "exited"
          /\ writeFailed' = TRUE
          /\ UNCHANGED <<wire, pings>>
    /\ UNCHANGED <<buffer, closeVars, mu, pc, sent, accepted, panicked>>

(* writeLoop, case <-c.closeChan: return.                                  *)
WriteLoopQuit ==
    /\ writer = "running"
    /\ doneClosed
    /\ writer' = "exited"
    /\ UNCHANGED <<buffer, wire, pings, writeFailed, closeVars, mu, pc, sent,
                   accepted, panicked>>

WriteLoop == WriteLoopMessage \/ WriteLoopChanClosed \/ WriteLoopPing \/ WriteLoopQuit

Next ==
    \/ \E p \in Producers : WriteMessageLock(p) \/ WriteMessageSend(p)
    \/ CloseCall \/ CloseLocked \/ CloseSignal
    \/ WriteLoop

(* The Go scheduler runs every runnable goroutine: a producer holding      *)
(* writeMu finishes its send, Close finishes once called, and writeLoop    *)
(* takes a ready case.  Whether a producer writes or anyone calls Close is *)
(* up to the callers, so those steps get no fairness.                      *)
Fairness ==
    /\ \A p \in Producers : WF_vars(WriteMessageSend(p))
    /\ WF_vars(CloseLocked)
    /\ WF_vars(CloseSignal)
    /\ WF_vars(WriteLoop)

Spec == Init /\ [][Next]_vars /\ Fairness

-----------------------------------------------------------------------------
DataOf(frames) == [i \in 1..Len(SelectSeq(frames, LAMBDA f : f.kind = "data")) |->
                     SelectSeq(frames, LAMBDA f : f.kind = "data")[i].msg]

(* WriteMessage racing Close never sends on the closed writeChan, and      *)
(* Close never closes a channel twice: the closed check and the send sit   *)
(* under the same writeMu that Close holds while it closes writeChan.      *)
NoPanic == ~panicked

(* Single-writer FIFO: the data frames on the socket are, in order, a      *)
(* prefix of the messages WriteMessage accepted, and unless a socket write *)
(* failed every accepted message is either written or still queued.        *)
SingleWriterFifo ==
    /\ IsPrefix(DataOf(wire), accepted)
    /\ ~writeFailed => accepted = DataOf(wire) \o buffer

(* A Close that has been called always completes: WriteMessage never      *)
(* blocks while it holds writeMu, so Close can always take the mutex,      *)
(* even when writeLoop is gone and writeChan is full.                      *)
CloseCompletes == closer = "lock" ~> closer = "done"

(* The connection implements ConnAbstract: writeChan is the queue, the     *)
(* data frames on the socket are what was delivered, the closed flag ends  *)
(* accepting, and writeLoop's return is the writer breaking.  Pings and    *)
(* the close frame are not data and refine stuttering steps.  This is the *)
(* contract the pushers rely on: nothing accepted after Close, no frame     *)
(* written twice, out of order, or after writeLoop has returned.           *)
Abstract == INSTANCE ConnAbstract
              WITH queue <- buffer, delivered <- DataOf(wire),
                   open <- ~closed, broken <- (writer = "exited")
ImplementsConnAbstract == Abstract!Spec

(* spec.md 4.4: Closing -> Closed "closes socket, drains channel".  When   *)
(* writeLoop ends without a socket error, no message WriteMessage accepted *)
(* (returned nil for) is left unwritten in writeChan.                      *)
DrainedOnClose ==
    (writer = "exited" /\ ~writeFailed) => buffer = <<>>
=============================================================================
