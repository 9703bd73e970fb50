------------------------------- MODULE Server -------------------------------
(***************************************************************************)
(* The process lifecycle of cmd/server/main.go: startup, serving, and the  *)
(* shutdown on SIGINT/SIGTERM.                                             *)
(*                                                                         *)
(* main runs its steps in order: load the config, open the repositories   *)
(* (deferring repos.Close), check the database, wire the services, start  *)
(* the WebSocket server and the router, start h.Spin in a goroutine,      *)
(* register for signals and block on quit.  Each failed startup step     *)
(* panics; a panic runs the deferred repos.Close.  On a signal main calls  *)
(* h.Shutdown and returns, and the process exits.                          *)
(*                                                                         *)
(* Beside main run the Spin goroutine (which opens the listener), HTTP     *)
(* requests, and WebSocket sessions upgraded on GET /ws, which live on     *)
(* after their handshake request.                                          *)
(***************************************************************************)

CONSTANTS
    Sessions,    \* WebSocket sessions a client may open
    HttpReqs     \* HTTP requests a client may send

VARIABLES
    pc,          \* where main is
    reposOpen,   \* repositories (database and Redis pools) are open
    listening,   \* the Hertz listener: "no" before Spin, "yes", "closed"
    session,     \* per session: "none", "open", "closed" (close frame sent)
    http         \* per request: "none", "inflight", "done"

vars == <<pc, reposOpen, listening, session, http>>

(* main has returned or the process died: nothing of it runs any more.     *)
Exited == {"exited", "panicked", "killed"}

Running == pc \notin Exited

Init ==
    /\ pc = "load"
    /\ reposOpen = FALSE
    /\ listening = "no"
    /\ session = [s \in Sessions |-> "none"]
    /\ http = [r \in HttpReqs |-> "none"]

(* A failed startup step panics; the deferred repos.Close runs only once   *)
(* NewRepositories has returned.                                           *)
Panic ==
    /\ pc' = "panicked"
    /\ reposOpen' = FALSE
    /\ UNCHANGED <<listening, session, http>>

(* config.Load(""), then InitRedisKeyPrefix.                               *)
LoadConfig ==
    /\ pc = "load"
    /\ \/ pc' = "repos" /\ UNCHANGED <<reposOpen, listening, session, http>>
       \/ Panic

(* repository.NewRepositories(cfg); on success repos.Close is deferred.    *)
NewRepositories ==
    /\ pc = "repos"
    /\ \/ pc' = "check" /\ reposOpen' = TRUE /\ UNCHANGED <<listening, session, http>>
       \/ Panic

(* repos.CheckConnection(ctx).                                             *)
CheckConnection ==
    /\ pc = "check"
    /\ \/ pc' = "wire" /\ UNCHANGED <<reposOpen, listening, session, http>>
       \/ Panic

(* Services, NewWsServer, SetPusher, wsServer.Run, handlers,               *)
(* server.Default, SetupRouter, go h.Spin(), signal.Notify: none of these  *)
(* fails, and main then blocks on <-quit.                                  *)
StartServer ==
    /\ pc = "wire"
    /\ pc' = "wait"
    /\ UNCHANGED <<reposOpen, listening, session, http>>

(* The goroutine running h.Spin opens the listener, unless Shutdown has    *)
(* already closed the engine.                                              *)
Spin ==
    /\ Running
    /\ pc \notin {"load", "repos", "check", "wire"}
    /\ listening = "no"
    /\ listening' = "yes"
    /\ UNCHANGED <<pc, reposOpen, session, http>>

(* SIGINT or SIGTERM.  Before signal.Notify the Go runtime kills the       *)
(* process without running deferred calls; afterwards the signal lands in *)
(* quit (capacity 1) and main wakes.  Later signals find quit full and are *)
(* dropped.                                                                *)
Signal ==
    /\ pc \in {"load", "repos", "check", "wire", "wait"}
    /\ pc' = IF pc = "wait" THEN "shutdown" ELSE "killed"
    /\ UNCHANGED <<reposOpen, listening, session, http>>

(* h.Shutdown(context.TODO()) closes the listener and waits for the        *)
(* requests in flight; the context has no deadline, so how long it waits  *)
(* is Hertz's.  The WebSocket sessions are hijacked connections Hertz no   *)
(* longer tracks, and nothing calls into wsServer.                         *)
Shutdown ==
    /\ pc = "shutdown"
    /\ listening' = "closed"
    /\ pc' = "draining"
    /\ UNCHANGED <<reposOpen, session, http>>

(* Shutdown returns (whether requests are still in flight is up to Hertz,  *)
(* so the step has no guard on them);                                      *)
(* main logs and returns, the deferred repos.Close runs and the process    *)
(* exits.                                                                  *)
ShutdownReturns ==
    /\ pc = "draining"
    /\ pc' = "exited"
    /\ reposOpen' = FALSE
    /\ UNCHANGED <<listening, session, http>>

(* A request is accepted while the listener is open and served to the end. *)
HttpArrive(r) ==
    /\ Running /\ listening = "yes" /\ http[r] = "none"
    /\ http' = [http EXCEPT ![r] = "inflight"]
    /\ UNCHANGED <<pc, reposOpen, listening, session>>

HttpFinish(r) ==
    /\ Running /\ http[r] = "inflight"
    /\ http' = [http EXCEPT ![r] = "done"]
    /\ UNCHANGED <<pc, reposOpen, listening, session>>

(* GET /ws: the adaptor hands the request to wsServer.HandleConnection,    *)
(* which upgrades it into a session.                                       *)
Handshake(s) ==
    /\ Running /\ listening = "yes" /\ session[s] = "none"
    /\ session' = [session EXCEPT ![s] = "open"]
    /\ UNCHANGED <<pc, reposOpen, listening, http>>

(* The session ends on a client close, a read error or a kick:             *)
(* WebsocketClientConn.Close, whose writeLoop sends the close frame.       *)
SessionClose(s) ==
    /\ Running /\ session[s] = "open"
    /\ session' = [session EXCEPT ![s] = "closed"]
    /\ UNCHANGED <<pc, reposOpen, listening, http>>

Next ==
    \/ LoadConfig \/ NewRepositories \/ CheckConnection \/ StartServer
    \/ Spin \/ Signal \/ Shutdown \/ ShutdownReturns
    \/ \E r \in HttpReqs : HttpArrive(r) \/ HttpFinish(r)
    \/ \E s \in Sessions : Handshake(s) \/ SessionClose(s)

Spec == Init /\ [][Next]_vars

-----------------------------------------------------------------------------

TypeOK ==
    /\ pc \in {"load", "repos", "check", "wire", "wait", "shutdown", "draining"} \cup Exited
    /\ reposOpen \in BOOLEAN
    /\ listening \in {"no", "yes", "closed"}
    /\ session \in [Sessions -> {"none", "open", "closed"}]
    /\ http \in [HttpReqs -> {"none", "inflight", "done"}]

(* spec.md 5 (graceful shutdown): stop accepting, send close frames to all *)
(* sessions, wait for the drain, then force-close.  Requests may be cut    *)
(* off after the grace period, but no session may be left without its     *)
(* close frame: when main has returned after a signal, every session that  *)
(* was opened has been closed.                                             *)
ShutdownGraceful ==
    pc = "exited" => \A s \in Sessions : session[s] # "open"

=============================================================================
