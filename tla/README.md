# TLA+ models of nexo_im

This directory holds TLA+ models of the nexo_im instant-messaging backend, the
TLC configurations that check them, and `PROJECT.json`. `PROJECT.json` lists the
components, the runs, the mutants, the map from definitions to source lines, the
findings and the hazards.

## 1. The system and what of it is in `src/`

`spec.md` describes five components: a sequence allocator (C1), a message
store (C2), a conversation engine (C3), a connection manager (C4) and a
delivery pipeline (C5). It also describes an authentication and transport
surface. The repository snapshot under `src/` contains only part of the code:

| Part | Source | State it keeps | Operations | Interacts with |
|------|--------|----------------|------------|----------------|
| WebSocket connection wrapper (part of C4) | `src/unnamed/part_001` | `writeChan` (bounded, 256), `writeMu`, `closed`, `closeOnce`, `closeChan`, the socket | `WriteMessage`, `Close`, `writeLoop` (goroutine), `ReadMessage`, pong handler | producers (pushers, handlers) enqueue; any goroutine may `Close`; `writeLoop` is the only socket writer |
| Conversation service (C3) | `src/unnamed/part_002` | none in process; reads and writes `conversations`, `seq_conversations`, `seq_users` through repositories | `GetAllUserConversations`, `GetUserConversationsPage`, `GetConversation`, `UpdateConversation`, `MarkRead`, `GetMaxReadSeq` | repositories (not in `src/`); HTTP handlers |
| Conversation HTTP handlers | `src/internal/gateway/client_conn_test.go` lines 194-453 (a second file concatenated after the gateway test) | none | list/page with cursor validation, info, update, mark_read, max_read_seq, unread_count | conversation service |
| Token auth middleware | `src/internal/middleware/auth.go`, `src/unnamed/part_005` | none | `JWTAuth`, `extractToken`, `ParseTokenWithFallback`, `ParseMultiIssuer` | config, jwt package |
| Internal (service-to-service) auth | `src/internal/middleware/internal_auth.go` | none | `InternalAuth`, `InternalAuthAsUser`, `validateInternalRequest` | config, clock |
| Trace id, logging, CORS | `src/internal/middleware/trace_id.go`, `logger.go` | none | header precedence, log formatting, CORS preflight | every request that passes through them |
| Router and wiring | `src/unnamed/part_000`, `src/cmd/server/main.go` | none after start-up | route table: global CORS, then per group JWTAuth, InternalAuth or InternalAuthAsUser, then the handler; `msgService.SetPusher(wsServer)` | all of the above |
| Go SDK | `src/deploy/scripts/install_debian.sh` lines 64-388 (a concatenated file), `src/unnamed/part_004`, `src/sdk/*.go` | client token and options | HTTP wrappers, request signing, actor id helpers | server HTTP API |
| Tests | `src/unnamed/part_006`, `src/sdk/*_test.go`, gateway test | — | statements of intended behaviour | — |

The message service, the sequence and message repositories, and `WsServer`
(the connection table) are not in `src/`. These carry C1, C2 and C5 and most of
C4. Where a model needs them, it models them from `spec.md`. Such definitions
are marked `spec_modelled` in the map.

### Behaviours that are hard

- **Concurrency in the connection.** Many goroutines call `WriteMessage`
  while a reader, a kick or shutdown calls `Close`. The single `writeLoop`
  selects among four channels. Two of those channels become ready together
  when `Close` runs.
- **Failure.** Any socket write may fail. A failure ends `writeLoop` but
  does not mark the connection closed.
- **Non-atomic reads.** The read-state handlers read `max_seq` and
  `read_seq` in two queries while sends and mark_reads run.
- **Unvalidated input and int64 edges.** `read_seq` comes from the query
  string. The internal auth skew check computes `absInt64(now - ts)`.
- **Pagination across requests.** The cursor pages of the conversation
  list are read while sends reorder the list.

### What makes each part correct

- Connection: no panic on a closed channel; FIFO single writer; nothing
  after the close frame; `Close` always completes; spec.md 4.4 also says
  Close drains the channel and sends a close frame.
- Read state: `read_seq <= max_seq`; `read_seq` never decreases; unread is
  `max(0, max_seq - read_seq)`, both stored and as reported.
- Pagination: concatenated pages equal the full ordered list (spec.md 8.6).
- Auth: a request is accepted only with a valid token or signature, and
  inside the skew window; a rejected request never reaches its handler,
  and a handler that acts for a user has one in context.
- Trace: every response carries the request's Trace-Id or a new one
  (spec.md 6).
- Allocator and send pipeline (spec only): seqs are unique and increasing,
  also across a cache loss; a send is idempotent on `client_msg_id`; a
  successful send is readable before the reply.

## 2. Modules

Every definition that stands for code is listed in the `map` of
`PROJECT.json` with its source lines. Definitions whose code is not under
`src/` are marked `spec_modelled`. Each MC module only gives constants
their values.

### ClientConn (`ClientConn.tla`, instance `MCClientConn.tla`)

This module models `WebsocketClientConn` (`src/unnamed/part_001`).

- State: `buffer` is `writeChan`. `closed`, `chanClosed` and `doneClosed`
  are the flag and the two closed channels. `mu` is `writeMu`. `pc` and
  `sent` belong to the producers. `closer` is the progress of `Close`.
  `writer` is the `writeLoop` goroutine. `wire` is the frames on the socket.
- History variables: `accepted` is the messages `WriteMessage` returned nil
  for, in order. `writeFailed` records that a socket write failed.
  `panicked` records that a channel operation panicked.
- Actions: `WriteMessageLock` and `WriteMessageSend` are the two halves of
  `WriteMessage`, split at the point where a concurrent `Close` could
  matter. `CloseCall`, `CloseLocked` and `CloseSignal` are `Close`.
  `WriteLoopMessage`, `WriteLoopChanClosed`, `WriteLoopPing` and
  `WriteLoopQuit` are the four cases of `writeLoop`'s select. Each write may
  succeed or fail.
- Abstraction: payloads are `<<producer, k>>`. Deadlines and the ticker
  period are abstracted to nondeterminism. A second `Close` is a no-op of
  `closeOnce` and is left out.
- Fairness: weak fairness only for steps the Go scheduler must run: a
  producer holding `writeMu` finishes its send, a called `Close` proceeds,
  and `writeLoop` takes a ready case. Starting a write or calling `Close` is
  the caller's choice and gets no fairness.

### ConversationRead (`ConversationRead.tla`, instance `MCConversationRead.tla`)

One conversation's `max_seq`, each member's `read_seq`, `MarkRead`, the
`max_read_seq` and `unread_count` handlers, and `GetConversation`.

- Each handler is two steps, one per query: `ReadMaxSeq` (or
  `GetConversation`, whose extra read of the owner's row sends do not
  change), then `Reply`.
  `Reply` includes `GetUnreadCount`'s fallback to the stored `read_seq`
  when the caller gave 0 (`ReadSeqUsed`), and the clamp at 0.
- Seq queries may fail when `SeqQueriesFail` is TRUE (`QueryOk`), in the
  code's way: `GetMaxReadSeq` returns the error of the `max_seq` query (an
  error reply), but discards the error of the `read_seq` query
  (`seqUser, _ :=`), which then reads as 0. `GetConversation` fails on
  its row read and discards both seq errors (a failed `max_seq` reads
  as 0).
- `SendMessage` (allocation of the next seq) and `UpdateReadSeq`
  (`read_seq = max(cur, min(seq, max_seq))`) are spec-modelled.

### ConversationPage (`ConversationPage.tla`, instance `MCConversationPage.tla`)

`GetUserConversationsPage` (`src/unnamed/part_002`) and the
`GetConversationList` handler (limit and cursor validation).

- State: `updated` is each conversation's `updated_at`, `now` the clock,
  `cursor`, `collected` and `paging` the client walking the pages, `resp`
  the last page, `start` the data the walk began on.
- `GetConversationList` rejects a negative limit, a limit above the
  maximum and a half-given or malformed cursor. Otherwise it clamps the
  limit, fetches `limit+1` rows after the cursor in (`updated_at`, id)
  descending order, truncates, and sets `has_more` and the next cursor.
  `Touch` is a send that moves a conversation to the top.
- The repository query (order and cursor predicate, spec.md 4.3) is
  spec-modelled. `ListAll` is a RECURSIVE reference walk over
  `next_cursor`, compared with the whole list sorted by `SetToSortSeq`.

### InternalAuth (`InternalAuth.tla`, instance `MCInternalAuth.tla`)

`validateInternalRequest`, `InternalAuth` and `InternalAuthAsUser`, with
the SDK's `signInternalRequest` as the signing caller.

- int64 is a Width-bit integer with Go's wrap-around (`Wrap`), so
  `absInt64(now - ts)` behaves as it does at 64 bits. Width 5 keeps the
  state space small and reaches the same wrap.
- The HMAC is the record of the key and the fields it covers. Callers are
  SDK clients with clock drift, other secret holders with any timestamp,
  and an attacker who replays, alters or forges requests. A missing
  `X-Platform-Id` parses as 0, which `AsUserCheck` treats like any
  non-positive platform.
- `ValidateInternalRequest` keeps every early return in the code's order.

### TokenAuth (`TokenAuth.tla`, instance `MCTokenAuth.tla`)

`JWTAuth`, `extractToken` and `ParseTokenWithFallback` (`auth.go`), and
`jwt.ParseMultiIssuer` (`src/unnamed/part_005`).

- A token is a record of signer, issuer claim, claim layout, user,
  platform and expiry. `jwt.ParseToken` and `ParseExternalToken` are not
  in `src/` and are spec-modelled.
- Requests enumerate every Authorization kind (absent, `Bearer <t>`,
  `Bearer` plus blanks, other scheme) against every X-Token, with and
  without Ignore-Auth, in and outside TEST, with the external fallback on
  and off.
- The empty-token branch of `extractToken` cannot be reached:
  `TrimSpace` has already removed the blank after `Bearer`.

### Router (`Router.tla`), SDK (`SDK.tla`) and Gateway (`Gateway.tla`, instance `MCRouter.tla`)

Router is the request pipeline: `SetupRouter`'s route table
(`src/unnamed/part_000`), the global `CORS` middleware, the group
middlewares, and Hertz's `Next`/`Abort`.

- `Routes` lists every route as a method, a path and a group. `Chain(r)`
  is the handler chain Hertz builds: CORS, the group's middleware, then
  the handler. A method or path with no route gets CORS then 404. `pc`
  indexes the chain. `Reject` is `ErrorWithCode` plus `c.Abort()`. `Done`
  writes the response and resets the pooled request context.
- A request carries the headers the middlewares read:
  - the user named by a valid token;
  - Ignore-Auth;
  - whether the internal signature validates;
  - X-User-Id;
  - X-Platform-Id.

  Token parsing and signature checks are reduced to their outcome.
  TokenAuth and InternalAuth check those in detail.
- `testEnv` is chosen once at start (INFRA_ENV does not change).

SDK is the client side. Each wrapper of `src/sdk/user.go` and
`src/unnamed/part_004` is the method, path and options it passes to
`c.get`, `c.post` or `c.put`. The module also covers the client options,
`WithActAsUser` and `applyAuthHeaders`. The SDK client's Go source is in
`src/deploy/scripts/install_debian.sh`.

Gateway composes the two. A request reaches the server either from an SDK
wrapper under some client configuration, or from any other caller with any
headers. `sdkCall` remembers which wrapper, client and acting user sent the
request being served.

### Server (`Server.tla`, instance `MCServer.tla`)

The process lifecycle of `src/cmd/server/main.go`.

- State: `pc` is where `main` is. `reposOpen` says whether the
  repositories are open. `listening` is the Hertz listener. `session` holds
  each WebSocket session and `http` each request.
- Actions: `LoadConfig`, `NewRepositories` and `CheckConnection` each
  succeed or `Panic`. A panic runs the deferred `repos.Close` once it has
  been deferred. `StartServer` is the wiring up to `signal.Notify`. `Spin`
  is the goroutine opening the listener. `Signal` kills the process before
  `signal.Notify` and wakes `main` after it. `Shutdown` closes the listener,
  and `ShutdownReturns` is `main` returning. `main` passes
  `context.TODO()`, which has no deadline, so how long `h.Shutdown` waits
  for requests in flight is Hertz's; the step has no guard on them. `Handshake` is `GET /ws` upgrading a
  session. `SessionClose` is `WebsocketClientConn.Close` on a client close,
  a read error or a kick.
- Abstraction: the services and handlers are one step that cannot fail.
  `WsServer` is not in `src/`. All that matters of it here is that `main`
  never calls into it after `Run`.

### Heartbeat (`Heartbeat.tla`, instance `MCHeartbeat.tla`)

The keep-alive of one connection in discrete time (`src/unnamed/part_001`):
`writeLoop`'s ticker and select, the write deadline, `ReadMessage` and the
pong handler, both of which push the read deadline `pongWait` ahead.

- State: the timers are countdowns. `readLeft` is the time until the read
  deadline and `tickLeft` the time until `ticker.C` fires. `pongLeft` is
  the time until the pong to the last ping is read. `writeLeft` is the time
  until the current write returns. `tickReady` is the one-slot `ticker.C`,
  so later ticks are dropped. `queued` is `writeChan`. `writerDone` means
  `writeLoop` returned. `peerAlive` describes the environment.
- Actions: `Tick` advances time by one unit. `Push` is a producer's
  `WriteMessage`. `WriteLoopSelect` starts the write of a message or a ping
  with a duration, and `WriteReturns` ends it. `PongHandler` runs when the
  pong is read, and `ReadMessage` when a data frame is read. `ReadFails` is
  the server's reader closing on a read error; it is spec-modelled because
  `WsServer` is not in `src/`. `PeerDies` is the peer going away.
- Abstraction: one unit is 2 s, so spec.md 4.4's 60/54/10 s become
  30/27/5. A goroutine with a ready case runs before time moves on (the
  `Urgent` guard on `Tick`), because it runs in microseconds.
- Fairness: weak fairness on `Tick` (time passes) and on the goroutine
  steps. The peer and the producers get none.

### ConnAbstract (`ConnAbstract.tla`) and the refinement

`ConnAbstract` is what a connection promises its pushers. It is an ordered
queue: `Accept` appends while open, `Deliver` moves the head onto the wire,
`Close` stops accepting, and `Break` stops delivery and may lose the
message being written. `ClientConn` defines
`Abstract == INSTANCE ConnAbstract WITH queue <- buffer, delivered <- DataOf(wire), open <- ~closed, broken <- (writer = "exited")`,
and `clientconn_safety` checks `ImplementsConnAbstract == Abstract!Spec`.
The property holds because every step of the implementation is one
abstract step or a stutter.

## 3. Runs

| Run | Config | Expect | Checks | Bounds |
|-----|--------|--------|--------|--------|
| clientconn_safety | `MCClientConn.cfg` | pass | `NoPanic`, `SingleWriterFifo`, `CloseCompletes`, `ImplementsConnAbstract` | 2 producers x 2 messages, capacity 2, 1 ping |
| clientconn_drain | `MCClientConnDrain.cfg` | violation | `DrainedOnClose` | same |
| readstate_snapshot | `MCConversationReadSnapshot.cfg` | violation | `ReplyReadNotAboveMax` | 2 users, max_seq <= 2, inputs {-1,0,1,3}; queries succeed |
| readstate_seqfail | `MCConversationReadSeqFail.cfg` | violation | `UnreadNotOverstated` | same; queries may fail |
| page_safety | `MCConversationPage.cfg` | pass | `UntouchedNotSkipped`, `PagesDescending`, `StaticPagingComplete` | 3 conversations, 2 touches, limits {-1,0,1,4}, default 2, max 3 |
| internalauth_safety | `MCInternalAuth.cfg` | pass | `AcceptedOnlyAuthorized` | 5-bit int64, skew 3, clock 0..2, 2 services, 2 operations |
| internalauth_skew | `MCInternalAuthSkew.cfg` | violation | `AcceptedWithinSkew` | same |
| tokenauth_safety | `MCTokenAuth.cfg` | pass | `TypeOK`, `AuthenticatedOnlyWithValidToken` | 2 users, every token shape |
| router_auth | `MCRouter.cfg` | pass | `RejectedNeverHandled`, `HandledAsUser`, `SDKCallServed` | every method, path and header combination; every SDK wrapper under every client configuration; 2 users |
| server_shutdown | `MCServer.cfg` | violation | `ShutdownGraceful` | 2 sessions, 2 requests |
| heartbeat | `MCHeartbeat.cfg` | pass | `DeadPeerDetected` | pong_wait 30, ping_period 27, write_wait 5 units; writes up to 1 unit, round trip up to 1; capacity 2 |
| heartbeat_slowlink | `MCHeartbeatSlowLink.cfg` | violation | `LivePeerKept` | same |

Why the bounds are enough:

- ClientConn: four messages into a channel of two fill it. This reaches a
  full channel, a full channel behind a dead writer (where a blocking send
  would deadlock), and messages still queued when `Close` runs.
  `CHECK_DEADLOCK FALSE`: a closed connection whose producers are done
  really stops.
- ConversationRead: the inputs cover a negative value, the "not given" 0,
  an in-range value and one above any `max_seq`. Two sends leave room for
  a send and a mark_read between the two queries of a handler.
- ConversationPage: with three conversations and limit 1 a walk takes three
  pages, so a touch can fall between any two of them. Limit 4 and -1 hit
  the rejections, 0 the default. `CHECK_DEADLOCK FALSE`: the clock bound
  ends the sends, and a client may stop paging.
- InternalAuth: at 5 bits MinInt is -16, so a raw timestamp of -15 against
  a clock of 1 reaches the wrap of `now - ts`, just as
  `ts = now + MinInt64` does at 64 bits.
- Router and TokenAuth enumerate their whole input space. Two users are
  enough to tell the token's user from the acting user.
- Heartbeat: the real ratio of the defaults is kept, so a ping goes out
  3 units (6 s) before the deadline. A write to a live peer takes up to
  1 unit (2 s) and a round trip up to 1 unit, so a ping alone is answered
  within 2 units, inside the margin, and only a message written ahead of
  it can use the rest. Two queued messages, the ticker phase against every
  data frame, and a peer dying during a write are all reached.
  `CHECK_DEADLOCK FALSE`: a closed connection stops.

### What the runs show

- **clientconn_drain**: `WriteMessage` queues a message (returns nil),
  `Close` closes both channels, and `writeLoop` takes the `closeChan` case
  and returns. The accepted message stays in `writeChan` and is never
  written, and neither is the close frame (spec.md 4.4: Closing -> Closed
  drains the channel).
- **readstate_snapshot**: with queries that succeed: read `max_seq` (0);
  a send (1); mark read 1; read `read_seq` (1). The reply is
  `read_seq 1 > max_seq 0`.
- **readstate_seqfail**: a send; mark read 1; `unread_count` reads
  `max_seq` 1, and its `read_seq` query fails. `GetMaxReadSeq` discards
  the error (`part_002:231`), so the reply is `unread_count` 1 for a
  member who has read everything (spec.md 4.3). With `SeqQueriesFail`
  FALSE the same property holds (about 1M states): reading `max_seq`
  before `read_seq` keeps the count from being overstated, so only the
  error path overstates it.
- **internalauth_skew**: a timestamp MinInt away from the clock passes the
  skew check, because `absInt64` of the most negative value is negative.
  A holder of the secret can sign a request whose timestamp is about
  2^63 s off the clock; it passes the skew check during the second in
  which `now - ts` is exactly MinInt64.
- **server_shutdown**: start-up, `Spin`, a signal, a `/ws` handshake,
  `Shutdown`, return. The process exits with the session open and no close
  frame sent. `main` stops only the Hertz server, and nothing stops
  `wsServer` (spec.md 5, graceful shutdown). `CHECK_DEADLOCK FALSE`: the
  process really ends.
- **heartbeat** (pass): a peer that dies silently is always disconnected
  (`DeadPeerDetected`, under the fairness above).
- **heartbeat_slowlink**: a tick and a queued message are ready together;
  `writeLoop` writes the message first (2 s), then the ping (2 s), and the
  pong comes back 2 s later, as the read deadline passes. `ReadMessage`
  fails and the reader closes a peer that answered every ping. The ping
  shares the select with the messages, and `pingPeriod` leaves only 6 s
  (spec.md 4.4 closes only on missed pongs beyond pong_wait).
- The passing runs show these things hold:
  - ClientConn: the mutex discipline rules out the panic, and the
    non-blocking send rules out a `Close` deadlock.
  - ConversationPage: pages never skip a conversation that was not
    touched, come newest first, and over a fixed dataset list every row
    once.
  - InternalAuth: altered or forged requests are never accepted. An
    exact replay within `MaxSkew` is accepted: neither the code nor
    spec.md 6 has a nonce, so the property does not exclude it.
  - TokenAuth: header precedence never lets an unsigned identity through.
  - Router: every group's middleware and `Abort` keep handlers behind
    authentication. A handler runs for the user its route's credential
    names: the token's user on public routes, X-User-Id on internal ones.
  - Gateway: every SDK wrapper matches a route of `SetupRouter`. A client
    set up for it reaches the handler as the intended user, even when the
    client holds both a token and an internal signature.
  - ClientConn refines `ConnAbstract`: pushers see an ordered queue.

  Each property has a mutant in `PROJECT.json` that TLC catches.

Five disagreements found while modelling have no run:

- `GetUnreadCount` uses any non-zero `read_seq` from the query string
  (`client_conn_test.go:432`), so `read_seq=-1` on a conversation with
  `max_seq` 0 replies `unread_count` 1, above `max_seq` (spec.md 4.3).
  The run `readstate_unread` showed this. It was retired for
  `readstate_seqfail`, since the cause is one visible line.
- `SetupRouter` never installs `TraceID`, so no response carries Trace-Id
  (spec.md 6). The run `router_trace` showed this. It was retired for
  `server_shutdown`, because the two lines of global middleware in
  `SetupRouter` already show it.

- The SDK's `applyAuthHeaders` sets no trace header, so an SDK call is not
  handled under its caller's trace id, as `sdk/client_trace_test.go`
  expects. This was the `TraceFlow` module and its run `trace_sdk`. They
  were retired for `readstate_unread`: the test already fails, and the
  server never installs `TraceID` anyway.
- `ParseMultiIssuer` gives external tokens platform 1, not Web. It has no
  caller in `src/`.
- `MGetActorFromUserIds` (`src/sdk/actor.go`) parses each id and never
  appends it, so a successful call returns an empty list. This was the
  `ActorIds` module. It was retired for the heartbeat run because it is a
  sequential loop and `sdk/actor_test.go` already fails on it.

They are kept in the hazards of `PROJECT.json`.

## 4. Plan

Done in this order:

1. ClientConn
2. ConversationRead
3. ConversationPage
4. InternalAuth
5. TokenAuth
6. Router
7. TraceFlow (retired, see above)
8. Heartbeat, and the ConnAbstract refinement of ClientConn
9. Router rewritten over `SetupRouter`'s route table; SDK wrappers; the
   Gateway composition
10. `GetConversation` and the `readstate_unread` run
11. Server (the `main.go` lifecycle), which replaced `router_trace`
12. Failing seq queries in ConversationRead (`readstate_seqfail`) and the
    slow-link heartbeat run, which replaced `readstate_safety` and
    `readstate_unread`

Still to write:

1. **SeqAllocator** (spec-modelled C1): atomic counter, durable floor
   flushed on an interval, restore after cache loss. An abstract
   `SeqAbstract` (allocations unique and increasing) is refined with
   `INSTANCE ... WITH`. The case to check is a cache loss between an
   allocation and the floor flush.
2. **MessageSend** (spec-modelled C5 with C2): concurrent sends,
   idempotent on `client_msg_id`, that allocate, persist, touch and reply.
   A persist failure abandons a seq. It composes SeqAllocator and feeds
   ConversationRead's `max_seq`.
3. **ConnManager** (spec-modelled C4): the `(user, platform)` to
   ClientConn table with register and eviction, route, push, kick and
   heartbeat expiry. It needs liveness under fairness of the writer.

These need runs of their own. Every run slot is in use, so each must
replace a run or join an existing one.

## 5. Not modelled

- Logging (`Logger`, `isWebSocketHandshake`, `formatBody`) and trace ids
  (`TraceID`): nothing in `src/` calls them. `main.go` and `SetupRouter`
  install neither, so they never run in this build.
- Inside `WsServer` (not in `src/`): the connection table. Server models
  only its sessions opening and closing.
- The actor id helpers (`src/sdk/actor.go`): see above.
- The SDK's HTTP transport and JSON encoding and decoding. The wrappers
  themselves are modelled in SDK as the requests they send.
- Trace ids (`trace_id.go`): `SetupRouter` never installs `TraceID`, so
  none of it runs on a request.
- The deploy script and the SQL migration.
- Cryptography (JWT signatures, HMAC, SHA-256): abstracted to who signed
  what.
- The WebSocket test client (`part_006`) and the other tests: used as
  statements of intended behaviour.
