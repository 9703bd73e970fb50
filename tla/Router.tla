------------------------------- MODULE Router -------------------------------
(***************************************************************************)
(* The HTTP request pipeline of the server: router.SetupRouter            *)
(* (src/unnamed/part_000) registers the global CORS middleware and, per    *)
(* route group, JWTAuth, InternalAuth or InternalAuthAsUser in front of    *)
(* the handlers.  Hertz runs a route's handler chain in order; c.Next      *)
(* passes to the next element, c.Abort skips all that follow.  A request  *)
(* that matches no route runs the global middleware, then 404.             *)
(*                                                                         *)
(* Requests name a method and a path of the route table.  Credentials are *)
(* abstracted to what each middleware decides on (the TokenAuth and       *)
(* InternalAuth modules check those decisions in detail): the user a      *)
(* valid token names, Ignore-Auth, a valid internal signature, X-User-Id   *)
(* and X-Platform-Id.                                                      *)
(***************************************************************************)
EXTENDS Naturals, Sequences

CONSTANTS
    Users        \* user ids a token or X-User-Id may name

Methods == {"GET", "POST", "PUT", "OPTIONS"}

(* SetupRouter: the routes of each group.  /user and /internal/user, and   *)
(* the list routes of /conversation and /internal/conversation, register   *)
(* the same handlers; :user_id stands for any value of the parameter.      *)
UserRoutes == {<<"GET", "info">>, <<"GET", "profile/:user_id">>,
               <<"PUT", "update">>, <<"POST", "batch_info">>,
               <<"POST", "get_users_online_status">>}
ConvListRoutes == {<<m, p>> : m \in {"GET", "POST"}, p \in {"list", "all"}}
Under(prefix, g, rs) ==
    {[method |-> r[1], path |-> prefix \o r[2], group |-> g] : r \in rs}
Routes ==
    Under("/", "root", {<<"GET", "health">>})
    \cup Under("/", "ws", {<<"GET", "ws">>})
    \cup Under("/auth/", "auth", {<<"POST", "register">>, <<"POST", "login">>})
    \cup Under("/user/", "user", UserRoutes)
    \cup Under("/group/", "group", {<<"POST", "create">>, <<"POST", "join">>,
                       <<"POST", "quit">>, <<"GET", "info">>, <<"GET", "members">>})
    \cup Under("/msg/", "msg", {<<"POST", "send">>, <<"GET", "pull">>, <<"GET", "max_seq">>})
    \cup Under("/conversation/", "conversation",
            ConvListRoutes \cup {<<"GET", "info">>, <<"PUT", "update">>,
              <<"POST", "mark_read">>, <<"GET", "max_read_seq">>, <<"GET", "unread_count">>})
    \cup Under("/internal/", "internal", {<<"GET", "health">>, <<"POST", "auth/register">>})
    \cup Under("/internal/user/", "internalUser", UserRoutes)
    \cup Under("/internal/msg/", "internalMsg", {<<"POST", "send">>})
    \cup Under("/internal/conversation/", "internalConv", ConvListRoutes)

(* Paths a request may name: every registered one and one that is not.    *)
Paths == {r.path : r \in Routes} \cup {"/conversation/delete"}
GroupOf(path) ==
    IF \E r \in Routes : r.path = path
    THEN (CHOOSE r \in Routes : r.path = path).group ELSE "none"

(* Mutant: /internal/user registered behind InternalAuth.                  *)
GroupMiddlewareInternalUserUnscoped(g) ==
    CASE g \in {"user", "group", "msg", "conversation"} -> <<"JWTAuth">>
      [] g \in {"internal", "internalUser"}             -> <<"InternalAuth">>
      [] g \in {"internalMsg", "internalConv"}          -> <<"InternalAuthAsUser">>
      [] OTHER                                          -> <<>>
GroupMiddleware(g) ==
    CASE g \in {"user", "group", "msg", "conversation"} -> <<"JWTAuth">>
      [] g = "internal"                                 -> <<"InternalAuth">>
      [] g \in {"internalUser", "internalMsg", "internalConv"}
                                                        -> <<"InternalAuthAsUser">>
      [] OTHER                                          -> <<>>
ActsForUser(g) == g \in {"user", "group", "msg", "conversation",
                         "internalUser", "internalMsg", "internalConv"}

(* h.Use(middleware.CORS()): the only global middleware.                   *)
GlobalMiddleware == <<"CORS">>

(* The handler chain Hertz builds for a request: the route's, or 404 for   *)
(* a path or a method nothing is registered for.                           *)
Chain(r) ==
    IF \E rt \in Routes : rt.method = r.method /\ rt.path = r.path
    THEN GlobalMiddleware \o GroupMiddleware(GroupOf(r.path)) \o <<"handler">>
    ELSE GlobalMiddleware \o <<"notFound">>

(* The headers the middlewares read: the user token (Authorization or      *)
(* X-Token, parsed as TokenAuth checks), Ignore-Auth, whether the internal *)
(* signature headers pass validateInternalRequest (as InternalAuth         *)
(* checks), X-User-Id after TrimSpace, and X-Platform-Id: absent, a        *)
(* positive integer, or anything else.                                     *)
Creds == [token : {"none"} \cup Users, ignore : BOOLEAN, sig : BOOLEAN,
          userId : {""} \cup Users, platform : {"absent", "valid", "invalid"}]
Requests == [method : Methods, path : Paths, cred : Creds]
NoCred == [token |-> "none", ignore |-> FALSE, sig |-> FALSE, userId |-> "",
           platform |-> "absent"]
NoRequest == [method |-> "GET", path |-> "/health", cred |-> NoCred]

VARIABLES
    testEnv,   \* INFRA_ENV = TEST (enables the Ignore-Auth bypass)
    req,       \* the request being served
    pc,        \* index of the chain element to run next; 0 when idle
    aborted,   \* c.Abort() was called
    ctxUser,   \* user_id in the request context ("" if none)
    resp,      \* status of the response
    handled    \* the route handler ran

vars == <<testEnv, req, pc, aborted, ctxUser, resp, handled>>

NoResponse == [status |-> 0]

Init ==
    /\ testEnv \in BOOLEAN
    /\ req = NoRequest
    /\ pc = 0
    /\ aborted = FALSE
    /\ ctxUser = ""
    /\ resp = NoResponse
    /\ handled = FALSE

-----------------------------------------------------------------------------
(* A request arrives.                                                      *)
Arrive(r) ==
    /\ pc = 0
    /\ req' = r
    /\ pc' = 1
    /\ aborted' = FALSE
    /\ ctxUser' = ""
    /\ resp' = NoResponse
    /\ handled' = FALSE

Running(name) == pc \in 1..Len(Chain(req)) /\ Chain(req)[pc] = name

(* c.Next(ctx): the next element runs.                                     *)
Continue == pc' = pc + 1 /\ UNCHANGED <<aborted, resp>>

(* Mutant: the error response is written without c.Abort().               *)
RejectNoAbort(status) ==
    /\ pc' = pc + 1 /\ aborted' = TRUE
    /\ resp' = [resp EXCEPT !.status = status]

(* response.ErrorWithCode then c.Abort(): nothing after this element runs. *)
Reject(status) ==
    /\ pc' = Len(Chain(req)) + 1 /\ aborted' = TRUE
    /\ resp' = [resp EXCEPT !.status = status]

(* CORS(): sets the CORS headers; a preflight OPTIONS ends with 204.       *)
CORS ==
    /\ Running("CORS")
    /\ IF req.method = "OPTIONS" THEN Reject(204) ELSE Continue
    /\ UNCHANGED <<req, ctxUser, handled>>

(* JWTAuth(): the TEST bypass, else a valid token sets user_id.            *)
JWTAuth ==
    /\ Running("JWTAuth")
    /\ IF testEnv /\ req.cred.ignore
       THEN Continue /\ UNCHANGED ctxUser
       ELSE IF req.cred.token \in Users
       THEN Continue /\ ctxUser' = req.cred.token
       ELSE Reject(401) /\ UNCHANGED ctxUser
    /\ UNCHANGED <<req, handled>>

(* InternalAuth(): a valid signature passes; no user is set.               *)
InternalAuth ==
    /\ Running("InternalAuth")
    /\ IF req.cred.sig THEN Continue ELSE Reject(401)
    /\ UNCHANGED <<req, ctxUser, handled>>

(* InternalAuthAsUser(): a valid signature and X-User-Id set user_id; an  *)
(* X-Platform-Id that is not a positive integer is ErrInvalidParam.        *)
InternalAuthAsUser ==
    /\ Running("InternalAuthAsUser")
    /\ CASE ~req.cred.sig \/ req.cred.userId = "" -> Reject(401) /\ UNCHANGED ctxUser
         [] req.cred.platform = "invalid"         -> Reject(400) /\ UNCHANGED ctxUser
         [] OTHER -> Continue /\ ctxUser' = req.cred.userId
    /\ UNCHANGED <<req, handled>>

(* The route handler, or Hertz's 404 for an unmatched route.               *)
Handler ==
    /\ Running("handler")
    /\ pc' = pc + 1 /\ handled' = TRUE
    /\ resp' = [resp EXCEPT !.status = 200]
    /\ UNCHANGED <<req, aborted, ctxUser>>
NotFound ==
    /\ Running("notFound")
    /\ pc' = pc + 1 /\ resp' = [resp EXCEPT !.status = 404]
    /\ UNCHANGED <<req, aborted, ctxUser, handled>>

(* The response is written and Hertz resets the pooled RequestContext for  *)
(* the next request.                                                       *)
Done ==
    /\ pc = Len(Chain(req)) + 1
    /\ pc' = 0 /\ req' = NoRequest /\ aborted' = FALSE /\ ctxUser' = ""
    /\ resp' = NoResponse /\ handled' = FALSE

(* One step of the chain of the request being served.                      *)
Step == CORS \/ JWTAuth \/ InternalAuth \/ InternalAuthAsUser \/ Handler \/ NotFound

Next ==
    /\ UNCHANGED testEnv
    /\ \/ pc = 0 /\ \E r \in Requests : Arrive(r)
       \/ Step \/ Done

Spec == Init /\ [][Next]_vars

-----------------------------------------------------------------------------
(* A middleware that rejects a request aborts the chain: the route handler *)
(* never runs for it and its error status is not overwritten.              *)
RejectedNeverHandled ==
    aborted => ~handled /\ resp.status \in {204, 400, 401}

(* Every handler that acts for the user in context (the /user, /group,     *)
(* /msg, /conversation and /internal/{user,msg,conversation} routes) runs  *)
(* for the user the credential of its route names: the token's user on a   *)
(* public route, X-User-Id on an internal one -- never with no user and    *)
(* never for the user of the other header.  The one exception is the      *)
(* Ignore-Auth bypass of JWTAuth in TEST, which sets no user.              *)
InternalGroups == {"internal", "internalUser", "internalMsg", "internalConv"}
HandledAsUser ==
    LET g == GroupOf(req.path)
    IN (handled /\ ActsForUser(g)
        /\ ~(testEnv /\ req.cred.ignore /\ g \notin InternalGroups))
         => ctxUser = IF g \in InternalGroups THEN req.cred.userId ELSE req.cred.token

=============================================================================
