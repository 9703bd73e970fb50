------------------------------ MODULE Gateway -------------------------------
(***************************************************************************)
(* The SDK's calls composed with the server's routing: a request reaches  *)
(* Router either from an SDK wrapper, with the headers applyAuthHeaders    *)
(* sets for the client's configuration, or from any other caller with any *)
(* headers.  sdkCall remembers which wrapper, client and acting user sent  *)
(* the request being served.                                               *)
(***************************************************************************)
EXTENDS Router

Api == INSTANCE SDK

VARIABLE sdkCall

NoCall == [call |-> Api!Call("none", "GET", "/health", FALSE),
           client |-> [token |-> "", ignoreAuth |-> FALSE, internal |-> FALSE],
           actAs |-> ""]
SDKCalls == [call : Api!Calls, client : Api!Clients, actAs : {""} \cup Users]

gvars == <<vars, sdkCall>>

GatewayInit == Init /\ sdkCall = NoCall

(* An SDK wrapper sends its request (Client.request / Client.get).         *)
SDKSend(call, cl, actAs) ==
    /\ Arrive(Api!SDKRequest(call, cl, actAs))
    /\ sdkCall' = [call |-> call, client |-> cl, actAs |-> actAs]

(* Any other caller: a browser, the WebSocket client, a service that signs *)
(* its own requests.                                                       *)
OtherSend(r) == Arrive(r) /\ sdkCall' = NoCall

GatewayNext ==
    /\ UNCHANGED testEnv
    /\ \/ pc = 0 /\ \E r \in Requests : OtherSend(r)
       \/ pc = 0 /\ \E call \in Api!Calls, cl \in Api!Clients :
                      \E actAs \in Api!ActAsOptions(call) : SDKSend(call, cl, actAs)
       \/ Step /\ UNCHANGED sdkCall
       \/ Done /\ sdkCall' = NoCall

GatewaySpec == GatewayInit /\ [][GatewayNext]_gvars

-----------------------------------------------------------------------------
(* The SDK reaches the handler it means: a wrapper called by a client that *)
(* is set up for it -- a user token for the public wrappers, an internal   *)
(* client and WithActAsUser for the Internal* ones -- is routed by         *)
(* SetupRouter to a handler, passes that route's middleware, and the       *)
(* handler runs for the token's user, or for the acting user.  This ties   *)
(* the SDK's method and path tables and applyAuthHeaders to the server's  *)
(* route table and middlewares.  Excluded: SetIgnoreAuth in TEST, where    *)
(* JWTAuth lets the request through with no user.                          *)
SetUpFor(c) ==
    IF c.call.opts THEN c.client.internal /\ c.actAs # ""
    ELSE c.client.token # "" /\ ~(testEnv /\ c.client.ignoreAuth)
SDKCallServed ==
    (sdkCall # NoCall /\ pc = Len(Chain(req)) + 1 /\ SetUpFor(sdkCall))
        => /\ handled
           /\ ctxUser = IF sdkCall.call.opts THEN sdkCall.actAs
                        ELSE sdkCall.client.token

=============================================================================
