-------------------------------- MODULE SDK ---------------------------------
(***************************************************************************)
(* The HTTP calls of the Go SDK: the user wrappers (src/sdk/user.go), the  *)
(* conversation wrappers (src/unnamed/part_004), the client options and    *)
(* Client.applyAuthHeaders (the SDK client's source is the Go text in      *)
(* src/deploy/scripts/install_debian.sh).  A wrapper is the method and     *)
(* path it hands to c.get, c.post or c.put, and whether it takes           *)
(* RequestOptions; its body and result are JSON and are not modelled.      *)
(***************************************************************************)
CONSTANT Users   \* user ids a token or WithActAsUser may name

Call(name, m, p, opts) == [name |-> name, method |-> m, path |-> p, opts |-> opts]

(* user.go.  "/user/profile/"+userId is the :user_id route for a user id  *)
(* that is a single path segment.                                          *)
UserCalls ==
    {Call("GetUserInfo", "GET", "/user/info", FALSE),
     Call("GetUserInfoById", "GET", "/user/profile/:user_id", FALSE),
     Call("UpdateUserInfo", "PUT", "/user/update", FALSE),
     Call("GetUsersInfo", "POST", "/user/batch_info", FALSE),
     Call("GetUsersOnlineStatus", "POST", "/user/get_users_online_status", FALSE),
     Call("InternalGetUserInfo", "GET", "/internal/user/info", TRUE),
     Call("InternalGetUserInfoById", "GET", "/internal/user/profile/:user_id", TRUE),
     Call("InternalUpdateUserInfo", "PUT", "/internal/user/update", TRUE),
     Call("InternalGetUsersInfo", "POST", "/internal/user/batch_info", TRUE),
     Call("InternalGetUsersOnlineStatus", "POST",
          "/internal/user/get_users_online_status", TRUE)}

(* part_004.  The wrappers that only fill in defaults (GetAllConversation- *)
(* List, GetConversationList, SetConversationPinned, ...) are the calls    *)
(* they delegate to.  UpdateConversation puts ?conversation_id= into the   *)
(* path; the server routes on the part before '?'.                         *)
ConversationCalls ==
    {Call("GetAllConversationListWithLastMessage", "POST", "/conversation/all", FALSE),
     Call("getConversationListPage", "POST", "/conversation/list", FALSE),
     Call("InternalGetAllConversationListWithLastMessage", "POST",
          "/internal/conversation/all", TRUE),
     Call("InternalGetConversationListWithLastMessage", "POST",
          "/internal/conversation/list", TRUE),
     Call("GetConversation", "GET", "/conversation/info", FALSE),
     Call("UpdateConversation", "PUT", "/conversation/update", FALSE),
     Call("MarkRead", "POST", "/conversation/mark_read", FALSE),
     Call("GetMaxReadSeq", "GET", "/conversation/max_read_seq", FALSE),
     Call("GetUnreadCount", "GET", "/conversation/unread_count", FALSE)}

Calls == UserCalls \cup ConversationCalls

(* A client: WithToken / SetToken, WithIgnoreAuthHeader / SetIgnoreAuth,   *)
(* and WithInternalAuth (NewInternalClient) with this server's secret and  *)
(* an allowed service name.                                                *)
Clients == [token : {""} \cup Users, ignoreAuth : BOOLEAN, internal : BOOLEAN]

(* WithActAsUser(u, platformId) on a wrapper that takes RequestOptions; a  *)
(* blank u sets nothing, a platformId <= 0 becomes PlatformIdWeb.          *)
ActAsOptions(call) == IF call.opts THEN {""} \cup Users ELSE {""}

(* Mutant: the signature headers are set only when there is no token     *)
(* (an else-if chain).                                                     *)
ApplyAuthHeadersSigOnlyWithoutToken(cl, actAs) ==
    [token |-> IF cl.token = "" THEN "none" ELSE cl.token,
     ignore |-> cl.ignoreAuth,
     sig |-> cl.internal /\ cl.token = "",
     userId |-> actAs,
     platform |-> IF actAs = "" THEN "absent" ELSE "valid"]

(* applyAuthHeaders: Authorization and X-Token carry the token, Ignore-    *)
(* Auth is "1", the internal signature covers the method and the path it  *)
(* was given, and WithActAsUser adds X-User-Id and X-Platform-Id.  No      *)
(* trace header is set.                                                    *)
ApplyAuthHeaders(cl, actAs) ==
    [token |-> IF cl.token = "" THEN "none" ELSE cl.token,
     ignore |-> cl.ignoreAuth,
     sig |-> cl.internal,
     userId |-> actAs,
     platform |-> IF actAs = "" THEN "absent" ELSE "valid"]

(* request / get: the request the server receives.                        *)
SDKRequest(call, cl, actAs) ==
    [method |-> call.method, path |-> call.path,
     cred |-> ApplyAuthHeaders(cl, actAs)]

=============================================================================
