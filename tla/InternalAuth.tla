---------------------------- MODULE InternalAuth ----------------------------
(***************************************************************************)
(* Service-to-service authentication of /internal/* requests              *)
(* (internal/middleware/internal_auth.go), with the SDK that signs them    *)
(* (Client.applyAuthHeaders and signInternalRequest), other holders of the *)
(* secret that set X-Timestamp themselves, and an attacker on the network  *)
(* who replays captured requests, changes what they ask for, or signs with *)
(* a wrong key.  The server clock advances between requests.               *)
(*                                                                         *)
(* Abstractions: the HMAC over "svc\nts\nMETHOD\npath\nsha256(body)" is    *)
(* the record of what it covers and of the key that made it; method, path  *)
(* and body are one operation value.  int64 is an integer of Width bits    *)
(* with Go's wrap-around.  An empty or non-numeric X-Timestamp fails      *)
(* ParseInt like an out-of-range one, so only out-of-range ints are kept.  *)
(***************************************************************************)
EXTENDS Integers

CONSTANTS
    Width,           \* bits of int64 in the model
    MaxSkew,         \* cfg.InternalAuth.MaxSkewSeconds
    MaxNow,          \* bound on the server clock (time.Now().Unix())
    Services,        \* service names (strings; "" is a missing header)
    Ops,             \* method, path and body of a request
    SDKDrifts,       \* offsets of an SDK caller's clock from the server's
    RawTimestamps,   \* X-Timestamp values other secret holders may send
    UserIds,         \* X-User-Id values ("" is missing)
    PlatformIds      \* X-Platform-Id values (0 stands for a missing header)

MinInt == -(2 ^ (Width - 1))
MaxInt == 2 ^ (Width - 1) - 1
(* Go's two's-complement int64 arithmetic.                                 *)
Wrap(x) == ((x - MinInt) % (2 ^ Width)) + MinInt

ASSUME /\ Width \in Nat \ {0} /\ MaxSkew \in 0..MaxInt /\ MaxNow \in 0..MaxInt
       /\ "" \notin Services /\ "" \in UserIds

Configs == [enabled : BOOLEAN, secretSet : BOOLEAN, allowed : SUBSET Services]
Routes == {"internal", "asUser"}
Sig(by, svc, ts, op) == [by |-> by, svc |-> svc, ts |-> ts, op |-> op]
DefaultPlatformId == 5

VARIABLES
    cfg,       \* config.GlobalConfig.InternalAuth
    now,       \* server clock
    last,      \* the last request a middleware let through, with time and context
    outcome    \* result of the last request: "none", "ok" or an errcode

vars == <<cfg, now, last, outcome>>

NoneAccepted == [svc |-> "", ts |-> 0, op |-> "none", sig |-> Sig("none", "", 0, "none"),
                 at |-> 0, route |-> "none", user |-> "", pid |-> 0]

Init ==
    /\ cfg \in Configs
    /\ now = 0
    /\ last = NoneAccepted
    /\ outcome = "none"

-----------------------------------------------------------------------------
(* Mutant: the payload leaves out method, path and body.                   *)
SignInternalRequestNoOp(by, svc, ts, op) == Sig(by, svc, ts, "any")

(* signInternalRequest: HMAC over service, timestamp, method, path, body.  *)
SignInternalRequest(by, svc, ts, op) == Sig(by, svc, ts, op)

(* isServiceAllowed: an empty list allows every service.                   *)
IsServiceAllowed(svc, allowed) == allowed = {} \/ svc \in allowed

(* absInt64: -v of the most negative int64 is itself.                      *)
AbsInt64(v) == IF v < 0 THEN Wrap(-v) ELSE v

(* validateInternalRequest: the errcode, or "ok".                          *)
ValidateInternalRequest(r) ==
    IF ~cfg.enabled \/ ~cfg.secretSet THEN "Forbidden"
    ELSE IF r.svc = "" THEN "Unauthorized"
    ELSE IF ~IsServiceAllowed(r.svc, cfg.allowed) THEN "Forbidden"
    ELSE IF r.ts < MinInt \/ r.ts > MaxInt THEN "Unauthorized"
    ELSE IF AbsInt64(Wrap(now - r.ts)) > MaxSkew THEN "Unauthorized"
    ELSE IF r.sig # SignInternalRequest("secret", r.svc, r.ts, r.op)
         THEN "Unauthorized"
    ELSE "ok"

(* InternalAuthAsUser after validation: X-User-Id is required, and         *)
(* X-Platform-Id, when given, must be a positive integer.                  *)
AsUserCheck(user, pid) ==
    IF user = "" THEN "Unauthorized"
    ELSE IF pid < 0 THEN "InvalidParam"
    ELSE "ok"

(* A request signed by the holder of the secret.                           *)
Genuine(svc, ts, op) ==
    [svc |-> svc, ts |-> ts, op |-> op,
     sig |-> SignInternalRequest("secret", svc, ts, op)]

(* InternalAuth() / InternalAuthAsUser() handle one request.               *)
HandleRequest(r, route, user, pid) ==
    LET v == ValidateInternalRequest(r)
        res == IF v = "ok" /\ route = "asUser" THEN AsUserCheck(user, pid) ELSE v
    IN /\ outcome' = res
       /\ last' = IF res = "ok"
            THEN [svc |-> r.svc, ts |-> r.ts, op |-> r.op, sig |-> r.sig,
                  at |-> now, route |-> route,
                  user |-> IF route = "asUser" THEN user ELSE "",
                  pid |-> IF route = "asUser"
                          THEN (IF pid = 0 THEN DefaultPlatformId ELSE pid)
                          ELSE 0]
            ELSE last
       /\ UNCHANGED <<cfg, now>>

-----------------------------------------------------------------------------
(* The server clock advances.                                              *)
Tick ==
    /\ now < MaxNow
    /\ now' = now + 1
    /\ UNCHANGED <<cfg, last, outcome>>

(* Client.applyAuthHeaders with WithInternalAuth (and WithActAsUser):      *)
(* X-Timestamp is the caller's own clock, the signature covers this        *)
(* request.                                                                *)
SDKRequest(svc, drift, op, route, user, pid) ==
    HandleRequest(Genuine(svc, now + drift, op), route, user, pid)

(* Another holder of the secret signs with a timestamp of its choosing.    *)
OtherCallerRequest(svc, ts, op, route, user, pid) ==
    HandleRequest(Genuine(svc, ts, op), route, user, pid)

(* What an attacker without the secret can send: any request a holder     *)
(* could have signed, replayed, or with another operation under the old   *)
(* signature, or signed with a wrong key.                                  *)
Captured ==
    {Genuine(s, t, o) : s \in Services, o \in Ops,
                        t \in {n + d : n \in 0..MaxNow, d \in SDKDrifts} \cup RawTimestamps}
Tampered == {[r EXCEPT !.op = o] : r \in Captured, o \in Ops}
Forged ==
    {[svc |-> s, ts |-> 0, op |-> o, sig |-> Sig("attacker", s, 0, o)] :
        s \in Services \cup {""}, o \in Ops}

AttackerRequest(r, route, user, pid) == HandleRequest(r, route, user, pid)

Next ==
    \/ Tick
    \/ \E s \in Services, d \in SDKDrifts, o \in Ops, rt \in Routes,
          u \in UserIds, p \in PlatformIds : SDKRequest(s, d, o, rt, u, p)
    \/ \E s \in Services, t \in RawTimestamps, o \in Ops, rt \in Routes,
          u \in UserIds, p \in PlatformIds : OtherCallerRequest(s, t, o, rt, u, p)
    \/ \E r \in Tampered \cup Forged, rt \in Routes, u \in UserIds, p \in PlatformIds :
          AttackerRequest(r, rt, u, p)

Spec == Init /\ [][Next]_vars

-----------------------------------------------------------------------------
(* spec.md 6 (internal signature): a request gets through InternalAuth or  *)
(* InternalAuthAsUser only when internal auth is enabled with a secret, the*)
(* service is allow-listed, and the holder of the secret signed exactly    *)
(* this service, timestamp, method, path and body: a captured request     *)
(* altered in any of them, or a request signed with another key, never    *)
(* gets through.  An exact replay is accepted while its timestamp is      *)
(* within MaxSkew (neither code nor spec.md has a nonce).  As-user         *)
(* requests carry a user id and a positive platform id; a missing         *)
(* X-Platform-Id header parses as 0.                                       *)
AcceptedOnlyAuthorized ==
    last.route # "none" =>
        /\ cfg.enabled /\ cfg.secretSet
        /\ cfg.allowed = {} \/ last.svc \in cfg.allowed
        /\ last.sig = Sig("secret", last.svc, last.ts, last.op)
        /\ last.route = "asUser" => last.user # "" /\ last.pid > 0

(* spec.md 6: a request is rejected if its timestamp is more than          *)
(* MaxSkewSeconds from the server clock, so a captured request can only be *)
(* replayed within that window.                                            *)
AcceptedWithinSkew ==
    last.route # "none" => last.at - last.ts \in -MaxSkew..MaxSkew

=============================================================================
