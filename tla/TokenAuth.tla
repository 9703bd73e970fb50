----------------------------- MODULE TokenAuth ------------------------------
(***************************************************************************)
(* User authentication of HTTP requests (internal/middleware/auth.go):     *)
(* JWTAuth with the TEST-environment bypass, extractToken's header         *)
(* precedence, and ParseTokenWithFallback; and jwt.ParseMultiIssuer        *)
(* (src/unnamed/part_005), a second multi-issuer verifier.                 *)
(*                                                                         *)
(* A token is the record of who signed it, its issuer claim, its claim    *)
(* layout, the user and platform it names, and whether it has expired.    *)
(* jwt.ParseToken and jwt.ParseExternalToken are not in src/: they accept  *)
(* a token signed with their secret that has not expired (spec.md 6).      *)
(* Header values are their kinds after strings.TrimSpace.                  *)
(***************************************************************************)
EXTENDS Integers

CONSTANTS
    Users,               \* user ids a token may name
    PlatformClaims,      \* platform ids in native tokens
    ExtDefaultPlatformId,\* cfg.ExternalJWT.DefaultPlatformId
    WebPlatformId        \* the Web platform (5: InternalAuthAsUser's default)

Signers == {"nexo", "external", "attacker"}
Tokens == [signer : Signers, iss : {"nexo", "external-system"},
           layout : {"nexo", "external"}, user : Users, pid : PlatformClaims,
           exp : BOOLEAN]
NoToken == [signer |-> "none", iss |-> "none", layout |-> "none", user |-> "",
            pid |-> 0, exp |-> FALSE]
(* Authorization header kinds after TrimSpace: absent, "Bearer <t>",       *)
(* "Bearer" followed only by blanks (trimmed to "Bearer"), another scheme.  *)
AuthHeaders ==
    {[kind |-> "none", tok |-> NoToken], [kind |-> "bearerBlank", tok |-> NoToken],
     [kind |-> "malformed", tok |-> NoToken]}
    \cup {[kind |-> "bearer", tok |-> t] : t \in Tokens}
Outcomes == {"none", "ok", "TokenMissing", "TokenInvalid"}
NoAuth == [route |-> "none", user |-> "", pid |-> 0, tok |-> NoToken]

VARIABLES
    cfg,      \* INFRA_ENV = TEST, and cfg.ExternalJWT.Enabled
    last,     \* the context of the last request JWTAuth let through
    outcome   \* result of the last request

vars == <<cfg, last, outcome>>

Init ==
    /\ cfg \in [testEnv : BOOLEAN, extEnabled : BOOLEAN]
    /\ last = NoAuth
    /\ outcome = "none"

-----------------------------------------------------------------------------
(* jwt.ParseToken(t, cfg.JWT.Secret).                                      *)
ParseToken(t) ==
    [ok |-> t.signer = "nexo" /\ t.layout = "nexo" /\ ~t.exp,
     user |-> t.user, pid |-> t.pid]

(* jwt.ParseExternalToken(t, secret, role, DefaultPlatformId).             *)
ParseExternalToken(t) ==
    [ok |-> t.signer = "external" /\ ~t.exp, user |-> t.user,
     pid |-> ExtDefaultPlatformId]

(* Mutant: the external fallback is tried whatever the configuration.      *)
ParseTokenWithFallbackIgnoresEnabled(t) ==
    IF ParseToken(t).ok THEN ParseToken(t) ELSE ParseExternalToken(t)

(* ParseTokenWithFallback: native first, then external when enabled.       *)
ParseTokenWithFallback(t) ==
    IF ParseToken(t).ok THEN ParseToken(t)
    ELSE IF cfg.extEnabled THEN ParseExternalToken(t)
    ELSE ParseToken(t)

(* extractToken.  "Bearer <t>" gives t; any other Authorization value      *)
(* falls back to X-Token; with no Authorization, X-Token or TokenMissing.  *)
(* The empty-token branch after "Bearer " cannot be reached: TrimSpace has *)
(* already removed the blank after "Bearer".                               *)
ExtractToken(auth, xtok) ==
    IF auth.kind # "none"
    THEN IF auth.kind = "bearer" THEN [err |-> "", tok |-> auth.tok]
         ELSE IF xtok # NoToken THEN [err |-> "", tok |-> xtok]
         ELSE [err |-> "TokenInvalid", tok |-> NoToken]
    ELSE IF xtok = NoToken THEN [err |-> "TokenMissing", tok |-> NoToken]
    ELSE [err |-> "", tok |-> xtok]

(* Mutant: a token that does not parse answers Unauthorized.               *)
JWTAuthWrongErrcode(auth, xtok, ignore) ==
    IF cfg.testEnv /\ ignore
    THEN /\ last' = [NoAuth EXCEPT !.route = "bypass"] /\ outcome' = "ok"
    ELSE LET e == ExtractToken(auth, xtok)
             p == ParseTokenWithFallback(e.tok)
         IN IF e.err # "" THEN outcome' = e.err /\ last' = last
            ELSE IF ~p.ok THEN outcome' = "Unauthorized" /\ last' = last
            ELSE /\ outcome' = "ok"
                 /\ last' = [route |-> "jwt", user |-> p.user, pid |-> p.pid,
                             tok |-> e.tok]

(* JWTAuth: the Ignore-Auth bypass in TEST, then extract, then parse; on   *)
(* success user_id and platform_id go into the request context.            *)
JWTAuth(auth, xtok, ignore) ==
    IF cfg.testEnv /\ ignore
    THEN /\ last' = [NoAuth EXCEPT !.route = "bypass"] /\ outcome' = "ok"
    ELSE LET e == ExtractToken(auth, xtok)
             p == ParseTokenWithFallback(e.tok)
         IN IF e.err # "" THEN outcome' = e.err /\ last' = last
            ELSE IF ~p.ok THEN outcome' = "TokenInvalid" /\ last' = last
            ELSE /\ outcome' = "ok"
                 /\ last' = [route |-> "jwt", user |-> p.user, pid |-> p.pid,
                             tok |-> e.tok]

(* An HTTP request through the JWTAuth middleware.                         *)
Request(auth, xtok, ignore) ==
    /\ JWTAuth(auth, xtok, ignore)
    /\ UNCHANGED cfg

(* jwt.ParseMultiIssuer: native first; otherwise the key is chosen by the  *)
(* token's unverified issuer claim, and the claims become native ones with *)
(* platform 1.                                                             *)
ParseMultiIssuer(t) ==
    IF ParseToken(t).ok THEN ParseToken(t)
    ELSE LET key == IF t.iss = "external-system" THEN "external" ELSE "nexo"
         IN [ok |-> t.signer = key /\ ~t.exp, user |-> t.user, pid |-> 1]

(* A caller verifies a token with jwt.ParseMultiIssuer (exported; no      *)
(* caller in src/ yet).                                                    *)
MultiIssuerRequest(t) ==
    LET p == ParseMultiIssuer(t)
    IN /\ outcome' = IF p.ok THEN "ok" ELSE "TokenInvalid"
       /\ last' = IF p.ok THEN [route |-> "multi", user |-> p.user, pid |-> p.pid,
                                tok |-> t]
                  ELSE last
       /\ UNCHANGED cfg

Next ==
    \E auth \in AuthHeaders, x \in Tokens \cup {NoToken}, ig \in BOOLEAN :
        Request(auth, x, ig)
    \/ \E t \in Tokens : MultiIssuerRequest(t)

Spec == Init /\ [][Next]_vars

-----------------------------------------------------------------------------
TypeOK ==
    /\ cfg \in [testEnv : BOOLEAN, extEnabled : BOOLEAN]
    /\ last \in [route : {"none", "bypass", "jwt", "multi"}, user : Users \cup {""},
                 pid : Nat, tok : Tokens \cup {NoToken}]
    /\ outcome \in Outcomes

(* spec.md 6: JWTAuth lets a request through only with the Ignore-Auth     *)
(* bypass in the TEST environment, or with an unexpired token signed by    *)
(* the native secret in the native layout, whose user and platform become  *)
(* the context -- or, with the external fallback enabled, one signed by    *)
(* the external secret, with the configured default platform.  This must   *)
(* hold whichever of Authorization and X-Token carries which token.        *)
(* jwt.ParseMultiIssuer, which picks the key from the unverified issuer    *)
(* claim, accepts only unexpired tokens signed with the key of that issuer.*)
AuthenticatedOnlyWithValidToken ==
    /\ last.route = "bypass" => cfg.testEnv
    /\ last.route = "jwt" =>
         /\ ~last.tok.exp
         /\ last.user = last.tok.user
         /\ \/ /\ last.tok.signer = "nexo" /\ last.tok.layout = "nexo"
               /\ last.pid = last.tok.pid
            \/ /\ cfg.extEnabled /\ last.tok.signer = "external"
               /\ last.pid = ExtDefaultPlatformId
    /\ last.route = "multi" =>
         /\ ~last.tok.exp
         /\ last.user = last.tok.user
         /\ \/ last.tok.signer = "nexo"
            \/ last.tok.signer = "external" /\ last.tok.iss = "external-system"

=====
