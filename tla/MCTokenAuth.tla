---------------------------- MODULE MCTokenAuth -----------------------------
(* Two users, one platform claim (2); the external default platform is Web.   *)
EXTENDS TokenAuth

CONSTANTS u1, u2
MCUsers == {u1, u2}
=============================================================================
