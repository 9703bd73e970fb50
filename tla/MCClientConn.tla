---------------------------- MODULE MCClientConn ----------------------------
(* Model-checking instance of ClientConn: two producers racing Close and   *)
(* writeLoop over a write channel of capacity 2.                           *)
EXTENDS ClientConn

CONSTANTS p1, p2

MCProducers == {p1, p2}
=============================================================================
