----------------------------- MODULE MCHeartbeat -----------------------------
(* spec.md 4.4 defaults in units of 2 s: pong_wait 60 s, ping_period 54 s, *)
(* write_wait 10 s; a round trip of up to 4 s.                             *)
EXTENDS Heartbeat

=============================================================================
