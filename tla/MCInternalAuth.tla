--------------------------- MODULE MCInternalAuth ---------------------------
(* int64 as 5 bits (-16..15), clock 0..2, skew 3.  An SDK caller with an   *)
(* exact clock or one 4 s ahead; another caller that sends -15 (now - ts   *)
(* wraps at now = 1) or 20 (out of range for ParseInt).                    *)
EXTENDS InternalAuth

MCServices == {"svcA", "svcB"}
MCOps == {"op1", "op2"}
MCSDKDrifts == {0, 4}
MCRawTimestamps == {-15, 20}
MCUserIds == {"", "u1"}
MCPlatformIds == {-1, 0, 3}
=============================================================================
