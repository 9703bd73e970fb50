------------------------------ MODULE MCServer ------------------------------
EXTENDS Server

MCSessions == {"s1", "s2"}
MCHttpReqs == {"r1", "r2"}

=============================================================================
