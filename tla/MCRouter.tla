------------------------------ MODULE MCRouter ------------------------------
EXTENDS Gateway

MCUsers == {"u1", "u2"}

=============================================================================
