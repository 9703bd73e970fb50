------------------------- MODULE MCConversationPage -------------------------
(* Three conversations, two touches, default limit 2 of at most 3.         *)
EXTENDS ConversationPage

MCLimitInputs == {-1, 0, 1, 4}
=============================================================================
