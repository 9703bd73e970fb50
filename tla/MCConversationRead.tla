------------------------- MODULE MCConversationRead -------------------------
(* Model-checking instance of ConversationRead: the two members of a      *)
(* single chat, two sends, and mark_read / read_seq inputs that include  *)
(* a negative value, zero, in-range values and one above max_seq.          *)
EXTENDS ConversationRead

CONSTANTS a, b

MCUsers == {a, b}
MCSeqInputs == {-1, 0, 1, 3}
=============================================================================
