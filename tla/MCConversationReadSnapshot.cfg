\* Two users, max_seq up to 2, client read_seq inputs {-1, 0, 1, 3}: a
\* negative value, the "not given" 0, an in-range value and one above any
\* max_seq.  Seq queries succeed.  Checks that a max_read_seq or info reply
\* never reports read_seq above max_seq (spec.md 3).  Users can always
\* issue another request: no terminal state.
CONSTANTS
    a = a
    b = b
    Users <- MCUsers
    SeqInputs <- MCSeqInputs
    MaxSeqBound = 2
    SeqQueriesFail = FALSE
SPECIFICATION Spec
INVARIANT ReplyReadNotAboveMax
