\* Same instance with seq queries that may fail.  GetMaxReadSeq discards
\* the error of the read_seq query (part_002:231), so a reply built from
\* the stored read_seq can report more unread messages than there are.
CONSTANTS
    a = a
    b = b
    Users <- MCUsers
    SeqInputs <- MCSeqInputs
    MaxSeqBound = 2
    SeqQueriesFail = TRUE
SPECIFICATION Spec
PROPERTY UnreadNotOverstated
