\* Paging three conversations with limits 1 and 2 (0 = default 2; 4 and
\* -1 are rejected) while two sends touch conversations between pages, and
\* paging every dataset reached from the first page with a fixed limit.
CONSTANTS
    NConvs = 3
    InitTime = 2
    MaxTime = 4
    DefaultLimit = 2
    MaxLimit = 3
    LimitInputs <- MCLimitInputs
SPECIFICATION Spec
INVARIANT UntouchedNotSkipped
INVARIANT PagesDescending
INVARIANT StaticPagingComplete
CHECK_DEADLOCK FALSE
