-------------------------- MODULE ConversationPage --------------------------
(***************************************************************************)
(* Cursor pagination of a user's conversation list, while sends touch the  *)
(* listed conversations between two pages.                                 *)
(*                                                                         *)
(*  - ConversationHandler.GetConversationList validates limit and cursor;  *)
(*  - ConversationService.GetUserConversationsPage clamps the limit,       *)
(*    fetches limit+1 rows, derives has_more, truncates, and takes the     *)
(*    last row as next cursor;                                             *)
(*  - ConversationRepo.GetUserConversationsWithSeqPage and the touch of a  *)
(*    send are not in src/: spec.md 4.3 gives the order (updated_at DESC,  *)
(*    conversation_id DESC) and the cursor predicate.                      *)
(* Conversation ids are numbers standing for the id strings in their       *)
(* order; cursor_updated_at 0 and cursor_conversation_id "" are 0.         *)
(***************************************************************************)
EXTENDS Integers, Sequences, SequencesExt

CONSTANTS
    NConvs,        \* conversations of the user
    InitTime,      \* updated_at values before the listing starts: 1..InitTime
    MaxTime,       \* bound on the clock that touches advance
    DefaultLimit,  \* DefaultConversationListLimit (20 in the code)
    MaxLimit,      \* MaxConversationListLimit (100 in the code)
    LimitInputs    \* limit values a client may send

ASSUME /\ NConvs \in Nat \ {0} /\ InitTime \in Nat \ {0} /\ MaxTime >= InitTime
       /\ DefaultLimit \in 1..MaxLimit
       /\ LimitInputs \subseteq Int

Convs == 1..NConvs
Key == [t : 0..MaxTime, id : 0..NConvs]
NoCursor == [t |-> 0, id |-> 0]
(* Cursors a client may send that the handler must reject.                 *)
MalformedCursors == {[t |-> 1, id |-> 0], [t |-> 0, id |-> 1]}

VARIABLES
    updated,    \* conversations.updated_at per conversation
    now,        \* the clock a send stamps updated_at with
    cursor,     \* next_cursor the client holds
    collected,  \* rows returned so far, as [id, t] at the time of the page
    paging,     \* "paging" while has_more was true, then "done"
    resp,       \* outcome of the last request: "none", "ok", "invalid"
    start       \* updated_at when the listing started (history)

vars == <<updated, now, cursor, collected, paging, resp, start>>

Init ==
    /\ updated \in [Convs -> 1..InitTime]
    /\ now = InitTime
    /\ cursor = NoCursor
    /\ collected = <<>>
    /\ paging = "paging"
    /\ resp = "none"
    /\ start = updated

-----------------------------------------------------------------------------
(* Mutant: ORDER BY updated_at DESC, conversation_id ASC.                  *)
BeforeAscendingTieBreak(a, b) == a.t > b.t \/ (a.t = b.t /\ a.id < b.id)

(* ORDER BY updated_at DESC, conversation_id DESC.                         *)
Before(a, b) == a.t > b.t \/ (a.t = b.t /\ a.id > b.id)

(* The cursor predicate; no cursor means the first page.                   *)
AfterCursor(r, cur) ==
    cur = NoCursor \/ r.t < cur.t \/ (r.t = cur.t /\ r.id < cur.id)

Rows == {[id |-> c, t |-> updated[c]] : c \in Convs}

TakeFirst(s, n) == SubSeq(s, 1, IF n < Len(s) THEN n ELSE Len(s))

(* GetUserConversationsWithSeqPage(userId, n, cursor): the first n rows    *)
(* after the cursor in list order.                                         *)
GetUserConversationsWithSeqPage(n, cur) ==
    TakeFirst(SetToSortSeq({r \in Rows : AfterCursor(r, cur)}, Before), n)

(* limit <= 0 becomes the default, limit above the maximum the maximum.    *)
ClampLimit(l) ==
    IF l <= 0 THEN DefaultLimit ELSE IF l > MaxLimit THEN MaxLimit ELSE l

(* Mutant: next_cursor taken from the extra (limit+1-th) row.              *)
PageCursorFromExtraRow(l, cur) ==
    LET lim == ClampLimit(l)
        rows == GetUserConversationsWithSeqPage(lim + 1, cur)
        hasMore == Len(rows) > lim
        list == IF hasMore THEN SubSeq(rows, 1, lim) ELSE rows
    IN [list |-> list, hasMore |-> hasMore,
        next |-> IF hasMore THEN [t |-> rows[lim + 1].t, id |-> rows[lim + 1].id]
                 ELSE NoCursor]

(* Mutant: has_more computed after the rows were truncated to limit.       *)
PageHasMoreAfterTruncate(l, cur) ==
    LET lim == ClampLimit(l)
        rows == TakeFirst(GetUserConversationsWithSeqPage(lim + 1, cur), lim)
        hasMore == Len(rows) > lim
    IN [list |-> rows, hasMore |-> hasMore,
        next |-> IF hasMore /\ Len(rows) > 0
                 THEN [t |-> Last(rows).t, id |-> Last(rows).id] ELSE NoCursor]

(* GetUserConversationsPage: fetch limit+1, has_more, truncate, cursor.    *)
Page(l, cur) ==
    LET lim == ClampLimit(l)
        rows == GetUserConversationsWithSeqPage(lim + 1, cur)
        hasMore == Len(rows) > lim
        list == IF hasMore THEN SubSeq(rows, 1, lim) ELSE rows
    IN [list |-> list, hasMore |-> hasMore,
        next |-> IF hasMore /\ Len(list) > 0
                 THEN [t |-> Last(list).t, id |-> Last(list).id] ELSE NoCursor]

(* The handler's checks on limit and on the two cursor fields.             *)
ValidRequest(l, cur) ==
    /\ l >= 0 /\ l <= MaxLimit
    /\ ~(cur.t > 0 /\ cur.id = 0)
    /\ ~(cur.id # 0 /\ cur.t <= 0)

-----------------------------------------------------------------------------
(* GET /conversation/list?limit=l&cursor_...: an invalid request answers   *)
(* InvalidParam; a valid one returns the page and its next cursor.         *)
GetConversationList(l, cur) ==
    /\ paging = "paging"
    /\ \/ /\ ~ValidRequest(l, cur)
          /\ resp' = "invalid"
          /\ UNCHANGED <<updated, now, cursor, collected, paging, start>>
       \/ /\ ValidRequest(l, cur)
          /\ LET p == Page(l, cur)
             IN /\ collected' = collected \o p.list
                /\ cursor' = p.next
                /\ paging' = IF p.hasMore THEN "paging" ELSE "done"
          /\ resp' = "ok"
          /\ UNCHANGED <<updated, now, start>>

(* A send to conversation c stamps its updated_at with the send time.      *)
Touch(c) ==
    /\ now < MaxTime
    /\ now' = now + 1
    /\ updated' = [updated EXCEPT ![c] = now + 1]
    /\ UNCHANGED <<cursor, collected, paging, resp, start>>

Next ==
    \/ \E l \in LimitInputs, cur \in {cursor} \cup MalformedCursors :
          GetConversationList(l, cur)
    \/ \E c \in Convs : Touch(c)

Spec == Init /\ [][Next]_vars

-----------------------------------------------------------------------------
CollectedIds == [i \in DOMAIN collected |-> collected[i].id]

(* spec.md 8.6, for the rows the sends left alone: when has_more turns     *)
(* false, every conversation whose updated_at did not change during the    *)
(* listing has been returned on some page.                                 *)
UntouchedNotSkipped ==
    paging = "done" =>
        \A c \in Convs : updated[c] = start[c] => c \in ToSet(CollectedIds)

(* spec.md 4.3: the pages, concatenated, are in (updated_at DESC,          *)
(* conversation_id DESC) order of the keys they were returned with.        *)
ListOrder(a, b) == a.t > b.t \/ (a.t = b.t /\ a.id > b.id)
PagesDescending == IsSorted(collected, ListOrder)

(* Following next_cursor from the first page with a fixed limit, until     *)
(* has_more is false, over the current (static) dataset.                   *)
RECURSIVE ListAll(_, _)
ListAll(l, cur) ==
    LET p == Page(l, cur)
    IN IF p.hasMore THEN p.list \o ListAll(l, p.next) ELSE p.list

(* spec.md 8.6 and S5: over a static dataset, concatenating all pages with *)
(* any valid limit gives exactly the full ordered list.                    *)
StaticPagingComplete ==
    \A l \in LimitInputs \cap 0..MaxLimit :
        ListAll(l, NoCursor) = SetToSortSeq(Rows, ListOrder)
=============================================================================
