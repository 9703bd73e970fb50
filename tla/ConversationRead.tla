-------------------------- MODULE ConversationRead --------------------------
(***************************************************************************)
(* Read state of one conversation: max_seq (seq_conversations), read_seq  *)
(* per member (seq_users), and the read handlers.                          *)
(*                                                                         *)
(*  - ConversationService.MarkRead stores read_seq through                 *)
(*    SeqRepo.UpdateReadSeq (repository not in src/: spec.md 4.3,         *)
(*    read_seq = max(current, min(seq, max_seq)));                         *)
(*  - ConversationService.GetMaxReadSeq reads seq_conversations, THEN in a *)
(*    separate query seq_users (a missing row reads as 0); the handlers    *)
(*    GetMaxReadSeq and GetUnreadCount compute unread = max(0, max - read),*)
(*    GetUnreadCount with the caller's read_seq unless it is 0;            *)
(*  - ConversationService.GetConversation reads the owner's row, then     *)
(*    seq_conversations, then seq_users, and replies the same way;         *)
(*  - a send allocates the next seq (spec.md 4.1/4.5, MessageService is   *)
(*    not in src/).                                                        *)
(* Each handler is two steps, one per query, so sends and MarkReads of the *)
(* same user may run between them.  A seq query may fail: GetMaxReadSeq   *)
(* returns the error of the max_seq query, but discards the error of the  *)
(* read_seq query, and GetConversation discards both.                      *)
(***************************************************************************)
EXTENDS Integers

CONSTANTS
    Users,        \* members of the conversation
    MaxSeqBound,  \* bound on sends (max_seq)
    SeqInputs,    \* read_seq values a client may send (any int64 in the code)
    SeqQueriesFail \* the seq repository's queries may return an error

ASSUME /\ MaxSeqBound \in Nat
       /\ SeqInputs \subseteq Int /\ 0 \in SeqInputs
       /\ SeqQueriesFail \in BOOLEAN

NoResp == [kind |-> "none", max |-> 0, read |-> 0, unread |-> 0]
Kinds == {"maxread", "unread", "info"}

VARIABLES
    maxSeq,    \* seq_conversations.max_seq
    readSeq,   \* seq_users.read_seq per user (0 when there is no row)
    q,         \* per user: the handler in flight between its two queries
    resp       \* per user: the last response returned

vars == <<maxSeq, readSeq, q, resp>>

Init ==
    /\ maxSeq = 0
    /\ readSeq = [u \in Users |-> 0]
    /\ q = [u \in Users |-> [pc |-> "idle", kind |-> "none", arg |-> 0, max |-> 0]]
    /\ resp = [u \in Users |-> NoResp]

(* unreadCount := maxSeq - readSeq; if unreadCount < 0 { unreadCount = 0 } *)
ClampZero(x) == IF x < 0 THEN 0 ELSE x

(* Outcomes of one seq query: its result, or (when queries may fail) an   *)
(* error.                                                                  *)
QueryOk == IF SeqQueriesFail THEN BOOLEAN ELSE {TRUE}

-----------------------------------------------------------------------------
(* A successful send: the allocator hands out max_seq + 1.                 *)
SendMessage ==
    /\ maxSeq < MaxSeqBound
    /\ maxSeq' = maxSeq + 1
    /\ UNCHANGED <<readSeq, q, resp>>

(* SeqRepo.UpdateReadSeq: never lowers read_seq, never above max_seq.      *)
UpdateReadSeq(u, s) ==
    LET capped == IF s < maxSeq THEN s ELSE maxSeq
    IN readSeq' = [readSeq EXCEPT ![u] = IF capped > @ THEN capped ELSE @]

(* POST /conversation/mark_read -> ConversationService.MarkRead.           *)
MarkRead(u, s) ==
    /\ UpdateReadSeq(u, s)
    /\ UNCHANGED <<maxSeq, q, resp>>

(* GET /conversation/max_read_seq or /unread_count: the handler parses    *)
(* read_seq (unread_count; a parse error gives 0), then GetMaxReadSeq     *)
(* queries GetConversationSeqInfo; on an error the handler replies with    *)
(* it.                                                                     *)
ReadMaxSeq(u, kind, r) ==
    /\ q[u].pc = "idle"
    /\ \E ok \in QueryOk :
         IF ok THEN /\ q' = [q EXCEPT ![u] = [pc |-> "max", kind |-> kind, arg |-> r, max |-> maxSeq]]
                    /\ UNCHANGED resp
               ELSE /\ resp' = [resp EXCEPT ![u] = [NoResp EXCEPT !.kind = "error"]]
                    /\ UNCHANGED q
    /\ UNCHANGED <<maxSeq, readSeq>>

(* GET /conversation/info: GetConversation reads the owner's row (which   *)
(* sends do not change here; a failed read is ErrInternalServer), then     *)
(* max_seq with the error discarded: a failed query reads as 0.            *)
GetConversation(u) ==
    /\ q[u].pc = "idle"
    /\ \E rowOk \in QueryOk, ok \in QueryOk :
         IF rowOk
         THEN /\ q' = [q EXCEPT ![u] = [pc |-> "max", kind |-> "info", arg |-> 0,
                                        max |-> IF ok THEN maxSeq ELSE 0]]
              /\ UNCHANGED resp
         ELSE /\ resp' = [resp EXCEPT ![u] = [NoResp EXCEPT !.kind = "error"]]
              /\ UNCHANGED q
    /\ UNCHANGED <<maxSeq, readSeq>>

(* GetUnreadCount: the caller's read_seq, unless it is 0 (not given), in   *)
(* which case the stored one GetMaxReadSeq returned.                       *)
ReadSeqUsed(h, stored) == IF h.kind = "unread" /\ h.arg # 0 THEN h.arg ELSE stored

(* The second query, seqRepo.GetSeqUser, reads read_seq; its error is      *)
(* discarded (seqUser, _ :=), so a failed query reads as 0, like a missing *)
(* row.  The handler replies with unread = max(0, max_seq - read_seq).     *)
Reply(u) ==
    /\ q[u].pc = "max"
    /\ \E ok \in QueryOk :
         LET read == ReadSeqUsed(q[u], IF ok THEN readSeq[u] ELSE 0)
         IN resp' = [resp EXCEPT ![u] = [kind |-> q[u].kind, max |-> q[u].max,
                       read |-> read, unread |-> ClampZero(q[u].max - read)]]
    /\ q' = [q EXCEPT ![u] = [pc |-> "idle", kind |-> "none", arg |-> 0, max |-> 0]]
    /\ UNCHANGED <<maxSeq, readSeq>>

Next ==
    \/ SendMessage
    \/ \E u \in Users, s \in SeqInputs : MarkRead(u, s)
    \/ \E u \in Users, k \in {"maxread", "unread"}, r \in SeqInputs :
          (k = "maxread" => r = 0) /\ ReadMaxSeq(u, k, r)
    \/ \E u \in Users : GetConversation(u)
    \/ \E u \in Users : Reply(u)

Spec == Init /\ [][Next]_vars

-----------------------------------------------------------------------------
(* spec.md 4.3 (unread = max_seq - read_seq): a reply built from the       *)
(* stored read_seq never reports more unread messages than the member has  *)
(* when it is sent.  Reading max_seq before read_seq keeps the count from  *)
(* being overstated by concurrent sends and mark_reads; the discarded      *)
(* GetSeqUser error (part_002:231) does not.                              *)
UnreadNotOverstated ==
    [][\A u \in Users :
         (q[u].pc = "max" /\ q'[u].pc = "idle" /\ q[u].arg = 0)
            => resp'[u].unread <= maxSeq' - readSeq'[u]]_vars

(* spec.md 3 (read_seq <= max_seq) as seen by a client: the pair a       *)
(* max_read_seq or conversation info reply reports satisfies it.           *)
ReplyReadNotAboveMax ==
    \A u \in Users : resp[u].kind \in {"maxread", "info"} => resp[u].read <= resp[u].max

=============================================================================
