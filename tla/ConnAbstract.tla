---------------------------- MODULE ConnAbstract ----------------------------
(***************************************************************************)
(* What a connection promises the code that pushes to it (spec.md 4.4,     *)
(* "single-writer per connection"): messages it accepts are written to the *)
(* socket one at a time in the order accepted; it accepts nothing once     *)
(* closed; and when its writer breaks, writing stops -- the message being  *)
(* written may be lost, the rest stay queued and are never written.        *)
(***************************************************************************)
EXTENDS Sequences

CONSTANT Msgs

VARIABLES
    queue,       \* accepted, not yet written
    delivered,   \* written to the socket, in order
    open,        \* still accepting
    broken       \* the writer has stopped

vars == <<queue, delivered, open, broken>>

Init ==
    /\ queue = <<>> /\ delivered = <<>>
    /\ open = TRUE /\ broken = FALSE

Accept(m) ==
    /\ open
    /\ queue' = Append(queue, m)
    /\ UNCHANGED <<delivered, open, broken>>

Deliver ==
    /\ ~broken /\ queue # <<>>
    /\ delivered' = Append(delivered, Head(queue))
    /\ queue' = Tail(queue)
    /\ UNCHANGED <<open, broken>>

Close ==
    /\ open
    /\ open' = FALSE
    /\ UNCHANGED <<queue, delivered, broken>>

Break ==
    /\ ~broken
    /\ broken' = TRUE
    /\ queue' \in {queue} \cup (IF queue = <<>> THEN {} ELSE {Tail(queue)})
    /\ UNCHANGED <<delivered, open>>

Next == (\E m \in Msgs : Accept(m)) \/ Deliver \/ Close \/ Break

Spec == Init /\ [][Next]_vars

=============================================================================
