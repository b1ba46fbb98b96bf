----------------------------- MODULE RecordChannel -----------------------------
(***************************************************************************)
(* What record marking promises (RFC 5531 section 11): the records one     *)
(* side sends reach the other whole, once and in the order they were sent. *)
(* A record longer than the limit is never delivered, nor anything after   *)
(* it, and the connection may end at any time.                             *)
(***************************************************************************)
EXTENDS Naturals, Sequences

CONSTANT Limit      \* the longest record that is delivered

VARIABLES
    sent,           \* the records sent so far
    delivered,      \* those that have arrived
    open            \* may more arrive?

Init ==
    /\ sent = <<>>
    /\ delivered = <<>>
    /\ open = TRUE

Send ==
    /\ Len(sent') = Len(sent) + 1
    /\ SubSeq(sent', 1, Len(sent)) = sent
    /\ UNCHANGED <<delivered, open>>

Deliver ==
    /\ open
    /\ Len(delivered) < Len(sent)
    /\ LET next == sent[Len(delivered) + 1]
       IN  /\ Len(next) <= Limit
           /\ delivered' = Append(delivered, next)
    /\ UNCHANGED <<sent, open>>

End ==
    /\ open' = FALSE
    /\ UNCHANGED <<sent, delivered>>

Next == Send \/ Deliver \/ End

Spec == Init /\ [][Next]_<<sent, delivered, open>>
==============================================================================
