--------------------------- MODULE MessageChannel ---------------------------
(***************************************************************************)
(* What a KDX connection promises of the messages in one direction: they   *)
(* are received in the order sent, each one whole and once, until one that *)
(* the receiver does not accept; then, or at any time, the channel breaks  *)
(* and stays broken.                                                       *)
(***************************************************************************)
EXTENDS Naturals, Sequences

CONSTANT Accepted(_)    \* the receiver takes this message

VARIABLES sent,         \* the messages sent so far
          got,          \* the messages received so far
          broken        \* no more will be received

Init == sent = <<>> /\ got = <<>> /\ broken = FALSE

\* One more message, whichever the sender chose
Send ==
    /\ Len(sent') = Len(sent) + 1
    /\ SubSeq(sent', 1, Len(sent)) = sent
    /\ UNCHANGED <<got, broken>>

Receive ==
    /\ ~broken /\ Len(got) < Len(sent)
    /\ LET m == sent[Len(got) + 1]
       IN Accepted(m) /\ got' = Append(got, m)
    /\ UNCHANGED <<sent, broken>>

Break ==
    /\ ~broken /\ broken' = TRUE
    /\ UNCHANGED <<sent, got>>

Spec == Init /\ [][Send \/ Receive \/ Break]_<<sent, got, broken>>

=============================================================================
