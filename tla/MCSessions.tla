---------------------------- MODULE MCSessions ----------------------------
(* Small instances of SessionAdmin for TLC. *)
EXTENDS SessionAdmin, TLC

CONSTANTS c1, c2, alice, root, k1, k2, home, away

\* The first connection comes from elsewhere.
FirstAway == [c \in Conns |-> IF c = c1 THEN away ELSE home]

AdminSymmetry == Permutations(Admins)
=============================================================================
