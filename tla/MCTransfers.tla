---------------------------- MODULE MCTransfers ----------------------------
(* TransferRecovery on small instances.                                    *)
EXTENDS TransferRecovery, TLC

CONSTANTS c1, c2, alice, u1, u2, u3, Budget

OneAccount == [c \in Conns |-> alice]

TaskSymmetry == Permutations(Uploads) \cup Permutations(Conns)

(* A behaviour has as many uploads as leave room for what goes wrong or    *)
(* gets in the way: errors, edits of the tree, sweeps and crashes.  No     *)
(* errors around a crash: a startup repair that fails as well can lose a   *)
(* file, as the README says.                                               *)
InBudget ==
  /\ Cardinality(used) + faults + edits + sweeps + crashes <= Budget
  /\ faults = 0 \/ crashes = 0
============================================================================
