--------------------------- MODULE MCTaskRecovery ---------------------------
(* TaskRecovery on small instances. *)
EXTENDS TaskRecovery, TLC

Symmetry == Permutations(Tasks)
=============================================================================
