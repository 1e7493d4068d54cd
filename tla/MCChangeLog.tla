----------------------------- MODULE MCChangeLog ----------------------------
(* Symmetry for ChangeLog.                                                   *)
EXTENDS ChangeLog

MCSymmetry == Permutations(Table) \cup Permutations(Value) \cup Permutations(Tx)

=============================================================================
