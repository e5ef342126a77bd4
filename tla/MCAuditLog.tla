----------------------------- MODULE MCAuditLog -----------------------------
(***************************************************************************)
(* Instances of AuditLog for TLC: the processes are interchangeable.       *)
(***************************************************************************)
EXTENDS AuditLog, TLC

Symmetry == Permutations(Process)

=============================================================================
