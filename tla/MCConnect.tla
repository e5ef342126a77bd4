----------------------------- MODULE MCConnect -----------------------------
(***************************************************************************)
(* Instances of Connect, with its probe log, for TLC.                      *)
(***************************************************************************)
EXTENDS ProbeLog

AllFaults == FaultKind

=============================================================================
