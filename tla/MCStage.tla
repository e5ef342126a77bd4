------------------------------ MODULE MCStage ------------------------------
(***************************************************************************)
(* Instances of Stage for TLC.  The values of the allow-list and of the    *)
(* profiles are interchangeable; the rules are not, one is stubborn.       *)
(***************************************************************************)
EXTENDS Stage, TLC

Symmetry ==
  Permutations(Allow) \cup Permutations(Profile)

=============================================================================
