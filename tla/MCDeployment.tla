---------------------------- MODULE MCDeployment ----------------------------
(***************************************************************************)
(* Instances of Deployment for TLC: a new server with two client configs   *)
(* that differ in the install path - a good one, and one with dots that    *)
(* no build may sign - and an old server whose install path is a top-level *)
(* directory.                                                              *)
(***************************************************************************)
EXTENDS Deployment

CONSTANTS new, dotted, old, tool, v1

MCUrl == [c \in Config |-> IF c = old THEN "url1" ELSE "url2"]
MCCa == [c \in Config |-> IF c = old THEN "ca1" ELSE "ca2"]
MCPath == [c \in Config |->
  CASE c = new -> <<"C:", "Program Files", "Velociraptor", "Velociraptor.exe">>
    [] c = dotted -> <<"C:", "Tools", "..", "Windows", "Velociraptor.exe">>
    [] c = old -> <<"C:", "Velociraptor", "Velociraptor.exe">>]

=============================================================================
