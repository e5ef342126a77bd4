------------------------------ MODULE Watchdog ------------------------------
(***************************************************************************)
(* What the online phase promises, whatever runs, fails or dies in it:     *)
(* Velociraptor is started only after the server was reached, it is        *)
(* watched from then on, a watch gives up neither too early nor too late,  *)
(* and only a server that is out of reach makes it.  Connect implements    *)
(* this, as its definition Implements says.                                *)
(***************************************************************************)
EXTENDS Naturals

CONSTANTS
  Startup,   \* the longest between the verification and the watch
  Patience,  \* the shortest silence that ends a watch
  Limit      \* the longest

VARIABLES
  mode,      \* "off", "verified", "watching", "tripping", "tripped"
  reach,     \* input: our server can be reached
  silence,   \* how long it has not been, while watching
  running    \* the service runs

\* The cables and the server change at any moment: reach is no part of a step.
vars == <<mode, silence, running>>

Init == mode = "off" /\ reach \in BOOLEAN /\ silence = 0 /\ ~running

Verify ==
  /\ mode = "off" /\ reach
  /\ mode' = "verified" /\ UNCHANGED <<silence, running>>

\* It was never reached in time.
GiveUp ==
  /\ mode = "off" /\ ~reach
  /\ mode' = "tripping" /\ UNCHANGED <<silence, running>>

\* The only step that starts the service, and the one that fails to.
Begin ==
  /\ mode = "verified" /\ ~running
  /\ mode' = "watching" /\ running' = TRUE
  /\ silence' \in 0..Startup

BeginFails ==
  /\ mode = "verified"
  /\ mode' = "tripping" /\ running' \in {running, TRUE}
  /\ UNCHANGED silence

Wait ==
  /\ mode = "watching"
  /\ silence' \in silence..Limit
  /\ UNCHANGED <<mode, running>>

Hear ==
  /\ mode = "watching" /\ reach
  /\ silence' = 0
  /\ UNCHANGED <<mode, running>>

Trip ==
  /\ mode = "watching" /\ ~reach
  /\ silence' \in (Patience + 1)..Limit
  /\ mode' = "tripping" /\ UNCHANGED running

\* The service is stopped before anything else, if that works.
Stop ==
  /\ mode = "tripping"
  /\ mode' = "tripped" /\ running' \in {FALSE, running}
  /\ UNCHANGED silence

\* A trip is over, the user quits, the process or the host dies.
End ==
  /\ mode' = "off" /\ silence' = 0
  /\ running' \in {FALSE, running}

Next ==
  /\ \/ Verify \/ GiveUp \/ Begin \/ BeginFails
     \/ Wait \/ Hear \/ Trip \/ Stop \/ End
  /\ reach' \in BOOLEAN

Spec == Init /\ [][Next]_vars

=============================================================================
