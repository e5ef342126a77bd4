------------------------------ MODULE Custody ------------------------------
(***************************************************************************)
(* What a host may trust, whatever is built, copied, cut short, edited or  *)
(* run again around it: an incident that a responder signed, and an agent  *)
(* of that incident.  The incident is never exchanged under a registered   *)
(* agent; an agent starts only while it is one of the incident that the    *)
(* host goes by.  Deployment implements this, as its definition Keeps says. *)
(***************************************************************************)
CONSTANT None   \* no incident, and no agent

VARIABLES
  issued,    \* the incidents that were signed
  trusted,   \* the incident the host goes by, or None
  agent,     \* the CA that the registered agent trusts, or None
  running    \* the agent runs

vars == <<issued, trusted, agent, running>>

Init == issued = {} /\ trusted = None /\ agent = None /\ ~running

Issue ==
  /\ issued \subseteq issued'
  /\ UNCHANGED <<trusted, agent, running>>

\* The host takes a signed incident, or loses the one it had in the attempt.
Adopt ==
  /\ agent = None
  /\ trusted' \in issued \cup {None}
  /\ UNCHANGED <<issued, agent, running>>

Register ==
  /\ agent = None /\ ~running /\ trusted \in issued
  /\ agent' = trusted.ca /\ running' \in BOOLEAN
  /\ UNCHANGED <<issued, trusted>>

Start ==
  /\ trusted \in issued /\ agent = trusted.ca
  /\ running' = TRUE
  /\ UNCHANGED <<issued, trusted, agent>>

Stop ==
  /\ running' = FALSE
  /\ UNCHANGED <<issued, trusted, agent>>

Remove ==
  /\ agent' = None /\ running' = FALSE
  /\ UNCHANGED <<issued, trusted>>

Next == Issue \/ Adopt \/ Register \/ Start \/ Stop \/ Remove

Spec == Init /\ [][Next]_vars

=============================================================================
