------------------------------ MODULE ProbeLog ------------------------------
(***************************************************************************)
(* Connect with its probeTracker: which of the failed probes of a run are  *)
(* written to the audit log as probe_failed, and what error a trip gives   *)
(* as its reason.  The tracker is reset by every success.                  *)
(***************************************************************************)
EXTENDS Connect

CONSTANTS
  Text,    \* what a failing probe may report
  Silent,  \* no text
  Every,   \* probeLogEvery
  Floor,   \* probeLogFloor
  MaxFails \* bound: the history counts so many failures of an outage

ASSUME TrackerAssumption ==
  /\ Floor \in Nat \ {0} /\ Every \in Nat /\ Floor <= Every
  /\ MaxFails \in Nat
  /\ Silent \notin Text

VARIABLES
  tracker, \* the fields of probeTracker
  outage   \* history of the failures since the last success

trackerVars == <<tracker, outage>>

Fresh == [last |-> Silent, recorded |-> Silent, since |-> 0, seen |-> FALSE]
\* How many probes failed, how many were written, and for how many of them, up
\* to Floor, the text has been what it is.
NoOutage == [fails |-> 0, records |-> 0, held |-> 0]

\* Mutant: an error that changes is written at once.
RecordedAtChange(t, text) ==
  ~t.seen \/ text # t.recorded \/ t.since + 1 >= Every

\* Mutant: only the first failure and every thirtieth are written.
RecordedRarely(t, text) == ~t.seen \/ t.since + 1 >= Every

Recorded(t, text) ==
  \/ ~t.seen
  \/ text # t.recorded /\ t.since + 1 >= Floor
  \/ t.since + 1 >= Every

Fail(t, text) ==
  [last     |-> text,
   recorded |-> IF Recorded(t, text) THEN text ELSE t.recorded,
   since    |-> IF Recorded(t, text) THEN 0 ELSE t.since + 1,
   seen     |-> TRUE]

Held(text) ==
  IF text # tracker.last THEN 1
  ELSE IF outage.held < Floor THEN outage.held + 1 ELSE Floor

Counting == outage.fails < MaxFails

Failed(text) ==
  [fails   |-> outage.fails + IF Counting THEN 1 ELSE 0,
   records |-> outage.records + IF Counting /\ Recorded(tracker, text) THEN 1 ELSE 0,
   held    |-> Held(text)]

-----------------------------------------------------------------------------

\* The step of Connect in which serverVerified has an answer.
Answer == pc \in {"probe", "beat"} /\ pc' \in {"start", "probeSleep", "beatSleep", "stop"}

Reset == tracker' = Fresh /\ outage' = NoOutage

Tracked ==
  \/ Answer /\ Reachable /\ Reset
  \/ /\ Answer /\ ~Reachable
     /\ \E text \in Text : tracker' = Fail(tracker, text) /\ outage' = Failed(text)
  \/ ~Answer /\ pc' \notin {"idle", "link", "list"} /\ UNCHANGED trackerVars
  \/ ~Answer /\ pc' \in {"idle", "link", "list"} /\ Reset

TrackedInit == Init /\ tracker = Fresh /\ outage = NoOutage

TrackedNext == Next /\ Tracked

TrackedSpec ==
  TrackedInit /\ [][TrackedNext]_<<vars, trackerVars>> /\ WF_vars(Step /\ Tracked)

-----------------------------------------------------------------------------

\* An error that has lasted for Floor probes is on record as the current one,
\* whatever came before it and however the limits fell, and a trip over a
\* server that did not answer has an error to give as its reason.
Diagnosed ==
  /\ outage.held >= Floor => tracker.recorded = tracker.last
  /\ pc = "stop" /\ outcome \in {"E50", "E51"} => tracker.last \in Text

\* "an error that alternates between two texts every poll ...": of one outage,
\* at most the first failure and one in Floor are written, whatever they report.
\* (A success in between starts a new outage, and with it the limit.)
LogBounded == outage.records > 0 => outage.fails > (outage.records - 1) * Floor

=============================================================================
