--------------------------- MODULE ProbeLogProofs ---------------------------
(***************************************************************************)
(* The limits of probe_failed, and that an error which lasts gets through  *)
(* them, for every two limits and every sequence of errors.                *)
(***************************************************************************)
EXTENDS ProbeLog, TLAPS

Tracker == [last : Text \cup {Silent}, recorded : Text \cup {Silent},
            since : Nat, seen : BOOLEAN]
Outage == [fails : Nat, records : Nat, held : Nat]

\* What the tracker knows of the outage.  An error that is not on record has
\* been there for fewer probes than went by since the last record.
Accounted ==
  /\ tracker \in Tracker /\ outage \in Outage
  /\ tracker.seen => tracker.last \in Text /\ tracker.recorded \in Text
  /\ ~tracker.seen => outage.records = 0 /\ outage.held = 0 /\ tracker.last = Silent
  /\ outage.held <= Floor
  /\ tracker.last # tracker.recorded =>
       outage.held <= tracker.since /\ outage.held < Floor
  /\ outage.records > 0 => outage.fails > (outage.records - 1) * Floor
  /\ outage.records > 0 /\ outage.fails < MaxFails =>
       outage.fails > (outage.records - 1) * Floor + tracker.since

\* A trip over a server that did not answer follows a failed probe.
Attributed == pc = "stop" /\ outcome \in {"E50", "E51"} => tracker.seen

LogInv == Accounted /\ Attributed

-----------------------------------------------------------------------------

LEMMA InitLog == TrackedInit => LogInv
  BY TrackerAssumption
  DEF TrackedInit, Init, LogInv, Accounted, Attributed, Tracker, Outage, Fresh, NoOutage

LEMMA ResetLog == Reset => Accounted'
  BY TrackerAssumption DEF Reset, Accounted, Tracker, Outage, Fresh, NoOutage

\* The history counts what Recorded says, up to its bound.
LEMMA Counts ==
  ASSUME Accounted, NEW text \in Text, outage' = Failed(text)
  PROVE  /\ outage' \in Outage /\ outage'.held = Held(text) /\ outage'.held \in 1..Floor
         /\ outage.fails < MaxFails =>
              /\ outage'.fails = outage.fails + 1
              /\ outage'.records = outage.records + IF Recorded(tracker, text) THEN 1 ELSE 0
         /\ ~(outage.fails < MaxFails) =>
              outage'.fails = outage.fails /\ outage'.records = outage.records
  <1>1. Held(text) \in 1..Floor
    BY TrackerAssumption DEF Accounted, Outage, Held
  <1> QED BY <1>1, TrackerAssumption DEF Accounted, Failed, Outage, Counting

LEMMA FailLog ==
  ASSUME Accounted, NEW text \in Text, tracker' = Fail(tracker, text), outage' = Failed(text)
  PROVE  Accounted'
  <1> USE TrackerAssumption
  <1>0. /\ tracker \in Tracker /\ outage \in Outage
        /\ tracker.since \in Nat /\ outage.fails \in Nat /\ outage.records \in Nat
        /\ outage.held \in Nat
    BY DEF Accounted, Tracker, Outage
  <1>1. CASE Recorded(tracker, text)
    <2>1. tracker' = [last |-> text, recorded |-> text, since |-> 0, seen |-> TRUE]
      BY <1>1 DEF Fail
    <2>2. /\ tracker' \in Tracker /\ tracker'.seen /\ tracker'.since = 0
          /\ tracker'.last = text /\ tracker'.recorded = text
      BY <2>1 DEF Tracker
    <2>3. outage'.records > 0 => outage'.fails > (outage'.records - 1) * Floor
      <3>1. CASE outage.fails < MaxFails
        <4>1. outage'.fails = outage.fails + 1 /\ outage'.records = outage.records + 1
          BY <1>1, <3>1, Counts
        <4>2. CASE outage.records = 0
          BY <1>0, <4>1, <4>2
        <4>3. CASE outage.records > 0
          <5>1. tracker.seen /\ tracker.since + 1 >= Floor
            BY <1>0, <1>1, <4>3 DEF Accounted, Recorded
          <5>2. outage.records * Floor = (outage.records - 1) * Floor + Floor
            BY <1>0
          <5> QED BY <1>0, <3>1, <4>1, <4>3, <5>1, <5>2 DEF Accounted
        <4> QED BY <1>0, <4>2, <4>3
      <3>2. CASE ~(outage.fails < MaxFails)
        BY <3>2, Counts DEF Accounted
      <3> QED BY <3>1, <3>2
    <2> QED BY <2>2, <2>3, Counts DEF Accounted, Outage
  <1>2. CASE ~Recorded(tracker, text)
    <2>1. /\ tracker.seen /\ (text # tracker.recorded => tracker.since + 1 < Floor)
      BY <1>0, <1>2 DEF Recorded
    <2>2. tracker' = [last |-> text, recorded |-> tracker.recorded,
                      since |-> tracker.since + 1, seen |-> TRUE]
      BY <1>2 DEF Fail
    <2>3. /\ tracker' \in Tracker /\ tracker'.seen /\ tracker'.last = text
          /\ tracker'.recorded = tracker.recorded /\ tracker'.since = tracker.since + 1
      BY <1>0, <2>2 DEF Tracker
    <2>4. tracker'.last # tracker'.recorded =>
            outage'.held <= tracker'.since /\ outage'.held < Floor
      BY <1>0, <2>1, <2>3, Counts DEF Accounted, Held
    <2>5. /\ outage'.records > 0 => outage'.fails > (outage'.records - 1) * Floor
          /\ outage'.records > 0 /\ outage'.fails < MaxFails =>
               outage'.fails > (outage'.records - 1) * Floor + tracker'.since
      <3>1. outage'.records = outage.records
        BY <1>0, <1>2, Counts
      <3> DEFINE base == (outage.records - 1) * Floor
      <3>2. CASE outage.fails < MaxFails
        <4>1. outage'.fails = outage.fails + 1
          BY <3>2, Counts
        <4>2. outage.records > 0 => outage.fails > base /\ outage.fails > base + tracker.since
          BY <3>2 DEF Accounted
        <4>3. outage.records > 0 => base \in Nat
          BY <1>0
        <4> HIDE DEF base
        <4>4. outage.records > 0 => outage'.fails > base /\ outage'.fails > base + tracker'.since
          BY <1>0, <2>3, <4>1, <4>2, <4>3
        <4> QED BY <3>1, <4>4 DEF base
      <3>3. CASE ~(outage.fails < MaxFails)
        BY <3>1, <3>3, Counts DEF Accounted
      <3> QED BY <3>2, <3>3
    <2>6. tracker'.recorded \in Text
      BY <2>1, <2>3 DEF Accounted
    <2> QED BY <2>3, <2>4, <2>5, <2>6, Counts DEF Accounted
  <1> QED BY <1>1, <1>2

\* A trip begins with a failed start or with a probe that has failed.
LEMMA TripBegins ==
  ASSUME Next, pc' = "stop"
  PROVE  UNCHANGED <<pc, outcome>> \/ outcome' = "E52" \/ (Answer /\ ~Reachable)
  BY DEF Next, Step, Environment, LinkFails, LinkFound, LinkSleep, PhaseConnect,
         ProbeServer, ProbeSleep, StartVelo, StartFails, BeatSleep, Beat, StopVelo,
         ListAdapters, RecordTrip, DisableOne, Launch, ServerChanges, CtrlC, Kill,
         Reboot, Plug, Goto, Leave, FailClosed, process, Answer

LEMMA NextLog == LogInv /\ [TrackedNext]_<<vars, trackerVars>> => LogInv'
  <1> SUFFICES ASSUME LogInv, [TrackedNext]_<<vars, trackerVars>> PROVE LogInv'
    OBVIOUS
  <1>1. CASE UNCHANGED <<vars, trackerVars>>
    BY <1>1 DEF LogInv, Accounted, Attributed, vars, process, trackerVars
  <1>2. CASE TrackedNext /\ Answer /\ Reachable /\ Reset
    BY <1>2, ResetLog, TripBegins DEF TrackedNext, LogInv, Attributed, Answer
  <1>3. ASSUME TrackedNext, Answer, NEW text \in Text,
               tracker' = Fail(tracker, text), outage' = Failed(text)
        PROVE  LogInv'
    <2>1. Accounted'
      BY <1>3, FailLog DEF LogInv
    <2>2. tracker'.seen
      BY <1>3 DEF Fail, LogInv, Accounted, Tracker
    <2> QED BY <2>1, <2>2 DEF LogInv, Attributed
  <1>4. CASE TrackedNext /\ ~Answer /\ UNCHANGED trackerVars
    <2>1. Accounted'
      BY <1>4 DEF LogInv, Accounted, trackerVars
    <2>2. Attributed'
      BY <1>4, TripBegins DEF TrackedNext, LogInv, Attributed, trackerVars
    <2> QED BY <2>1, <2>2 DEF LogInv
  <1>5. CASE TrackedNext /\ pc' \in {"idle", "link", "list"} /\ Reset
    BY <1>5, ResetLog DEF LogInv, Attributed
  <1> QED BY <1>1, <1>2, <1>3, <1>4, <1>5 DEF TrackedNext, Tracked

-----------------------------------------------------------------------------

\* An error that lasts for Floor probes is written, and a trip names an error.
THEOREM ErrorsGetThrough == TrackedSpec => []Diagnosed
  <1>1. LogInv => Diagnosed
    BY TrackerAssumption DEF LogInv, Accounted, Attributed, Diagnosed, Outage
  <1> QED BY <1>1, InitLog, NextLog, PTL DEF TrackedSpec

\* Of one outage no more than one failure in Floor, and the first, are written.
THEOREM LogLimited == TrackedSpec => []LogBounded
  <1>1. LogInv => LogBounded
    BY DEF LogInv, Accounted, LogBounded
  <1> QED BY <1>1, InitLog, NextLog, PTL DEF TrackedSpec

=============================================================================
