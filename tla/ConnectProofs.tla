--------------------------- MODULE ConnectProofs ---------------------------
(***************************************************************************)
(* The time bounds of the watchdog and the containment of a trip, for      *)
(* every set of adapters, every poll, timeout and grace period, and every  *)
(* combination of failing commands, crashes and reboots.                   *)
(***************************************************************************)
EXTENDS Connect, TLAPS

Limit == StartTime + Grace + Poll + Late + ProbeTime

\* What the timers say at each place of the process.
Timing ==
  /\ pc \in {"idle", "link", "linkSleep", "phase"} =>
       waited = 0 /\ age = 0 /\ stale = 0
  /\ waited < TunnelTimeout + Poll + Late + ProbeTime
  /\ pc = "probe" => waited < TunnelTimeout + Poll + Late
  /\ pc = "probeSleep" => waited < TunnelTimeout
  /\ pc = "beatSleep" => age <= Grace
  /\ pc = "beat" => age <= Grace + Poll + Late
  /\ pc \in Watching => age <= stale /\ stale <= age + StartTime
  /\ pc \notin Closing /\ pc # "idle" => outcome = "none"
  /\ pc \in Closing /\ outcome = "E50" => waited >= TunnelTimeout
  /\ pc \in Closing /\ outcome = "E51" => Grace < stale /\ stale <= Limit

\* What a trip has dealt with so far, while it goes through the adapters and
\* after it has ended.
Tripped == pc = "idle" /\ outcome \in Trip

DealtWith ==
  /\ pc \in {"list", "disable"} \/ Tripped =>
       (velo = "running" => "stop" \in errs)
  /\ pc = "disable" \/ Tripped =>
       \A a \in Adapter :
         /\ status[a] \in {"up", "down"} =>
              a \in errs \/ a \in todo \/ "list" \in errs \/ a \notin listed
         /\ status[a] = "absent" => a \notin listed
  /\ Tripped => todo = {}

Inv == TypeOK /\ Timing /\ DealtWith

-----------------------------------------------------------------------------

LEMMA InitInv == Init => Inv
  <1> SUFFICES ASSUME Init PROVE Inv
    OBVIOUS
  <1> USE ConnectAssumption
  <1>1. status \in [Adapter -> Status]
    BY DEF Init, Status
  <1>2. TypeOK
    BY <1>1 DEF Init, TypeOK, Place, Outcome, Service
  <1>3. Timing
    BY DEF Init, Timing, Probing, Watching, Closing
  <1>4. DealtWith
    BY DEF Init, DealtWith, Tripped, Trip
  <1> QED BY <1>2, <1>3, <1>4 DEF Inv

LEMMA NextTypeOK == TypeOK /\ [Next]_vars => TypeOK'
  <1> SUFFICES ASSUME TypeOK, [Next]_vars PROVE TypeOK'
    OBVIOUS
  <1> USE ConnectAssumption
      DEF TypeOK, Place, Outcome, Trip, Status, Service, Probing, Watching,
          Closing, process, timers, closing, record, Goto, Leave, ResetTimers,
          Save, FailClosed
  <1>1. CASE Launch BY <1>1 DEF Launch
  <1>2. CASE LinkFails BY <1>2 DEF LinkFails
  <1>3. CASE LinkFound BY <1>3 DEF LinkFound
  <1>4. CASE LinkSleep
    <2>1. UNCHANGED <<status, server, velo, closing, record>>
      BY <1>4 DEF LinkSleep
    <2>2. CASE Leave("error") BY <2>1, <2>2
    <2>3. CASE Goto("link") /\ UNCHANGED timers BY <2>1, <2>3
    <2> QED BY <1>4, <2>2, <2>3 DEF LinkSleep
  <1>5. CASE PhaseConnect BY <1>5 DEF PhaseConnect
  <1>6. CASE ProbeServer BY <1>6 DEF ProbeServer
  <1>7. CASE ProbeSleep
    <2>1. UNCHANGED <<status, server, velo, closing, record>>
      BY <1>7 DEF ProbeSleep
    <2>2. CASE Leave("error") BY <2>1, <2>2
    <2>3. ASSUME Goto("probe"), NEW t \in Poll..(Poll + Late),
                 waited' = waited + t, UNCHANGED <<age, stale>>
          PROVE  TypeOK'
      BY <2>1, <2>3
    <2> QED BY <1>7, <2>2, <2>3 DEF ProbeSleep
  <1>8. CASE StartVelo BY <1>8 DEF StartVelo
  <1>9. CASE StartFails BY <1>9 DEF StartFails
  <1>10. CASE BeatSleep
    <2>1. UNCHANGED <<status, server, velo, closing, record>>
      BY <1>10 DEF BeatSleep
    <2>2. CASE Leave("quit") BY <2>1, <2>2
    <2>3. ASSUME Goto("beat"), NEW t \in Poll..(Poll + Late),
                 age' = age + t, stale' = stale + t, UNCHANGED waited
          PROVE  TypeOK'
      BY <2>1, <2>3
    <2> QED BY <1>10, <2>2, <2>3 DEF BeatSleep
  <1>11. CASE Beat BY <1>11 DEF Beat
  <1>12. CASE StopVelo BY <1>12 DEF StopVelo
  <1>13. CASE ListAdapters BY <1>13 DEF ListAdapters, Present
  <1>14. ASSUME NEW a \in Adapter, DisableOne(a) PROVE TypeOK'
    BY <1>14 DEF DisableOne
  <1>15. CASE RecordTrip BY <1>15 DEF RecordTrip
  <1>16. ASSUME NEW a \in Adapter, Plug(a) PROVE TypeOK'
    BY <1>16 DEF Plug
  <1>17. CASE ServerChanges BY <1>17 DEF ServerChanges
  <1>18. CASE CtrlC BY <1>18 DEF CtrlC
  <1>19. CASE Kill BY <1>19 DEF Kill, CutShort
  <1>20. CASE Reboot BY <1>20 DEF Reboot, CutShort
  <1>21. CASE UNCHANGED vars BY <1>21 DEF vars
  <1> QED
    BY <1>1, <1>2, <1>3, <1>4, <1>5, <1>6, <1>7, <1>8, <1>9, <1>10, <1>11,
       <1>12, <1>13, <1>14, <1>15, <1>16, <1>17, <1>18, <1>19, <1>20, <1>21
    DEF Next, Step, Environment

LEMMA NextTiming == TypeOK /\ Timing /\ [Next]_vars => Timing'
  <1> SUFFICES ASSUME TypeOK, Timing, [Next]_vars PROVE Timing'
    OBVIOUS
  <1>0. waited \in Nat /\ age \in Nat /\ stale \in Nat /\ pc \in Place
    BY DEF TypeOK
  <1> USE <1>0, ConnectAssumption
      DEF Timing, Limit, Place, Probing, Watching, Closing, process, timers,
          Goto, Leave, ResetTimers, FailClosed
  <1>1. CASE Launch BY <1>1 DEF Launch
  <1>2. CASE LinkFails BY <1>2 DEF LinkFails
  <1>3. CASE LinkFound BY <1>3 DEF LinkFound
  <1>4. CASE LinkSleep BY <1>4 DEF LinkSleep
  <1>5. CASE PhaseConnect BY <1>5 DEF PhaseConnect
  <1>6. CASE ProbeServer
    <2>1. PICK t \in 0..ProbeTime :
            /\ waited' = waited + t
            /\ IF Reachable THEN Goto("start")
               ELSE IF waited' >= TunnelTimeout THEN FailClosed("E50")
               ELSE Goto("probeSleep")
      BY <1>6 DEF ProbeServer
    <2>2. pc = "probe" /\ UNCHANGED <<age, stale>>
      BY <1>6 DEF ProbeServer
    <2> QED BY <2>1, <2>2
  <1>7. CASE ProbeSleep
    <2>1. pc = "probeSleep"
      BY <1>7 DEF ProbeSleep
    <2>2. CASE Leave("error")
      BY <2>1, <2>2
    <2>3. ASSUME Goto("probe"), NEW t \in Poll..(Poll + Late),
                 waited' = waited + t, UNCHANGED <<age, stale>>
          PROVE  Timing'
      BY <2>1, <2>3
    <2> QED BY <1>7, <2>2, <2>3 DEF ProbeSleep
  <1>8. CASE StartVelo BY <1>8 DEF StartVelo
  <1>9. CASE StartFails BY <1>9 DEF StartFails
  <1>10. CASE BeatSleep
    <2>1. pc = "beatSleep"
      BY <1>10 DEF BeatSleep
    <2>2. CASE Leave("quit")
      BY <2>1, <2>2
    <2>3. ASSUME Goto("beat"), NEW t \in Poll..(Poll + Late),
                 age' = age + t, stale' = stale + t, UNCHANGED waited
          PROVE  Timing'
      BY <2>1, <2>3
    <2> QED BY <1>10, <2>2, <2>3 DEF BeatSleep
  <1>11. CASE Beat
    <2>1. pc = "beat" /\ UNCHANGED waited
      BY <1>11 DEF Beat
    <2>2. CASE Goto("beatSleep") /\ age' = 0 /\ stale' = 0
      BY <2>1, <2>2
    <2>3. ASSUME NEW t \in 0..ProbeTime, age' = age + t, stale' = stale + t,
                 IF age' > Grace THEN FailClosed("E51") ELSE Goto("beatSleep")
          PROVE  Timing'
      <3>1. CASE age' > Grace
        BY <2>1, <2>3, <3>1
      <3>2. CASE ~(age' > Grace)
        BY <2>1, <2>3, <3>2
      <3> QED BY <3>1, <3>2
    <2> QED BY <1>11, <2>2, <2>3 DEF Beat
  <1>12. CASE StopVelo BY <1>12 DEF StopVelo
  <1>13. CASE ListAdapters BY <1>13 DEF ListAdapters
  <1>14. ASSUME NEW a \in Adapter, DisableOne(a) PROVE Timing'
    BY <1>14 DEF DisableOne
  <1>15. CASE RecordTrip BY <1>15 DEF RecordTrip
  <1>16. ASSUME NEW a \in Adapter, Plug(a) PROVE Timing'
    BY <1>16 DEF Plug
  <1>17. CASE ServerChanges BY <1>17 DEF ServerChanges
  <1>18. CASE CtrlC BY <1>18 DEF CtrlC
  <1>19. CASE Kill BY <1>19 DEF Kill, CutShort
  <1>20. CASE Reboot BY <1>20 DEF Reboot, CutShort
  <1>21. CASE UNCHANGED vars BY <1>21 DEF vars
  <1> QED
    BY <1>1, <1>2, <1>3, <1>4, <1>5, <1>6, <1>7, <1>8, <1>9, <1>10, <1>11,
       <1>12, <1>13, <1>14, <1>15, <1>16, <1>17, <1>18, <1>19, <1>20, <1>21
    DEF Next, Step, Environment

LEMMA NextDealtWith == Inv /\ [Next]_vars => DealtWith'
  <1> SUFFICES ASSUME Inv, [Next]_vars PROVE DealtWith'
    OBVIOUS
  <1>0. TypeOK /\ DealtWith /\ (pc \notin Closing /\ pc # "idle" => outcome = "none")
    BY DEF Inv, Timing
  <1> USE <1>0
      DEF DealtWith, Tripped, Trip, Closing, process, closing, Goto, Leave, FailClosed
  <1>1. CASE Launch BY <1>1 DEF Launch
  <1>2. CASE LinkFails BY <1>2 DEF LinkFails
  <1>3. CASE LinkFound BY <1>3 DEF LinkFound
  <1>4. CASE LinkSleep BY <1>4 DEF LinkSleep
  <1>5. CASE PhaseConnect BY <1>5 DEF PhaseConnect
  <1>6. CASE ProbeServer BY <1>6 DEF ProbeServer
  <1>7. CASE ProbeSleep BY <1>7 DEF ProbeSleep
  <1>8. CASE StartVelo BY <1>8 DEF StartVelo
  <1>9. CASE StartFails BY <1>9 DEF StartFails
  <1>10. CASE BeatSleep BY <1>10 DEF BeatSleep
  <1>11. CASE Beat BY <1>11 DEF Beat
  <1>12. CASE StopVelo BY <1>12 DEF StopVelo
  <1>13. CASE ListAdapters BY <1>13 DEF ListAdapters, Present
  <1>14. ASSUME NEW a \in Adapter, DisableOne(a) PROVE DealtWith'
    BY <1>14 DEF DisableOne, TypeOK
  <1>15. CASE RecordTrip BY <1>15 DEF RecordTrip
  <1>16. ASSUME NEW a \in Adapter, Plug(a) PROVE DealtWith'
    BY <1>16 DEF Plug, TypeOK
  <1>17. CASE ServerChanges BY <1>17 DEF ServerChanges
  <1>18. CASE CtrlC BY <1>18 DEF CtrlC
  <1>19. CASE Kill BY <1>19 DEF Kill, CutShort
  <1>20. CASE Reboot BY <1>20 DEF Reboot, CutShort
  <1>21. CASE UNCHANGED vars BY <1>21 DEF vars
  <1> QED
    BY <1>1, <1>2, <1>3, <1>4, <1>5, <1>6, <1>7, <1>8, <1>9, <1>10, <1>11,
       <1>12, <1>13, <1>14, <1>15, <1>16, <1>17, <1>18, <1>19, <1>20, <1>21
    DEF Next, Step, Environment

LEMMA AlwaysInv == Spec => []Inv
  <1>1. Inv /\ [Next]_vars => Inv'
    BY NextTypeOK, NextTiming, NextDealtWith DEF Inv
  <1> QED BY <1>1, InitInv, PTL DEF Spec

-----------------------------------------------------------------------------

\* The state of the watchdog is well typed whatever fails around it.
THEOREM TypeCorrect == Spec => []TypeOK
  <1>1. Inv => TypeOK
    BY DEF Inv
  <1> QED BY <1>1, AlwaysInv, PTL

\* The E50 verdict is at most one sleep and one probe late.
THEOREM VerdictOnTime == Spec => []VerifyBounded
  <1>1. Inv => VerifyBounded
    BY DEF Inv, Timing, VerifyBounded, TypeOK
  <1> QED BY <1>1, AlwaysInv, PTL

\* Velociraptor is never watched on a server unverified for longer than the
\* start, the grace period, one sleep and one probe.
THEOREM StalenessLimited == Spec => []StalenessBounded
  <1>1. Inv => StalenessBounded
    <2> SUFFICES ASSUME Inv, pc \in Watching \/ outcome = "E51"
                 PROVE  stale <= StartTime + Grace + Poll + Late + ProbeTime
      BY DEF StalenessBounded
    <2>1. stale \in Nat /\ age \in Nat /\ pc \in Place
      BY DEF Inv, TypeOK
    <2>2. CASE pc \in Watching
      BY <2>1, <2>2, ConnectAssumption DEF Inv, Timing, Watching
    <2>3. CASE outcome = "E51" /\ pc \notin Watching
      <3>1. pc \in Closing \/ pc = "idle"
        BY <2>3 DEF Inv, Timing
      <3> QED BY <2>1, <2>3, <3>1, ConnectAssumption DEF Inv, Timing, Limit
    <2> QED BY <2>2, <2>3
  <1> QED BY <1>1, AlwaysInv, PTL

\* No trip fires before its time is over.
THEOREM TripsArePatient == Spec => []NoEarlyTrip
  <1>1. Inv => NoEarlyTrip
    BY DEF Inv, Timing, NoEarlyTrip, TypeOK
  <1> QED BY <1>1, AlwaysInv, PTL

\* A completed trip leaves running or connected only what it failed on.
THEOREM TripContains == Spec => []Contained
  <1>1. Inv => Contained
    BY DEF Inv, DealtWith, Tripped, Contained
  <1> QED BY <1>1, AlwaysInv, PTL

-----------------------------------------------------------------------------
\* Connect implements the abstract watchdog.

\* Where each mode is.
LEMMA Modes ==
  ASSUME pc \in Place
  PROVE  /\ pc = "start" => Mode = "verified"
         /\ pc \in Watching => Mode = "watching"
         /\ pc = "stop" => Mode = "tripping"
         /\ pc \in {"list", "disable"} => Mode = "tripped"
         /\ pc \in {"idle", "link", "linkSleep", "phase"} \cup Probing => Mode = "off"
  BY DEF Mode, Place, Probing, Watching, Closing

\* What of the state the abstract watchdog sees.
Seen == <<pc, stale, velo>>

LEMMA SeenUnchanged == UNCHANGED Seen => UNCHANGED Promise!vars
  BY DEF Seen, Promise!vars, Mode

\* The process ends, from wherever it is.
LEMMA Ends ==
  ASSUME pc' \in {"idle", "link"}, stale' = 0, velo' = velo \/ velo' # "running"
  PROVE  Promise!End
  <1>1. Mode' = "off"
    BY DEF Mode, Watching
  <1> QED BY <1>1 DEF Promise!End

LEMMA InitRefines == Init => Promise!Init
  <1> SUFFICES ASSUME Init PROVE Promise!Init
    OBVIOUS
  <1>1. Mode = "off"
    BY DEF Init, Mode, Watching
  <1>2. Reachable \in BOOLEAN
    BY DEF Reachable
  <1> QED BY <1>1, <1>2 DEF Init, Promise!Init

LEMMA NextRefines == Inv /\ [Next]_vars => [Promise!Next]_(Promise!vars)
  <1> SUFFICES ASSUME Inv, Inv', [Next]_vars PROVE [Promise!Next]_(Promise!vars)
    BY NextTypeOK, NextTiming, NextDealtWith DEF Inv
  <1>0. /\ pc \in Place /\ pc' \in Place /\ stale \in Nat /\ stale' \in Nat
        /\ age \in Nat /\ waited \in Nat /\ velo \in Service
    BY DEF Inv, TypeOK
  <1>t. Timing /\ Timing'
    BY DEF Inv
  <1>r. Reachable' \in BOOLEAN
    BY DEF Reachable
  <1>m. /\ pc = "start" => Mode = "verified"
        /\ pc \in Watching => Mode = "watching"
        /\ pc = "stop" => Mode = "tripping"
        /\ pc \in {"list", "disable"} => Mode = "tripped"
        /\ pc \in {"idle", "link", "linkSleep", "phase"} \cup Probing => Mode = "off"
    BY <1>0, Modes
  <1>n. /\ pc' = "start" => Mode' = "verified"
        /\ pc' \in Watching => Mode' = "watching"
        /\ pc' = "stop" => Mode' = "tripping"
        /\ pc' \in {"list", "disable"} => Mode' = "tripped"
        /\ pc' \in {"idle", "link", "linkSleep", "phase"} \cup Probing => Mode' = "off"
    BY <1>0 DEF Mode, Place, Probing, Watching, Closing
  <1> USE <1>0, <1>r, ConnectAssumption DEF process, timers, closing, Goto, FailClosed
  <1>1. CASE LinkFails \/ Kill \/ RecordTrip
    BY <1>1, Ends DEF LinkFails, Kill, RecordTrip, Leave, ResetTimers, Promise!Next
  <1>2. CASE Reboot
    BY <1>2, Ends DEF Reboot, ResetTimers, Promise!Next
  <1>3. CASE Launch \/ LinkFound
    BY <1>3, <1>m, <1>n DEF Launch, LinkFound, Promise!vars
  <1>4. CASE LinkSleep
    <2>1. pc = "linkSleep" /\ UNCHANGED velo
      BY <1>4 DEF LinkSleep
    <2>2. CASE Leave("error")
      BY <2>1, <2>2, Ends DEF Leave, ResetTimers, Promise!Next
    <2>3. CASE Goto("link") /\ UNCHANGED timers
      BY <2>1, <2>3, <1>m, <1>n DEF Promise!vars
    <2> QED BY <1>4, <2>2, <2>3 DEF LinkSleep
  <1>5. CASE PhaseConnect
    <2>1. pc = "phase" /\ UNCHANGED <<stale, velo>>
      BY <1>5, <1>t DEF PhaseConnect, Leave, ResetTimers, Timing
    <2>2. pc' \in {"probe", "idle"}
      BY <1>5 DEF PhaseConnect, Leave
    <2> QED BY <2>1, <2>2, <1>m, <1>n DEF Promise!vars, Probing
  <1>6. CASE ProbeServer
    <2>1. pc = "probe" /\ UNCHANGED <<stale, velo>>
      BY <1>6 DEF ProbeServer
    <2>2. CASE Reachable
      <3>1. pc' = "start"
        BY <1>6, <2>2 DEF ProbeServer
      <3> QED BY <2>1, <2>2, <3>1, <1>m, <1>n DEF Promise!Next, Promise!Verify, Probing
    <2>3. CASE ~Reachable /\ pc' = "stop"
      BY <2>1, <2>3, <1>m, <1>n DEF Promise!Next, Promise!GiveUp, Probing
    <2>4. CASE ~Reachable /\ pc' = "probeSleep"
      BY <2>1, <2>4, <1>m, <1>n DEF Promise!vars, Probing
    <2> QED BY <1>6, <2>2, <2>3, <2>4 DEF ProbeServer
  <1>7. CASE ProbeSleep
    <2>1. pc = "probeSleep" /\ UNCHANGED velo
      BY <1>7 DEF ProbeSleep
    <2>2. CASE Leave("error")
      BY <2>1, <2>2, Ends DEF Leave, ResetTimers, Promise!Next
    <2>3. CASE Goto("probe") /\ UNCHANGED stale
      BY <2>1, <2>3, <1>m, <1>n DEF Promise!vars, Probing
    <2> QED BY <1>7, <2>2, <2>3 DEF ProbeSleep
  <1>8. CASE StartVelo
    <2>1. /\ pc = "start" /\ pc' = "beatSleep" /\ stale' \in 0..StartTime
          /\ velo = "stopped" /\ velo' = "running"
      BY <1>8 DEF StartVelo
    <2> QED BY <2>1, <1>m, <1>n DEF Promise!Next, Promise!Begin, Watching
  <1>9. CASE StartFails
    <2>1. /\ pc = "start" /\ pc' = "stop" /\ UNCHANGED stale
          /\ velo' \in {velo, "running"}
      BY <1>9 DEF StartFails
    <2> QED BY <2>1, <1>m, <1>n DEF Promise!Next, Promise!BeginFails
  <1>10. CASE BeatSleep
    <2>1. pc = "beatSleep" /\ UNCHANGED velo
      BY <1>10 DEF BeatSleep
    <2>2. CASE Leave("quit")
      BY <2>1, <2>2, Ends DEF Leave, ResetTimers, Promise!Next
    <2>3. ASSUME Goto("beat"), NEW t \in Poll..(Poll + Late),
                 age' = age + t, stale' = stale + t
          PROVE  Promise!Wait
      <3>1. /\ stale' >= stale
            /\ stale' <= StartTime + Grace + Poll + Late + ProbeTime
        BY <2>1, <2>3, <1>t DEF Timing, Watching
      <3> QED BY <2>1, <2>3, <3>1, <1>m, <1>n DEF Promise!Wait, Watching
    <2> QED BY <1>10, <2>2, <2>3 DEF BeatSleep, Promise!Next
  <1>11. CASE Beat
    <2>1. pc = "beat" /\ UNCHANGED velo
      BY <1>11 DEF Beat
    <2>2. CASE Reachable
      <3>1. pc' = "beatSleep" /\ stale' = 0
        BY <1>11, <2>2 DEF Beat
      <3> QED BY <2>1, <2>2, <3>1, <1>m, <1>n DEF Promise!Next, Promise!Hear, Watching
    <2>3. CASE ~Reachable
      <3>1. PICK t \in 0..ProbeTime :
              /\ age' = age + t /\ stale' = stale + t
              /\ IF age' > Grace THEN FailClosed("E51") ELSE Goto("beatSleep")
        BY <1>11, <2>3 DEF Beat
      <3>2. /\ stale' >= stale
            /\ stale' <= StartTime + Grace + Poll + Late + ProbeTime
        BY <2>1, <3>1, <1>t DEF Timing, Watching
      <3>3. CASE age' > Grace
        <4>1. pc' = "stop" /\ stale' > Grace
          BY <2>1, <3>1, <3>3, <1>t DEF Timing, Watching
        <4> QED BY <2>1, <2>3, <3>2, <4>1, <1>m, <1>n
                DEF Promise!Next, Promise!Trip, Watching
      <3>4. CASE ~(age' > Grace)
        BY <2>1, <3>1, <3>2, <3>4, <1>m, <1>n DEF Promise!Next, Promise!Wait, Watching
      <3> QED BY <3>3, <3>4
    <2> QED BY <2>2, <2>3
  <1>12. CASE StopVelo
    <2>1. pc = "stop" /\ pc' = "list" /\ UNCHANGED stale /\ velo' \in {velo, "stopped"}
      BY <1>12 DEF StopVelo
    <2> QED BY <2>1, <1>m, <1>n DEF Promise!Next, Promise!Stop
  <1>13. CASE ListAdapters
    BY <1>13, <1>m, <1>n DEF ListAdapters, Promise!vars
  <1>14. CASE ServerChanges \/ CtrlC \/ UNCHANGED vars
    BY <1>14, SeenUnchanged DEF ServerChanges, CtrlC, vars, Seen
  <1>15. ASSUME NEW a \in Adapter, DisableOne(a) \/ Plug(a)
         PROVE  UNCHANGED Promise!vars
    BY <1>15, SeenUnchanged DEF DisableOne, Plug, Seen
  <1> QED
    BY <1>1, <1>2, <1>3, <1>4, <1>5, <1>6, <1>7, <1>8, <1>9, <1>10, <1>11,
       <1>12, <1>13, <1>14, <1>15
    DEF Next, Step, Environment

\* Whatever fails, is late, cancelled or rebooted, connect does only what the
\* abstract watchdog promises.
THEOREM Refinement == Spec => Implements
  <1>1. Inv /\ [Next]_vars => Inv'
    BY NextTypeOK, NextTiming, NextDealtWith DEF Inv
  <1> QED BY <1>1, InitInv, InitRefines, NextRefines, PTL
          DEF Spec, Implements, Promise!Spec

=============================================================================
