-------------------------- MODULE EngagementProofs --------------------------
(***************************************************************************)
(* What holds of a whole engagement, for every set of rules, profiles and  *)
(* adapters, every timing, any number of runs, crashes and failing steps:  *)
(* where Velociraptor may run, and what a teardown leaves.  The proofs     *)
(* take the steps of stage and connect from StageProofs and ConnectProofs. *)
(***************************************************************************)
EXTENDS Engagement, TLAPS

StageFacts == INSTANCE StageProofs WITH
  pc <- spc, outcome <- soutcome, cancelled <- scancelled

ConnectFacts == INSTANCE ConnectProofs WITH
  pc <- cpc, outcome <- coutcome, cancelled <- ccancelled, velo <- Velo

-----------------------------------------------------------------------------
\* StageFacts and ConnectFacts are about the same steps as Staging and
\* Connecting.

LEMMA SameStage ==
  /\ Staging!TypeOK = StageFacts!TypeOK
  /\ Staging!TypeOK' = StageFacts!TypeOK'
  /\ Staging!Quarantined = StageFacts!Quarantined
  <1> USE DEF Staging!TypeOK, StageFacts!TypeOK, Staging!Foreign, StageFacts!Foreign,
         Staging!Place, StageFacts!Place,
         Staging!Outcome, StageFacts!Outcome, Staging!Policy, StageFacts!Policy,
         Staging!Default, StageFacts!Default,
         Staging!Service, StageFacts!Service,
         Staging!Quarantining, StageFacts!Quarantining,
         Staging!Unwinding, StageFacts!Unwinding,
         Staging!Installing, StageFacts!Installing
  <1>1. Staging!TypeOK = StageFacts!TypeOK
    OBVIOUS
  <1>2. Staging!TypeOK' = StageFacts!TypeOK'
    OBVIOUS
  <1>3. Staging!Quarantined = StageFacts!Quarantined
    BY DEF Staging!Quarantined, StageFacts!Quarantined,
           Staging!AllProfiles, StageFacts!AllProfiles
  <1> QED BY <1>1, <1>2, <1>3

LEMMA SameConnect ==
  /\ Connecting!Next = ConnectFacts!Next
  /\ Connecting!TypeOK = ConnectFacts!TypeOK
  /\ Connecting!TypeOK' = ConnectFacts!TypeOK'
  <1>1. Connecting!Next = ConnectFacts!Next
    BY DEF Connecting!Next, ConnectFacts!Next, Connecting!Step, ConnectFacts!Step,
         Connecting!Environment, ConnectFacts!Environment,
         Connecting!LinkFails, ConnectFacts!LinkFails,
         Connecting!LinkFound, ConnectFacts!LinkFound,
         Connecting!LinkSleep, ConnectFacts!LinkSleep,
         Connecting!PhaseConnect, ConnectFacts!PhaseConnect,
         Connecting!ProbeServer, ConnectFacts!ProbeServer,
         Connecting!ProbeSleep, ConnectFacts!ProbeSleep,
         Connecting!StartVelo, ConnectFacts!StartVelo,
         Connecting!StartFails, ConnectFacts!StartFails,
         Connecting!BeatSleep, ConnectFacts!BeatSleep,
         Connecting!Beat, ConnectFacts!Beat,
         Connecting!StopVelo, ConnectFacts!StopVelo,
         Connecting!ListAdapters, ConnectFacts!ListAdapters,
         Connecting!Present, ConnectFacts!Present,
         Connecting!RecordTrip, ConnectFacts!RecordTrip,
         Connecting!DisableOne, ConnectFacts!DisableOne,
         Connecting!Launch, ConnectFacts!Launch,
         Connecting!ServerChanges, ConnectFacts!ServerChanges,
         Connecting!CtrlC, ConnectFacts!CtrlC,
         Connecting!Kill, ConnectFacts!Kill,
         Connecting!Reboot, ConnectFacts!Reboot,
         Connecting!Plug, ConnectFacts!Plug, Connecting!Goto, ConnectFacts!Goto,
         Connecting!Leave, ConnectFacts!Leave,
         Connecting!ResetTimers, ConnectFacts!ResetTimers,
         Connecting!FailClosed, ConnectFacts!FailClosed,
         Connecting!Save, ConnectFacts!Save,
         Connecting!Saving, ConnectFacts!Saving,
         Connecting!CutShort, ConnectFacts!CutShort,
         Connecting!LinkUp, ConnectFacts!LinkUp,
         Connecting!Reachable, ConnectFacts!Reachable,
         Connecting!process, ConnectFacts!process,
         Connecting!timers, ConnectFacts!timers,
         Connecting!closing, ConnectFacts!closing,
         Connecting!record, ConnectFacts!record
  <1> USE DEF Connecting!TypeOK, ConnectFacts!TypeOK,
         Connecting!Place, ConnectFacts!Place,
         Connecting!Outcome, ConnectFacts!Outcome,
         Connecting!Trip, ConnectFacts!Trip,
         Connecting!Status, ConnectFacts!Status,
         Connecting!Service, ConnectFacts!Service,
         Connecting!Probing, ConnectFacts!Probing,
         Connecting!Watching, ConnectFacts!Watching,
         Connecting!Closing, ConnectFacts!Closing
  <1>2. Connecting!TypeOK = ConnectFacts!TypeOK
    OBVIOUS
  <1>3. Connecting!TypeOK' = ConnectFacts!TypeOK'
    OBVIOUS
  <1> QED BY <1>1, <1>2, <1>3

LEMMA ConnectAssumed == ConnectFacts!ConnectAssumption
  BY EngagementAssumption
  DEF ConnectFacts!ConnectAssumption, ConnectFacts!FaultKind,
      Connecting!ConnectAssumption, Connecting!FaultKind

\* The steps of stage but for the reboot of its host.
StageStep ==
  \/ StageFacts!Launch \/ StageFacts!Preflight \/ StageFacts!Work
  \/ StageFacts!CtrlC \/ StageFacts!Kill

LEMMA StageSteps ==
  /\ StageLaunch \/ StagePreflight \/ StageWork \/ StageStops => StageStep
  /\ StageStep => StageFacts!Next
  <1>1. /\ Staging!Launch = StageFacts!Launch
        /\ Staging!Preflight = StageFacts!Preflight
        /\ Staging!CtrlC = StageFacts!CtrlC
        /\ Staging!Kill = StageFacts!Kill
    BY DEF Staging!Launch, StageFacts!Launch, Staging!Preflight, StageFacts!Preflight,
           Staging!CtrlC, StageFacts!CtrlC, Staging!Kill, StageFacts!Kill,
           Staging!Goto, StageFacts!Goto, Staging!Halt, StageFacts!Halt,
           Staging!Works, StageFacts!Works, Staging!files, StageFacts!files
  <1>2. Staging!Work = StageFacts!Work
    BY DEF Staging!Work, StageFacts!Work, Staging!TakeFiles, StageFacts!TakeFiles,
         Staging!CaptureVolatile, StageFacts!CaptureVolatile,
         Staging!Export, StageFacts!Export,
         Staging!Snapshot, StageFacts!Snapshot,
         Staging!AddRule, StageFacts!AddRule, Staging!Sweep, StageFacts!Sweep,
         Staging!Overlay, StageFacts!Overlay, Staging!Flip, StageFacts!Flip,
         Staging!Import, StageFacts!Import, Staging!Unwind, StageFacts!Unwind,
         Staging!UnwindGroup, StageFacts!UnwindGroup,
         Staging!UnwindProfiles, StageFacts!UnwindProfiles,
         Staging!UnwindRules, StageFacts!UnwindRules,
         Staging!CopyPayload, StageFacts!CopyPayload,
         Staging!ServiceInstall, StageFacts!ServiceInstall,
         Staging!ServiceStop, StageFacts!ServiceStop,
         Staging!ServiceDemand, StageFacts!ServiceDemand,
         Staging!CheckPath, StageFacts!CheckPath,
         Staging!CreateTask, StageFacts!CreateTask,
         Staging!Ready, StageFacts!Ready, Staging!Goto, StageFacts!Goto,
         Staging!Halt, StageFacts!Halt, Staging!Works, StageFacts!Works,
         Staging!AllProfiles, StageFacts!AllProfiles,
         Staging!Registered, StageFacts!Registered, Staging!run, StageFacts!run,
         Staging!files, StageFacts!files
  <1> QED BY <1>1, <1>2
          DEF StageLaunch, StagePreflight, StageWork, StageStops, StageStep,
              StageFacts!Next

\* What connect and its surroundings do to what the others see.
LEMMA ConnectSteps ==
  ASSUME ConnectLaunch \/ ConnectStep \/ ConnectKill \/ NetworkChanges
  PROVE  /\ ConnectAlone /\ ConnectFacts!Next
         /\ tripped \subseteq tripped'
         /\ ~NetworkChanges => UNCHANGED <<tpc, tman, failed>>
         /\ ConnectStep \/ ConnectKill => cpc # "idle"
         /\ NetworkChanges => Velo' = Velo /\ cpc' = cpc /\ UNCHANGED saved
  <1>1. ConnectAlone /\ Connecting!Next
    BY DEF ConnectLaunch, ConnectStep, ConnectKill, NetworkChanges,
           Connecting!Next, Connecting!Environment
  <1>2. tripped \subseteq tripped'
    BY <1>1
    DEF Connecting!Next, Connecting!Step, Connecting!Environment,
        Connecting!LinkFails, Connecting!LinkFound, Connecting!LinkSleep,
        Connecting!PhaseConnect, Connecting!ProbeServer, Connecting!ProbeSleep,
        Connecting!StartVelo, Connecting!StartFails, Connecting!BeatSleep,
        Connecting!Beat, Connecting!StopVelo, Connecting!ListAdapters,
        Connecting!RecordTrip, Connecting!DisableOne, Connecting!Launch,
        Connecting!ServerChanges, Connecting!CtrlC, Connecting!Kill,
        Connecting!Reboot, Connecting!Plug, Connecting!record
  <1>3. ConnectStep \/ ConnectKill => cpc # "idle"
    BY DEF ConnectStep, ConnectKill, Connecting!Step,
        Connecting!LinkFails, Connecting!LinkFound, Connecting!LinkSleep,
        Connecting!PhaseConnect, Connecting!ProbeServer, Connecting!ProbeSleep,
        Connecting!StartVelo, Connecting!StartFails, Connecting!BeatSleep,
        Connecting!Beat, Connecting!StopVelo, Connecting!ListAdapters,
        Connecting!RecordTrip, Connecting!DisableOne, Connecting!CtrlC, Connecting!Kill
  <1>4. NetworkChanges => Velo' = Velo /\ cpc' = cpc /\ UNCHANGED saved
    BY DEF NetworkChanges, Connecting!ServerChanges, Connecting!Plug,
           Connecting!process, Connecting!record
  <1> QED BY <1>1, <1>2, <1>3, <1>4, SameConnect
          DEF ConnectLaunch, ConnectStep, ConnectKill, UsedAnew, teardownVars

\* What the service looks like after a step that starts or stops it at most.
LEMMA ServiceUpdates ==
  ASSUME svc \in Staging!Service
  PROVE  /\ \A on \in BOOLEAN : [svc EXCEPT !.running = on] \in Staging!Service
         /\ [Staging!NoService EXCEPT !.running = svc.running] \in Staging!Service
         /\ \A on \in BOOLEAN :
              /\ [svc EXCEPT !.running = on].installed = svc.installed
              /\ [svc EXCEPT !.running = on].auto = svc.auto
              /\ [svc EXCEPT !.running = on].running = on
         /\ [Staging!NoService EXCEPT !.running = svc.running].installed = FALSE
         /\ [Staging!NoService EXCEPT !.running = svc.running].auto = FALSE
         /\ [Staging!NoService EXCEPT !.running = svc.running].running = svc.running
         /\ svc.running \in BOOLEAN /\ svc.auto \in BOOLEAN /\ svc.installed \in BOOLEAN
  BY DEF Staging!Service, Staging!NoService

TeardownStep ==
  \/ TeardownLaunch \/ TeardownStop \/ TeardownRemove \/ TeardownDirectory
  \/ TeardownTask \/ TeardownGroup \/ TeardownImport \/ TeardownAdapters
  \/ TeardownProfiles \/ TeardownSave \/ TeardownKill

LEMMA Cases ==
  Next <=> \/ StageLaunch \/ StagePreflight \/ StageWork \/ StageStops
           \/ ConnectLaunch \/ ConnectStep \/ ConnectKill \/ NetworkChanges
           \/ TeardownStep \/ Reboot
  BY DEF Next, TeardownStep

-----------------------------------------------------------------------------
\* Types

\* connect sees the service well typed, and so are its variables when they
\* do not change.
LEMMA ConnectTypesKept ==
  ASSUME ConnectFacts!TypeOK, UNCHANGED connectVars, status' \in [Adapter -> ConnectFacts!Status],
         UNCHANGED server, saved' \in SUBSET Adapter, UNCHANGED tripped
  PROVE  ConnectFacts!TypeOK'
  BY DEF connectVars, ConnectFacts!TypeOK, Velo, ConnectFacts!Service,
         ConnectFacts!Place, ConnectFacts!Outcome, ConnectFacts!Trip, ConnectFacts!Probing,
         ConnectFacts!Watching, ConnectFacts!Closing

LEMMA StageTypesKept ==
  ASSUME StageFacts!TypeOK, UNCHANGED stageVars, UNCHANGED <<exported, wfw, baseline>>,
         UNCHANGED historyVars, savedRules' \in SUBSET StageFacts!Foreign,
         fw' \in Staging!Policy, svc' \in Staging!Service, task' \in BOOLEAN
  PROVE  StageFacts!TypeOK'
  BY SameStage DEF stageVars, historyVars, StageFacts!TypeOK, StageFacts!Policy,
     Staging!Policy, Staging!Foreign, StageFacts!Foreign, StageFacts!Service,
     Staging!Service, StageFacts!Default, Staging!Default

\* What teardown may leave of the firewall is a firewall.
LEMMA PolicyUpdates ==
  ASSUME fw \in Staging!Policy, baseline \in [Profile -> Staging!Default]
  PROVE  /\ \A g \in SUBSET fw.group : [fw EXCEPT !.group = g] \in Staging!Policy
         /\ [fw EXCEPT !.profile = baseline] \in Staging!Policy
         /\ \A some \in SUBSET Profile :
              [fw EXCEPT !.profile = Staging!Overlay(some, baseline)] \in Staging!Policy
  <1>1. \A some \in SUBSET Profile :
          Staging!Overlay(some, baseline) \in [Profile -> Staging!Default]
    BY DEF Staging!Policy, Staging!Overlay
  <1> QED BY <1>1 DEF Staging!Policy

\* TypeOK, in the terms of StageProofs and ConnectProofs.
Rest ==
  /\ payload \in BOOLEAN /\ baseUp \subseteq Adapter
  /\ tpc \in Step \cup {"idle"} /\ tman \subseteq Adapter
  /\ failed \subseteq Step /\ ended \in Ended
  /\ ended = "complete" => failed = {}
  /\ forgotten \subseteq Adapter

LEMMA Parts ==
  /\ TypeOK <=> StageFacts!TypeOK /\ ConnectFacts!TypeOK /\ Rest
  /\ TypeOK' <=> StageFacts!TypeOK' /\ ConnectFacts!TypeOK' /\ Rest'
  BY SameStage, SameConnect DEF TypeOK, Rest

LEMMA InitTypeOK == Init => TypeOK
  <1> SUFFICES ASSUME Init PROVE TypeOK
    OBVIOUS
  <1>1. Staging!TypeOK
    <2>1. fw \in Staging!Policy /\ baseline \in [Profile -> Staging!Default]
      BY DEF Init, Staging!Init, Staging!Policy, Staging!Foreign, Staging!AllProfiles,
             Staging!Default
    <2> QED BY <2>1
            DEF Init, Staging!Init, Staging!TypeOK, Staging!Place, Staging!Outcome,
                Staging!Service, Staging!NoService
  <1>2. Connecting!TypeOK
    <2>1. status \in [Adapter -> Connecting!Status]
      BY DEF Init, Connecting!Init, Connecting!Status
    <2>2. Velo \in Connecting!Service
      BY DEF Velo, Connecting!Service
    <2> QED BY <2>1, <2>2
            DEF Init, Connecting!Init, Connecting!TypeOK, Connecting!Place,
                Connecting!Outcome
  <1> QED BY <1>1, <1>2 DEF Init, TypeOK, Ended, Connecting!Init

\* A teardown claims nothing before it has ended.
Ongoing == tpc # "idle" => ended = "none"

LEMMA NextTypeOK == TypeOK /\ Ongoing /\ [Next]_vars => TypeOK'
  <1> SUFFICES ASSUME TypeOK, Ongoing, [Next]_vars PROVE TypeOK'
    OBVIOUS
  <1>0. /\ StageFacts!TypeOK /\ ConnectFacts!TypeOK
        /\ fw \in Staging!Policy /\ wfw \in Staging!Policy
        /\ svc \in Staging!Service /\ task \in BOOLEAN
        /\ baseline \in [Profile -> Staging!Default]
        /\ status \in [Adapter -> ConnectFacts!Status]
        /\ saved \subseteq Adapter /\ savedRules \subseteq StageFacts!Foreign
        /\ tripped \subseteq Adapter /\ forgotten \subseteq Adapter
        /\ payload \in BOOLEAN /\ baseUp \subseteq Adapter
        /\ tpc \in Step \cup {"idle"} /\ tman \subseteq Adapter
        /\ failed \subseteq Step /\ ended \in Ended
        /\ ended = "complete" => failed = {}
    BY SameStage, SameConnect
    DEF TypeOK, Staging!TypeOK, ConnectFacts!TypeOK, Staging!Foreign, StageFacts!Foreign
  <1>s. ASSUME StageStep, StageAlone \/ StageLaunch, UNCHANGED payloadVars \/ StageWork,
               ManifestKept \/ ManifestCut
        PROVE  TypeOK'
    <2>1. StageFacts!TypeOK'
      BY <1>0, <1>s, StageSteps, StageFacts!NextTypeOK
    <2>2. ConnectFacts!TypeOK'
      BY <1>0, <1>s, ConnectTypesKept
      DEF StageAlone, StageLaunch, networkVars, recordVars, ManifestKept, ManifestCut
    <2>3. payload' \in BOOLEAN /\ baseUp' \subseteq Adapter
      BY <1>0, <1>s DEF payloadVars, StageWork
    <2>4. UNCHANGED <<tpc, tman, failed>> /\ ended' \in {ended, "none"}
      BY <1>s DEF StageAlone, StageLaunch, UsedAnew, teardownVars
    <2>5. forgotten' \subseteq Adapter
      BY <1>0, <1>s DEF StageAlone, StageLaunch, recordVars, ManifestKept, ManifestCut
    <2>6. Rest'
      BY <1>0, <2>3, <2>4, <2>5 DEF Rest, Ended
    <2> QED BY <2>1, <2>2, <2>6, Parts
  <1>1. CASE StageLaunch
    BY <1>1, <1>s, StageSteps DEF StageLaunch, recordVars, ManifestKept
  <1>2. CASE StagePreflight
    BY <1>2, <1>s, StageSteps DEF StagePreflight
  <1>3. CASE StageWork
    BY <1>3, <1>s, StageSteps DEF StageWork
  <1>4. CASE StageStops
    BY <1>4, <1>s, StageSteps DEF StageStops
  <1>5. CASE ConnectLaunch \/ ConnectStep \/ ConnectKill \/ NetworkChanges
    <2>1. ConnectFacts!TypeOK'
      BY <1>0, <1>5, ConnectSteps, ConnectAssumed, ConnectFacts!NextTypeOK
    <2>2. svc' \in Staging!Service
      BY <1>0, <1>5, ConnectSteps, ServiceUpdates DEF ConnectAlone
    <2>3. savedRules' \subseteq StageFacts!Foreign
      BY <1>0, <1>5 DEF ConnectLaunch, ConnectStep, Recorded, ConnectKill, NetworkChanges
    <2>4. StageFacts!TypeOK'
      BY <1>0, <1>5, <2>2, <2>3, ConnectSteps, StageTypesKept DEF ConnectAlone
    <2>5. forgotten' \subseteq Adapter
      <3>1. man' \subseteq Adapter
        BY <2>1 DEF ConnectFacts!TypeOK
      <3> QED BY <1>0, <1>5, <3>1
              DEF ConnectLaunch, ConnectStep, Recorded, ConnectKill, NetworkChanges
    <2>6. UNCHANGED <<tpc, tman, failed>> /\ ended' \in {ended, "none"}
      BY <1>5 DEF ConnectLaunch, ConnectStep, ConnectKill, NetworkChanges, UsedAnew,
                  teardownVars
    <2>7. Rest'
      BY <1>0, <1>5, <2>5, <2>6, ConnectSteps DEF Rest, Ended, ConnectAlone, payloadVars
    <2> QED BY <2>1, <2>4, <2>7, Parts
  <1>6. CASE TeardownStep
    <2>1. TeardownAlone
      BY <1>6 DEF TeardownStep, TeardownLaunch, TeardownStop, TeardownRemove,
         TeardownDirectory, TeardownTask, TeardownGroup, TeardownImport,
         TeardownAdapters, TeardownProfiles, TeardownSave, TeardownKill, HostOnly
    <2>2. /\ saved' \subseteq Adapter /\ savedRules' \subseteq StageFacts!Foreign
          /\ forgotten' \subseteq Adapter
      BY <1>0, <1>6 DEF TeardownStep, TeardownLaunch, TeardownStop, TeardownRemove,
         TeardownDirectory, TeardownTask, TeardownGroup, TeardownImport,
         TeardownAdapters, TeardownProfiles, TeardownSave, TeardownKill, HostOnly,
         FilesKept, ManifestKept, ManifestCut
    <2>3. svc' \in Staging!Service /\ task' \in BOOLEAN
      BY <1>0, <1>6, ServiceUpdates
      DEF TeardownStep, TeardownLaunch, TeardownStop, TeardownRemove,
          TeardownDirectory, TeardownTask, TeardownGroup, TeardownImport,
          TeardownAdapters, TeardownProfiles, TeardownSave, TeardownKill, hostVars
    <2>4. fw' \in Staging!Policy
      BY <1>0, <1>6, PolicyUpdates
      DEF TeardownStep, TeardownLaunch, TeardownStop, TeardownRemove,
          TeardownDirectory, TeardownTask, TeardownGroup, TeardownImport,
          TeardownAdapters, TeardownProfiles, TeardownSave, TeardownKill, hostVars
    <2>5. status' \in [Adapter -> ConnectFacts!Status]
      <3>1. \A names : Enabled(names) \in [Adapter -> ConnectFacts!Status]
        BY <1>0 DEF Enabled, ConnectFacts!Status
      <3> QED BY <1>0, <1>6, <3>1
          DEF TeardownStep, TeardownLaunch, TeardownStop, TeardownRemove,
          TeardownDirectory, TeardownTask, TeardownGroup, TeardownImport,
          TeardownAdapters, TeardownProfiles, TeardownSave, TeardownKill, HostOnly
    <2>6. /\ tpc' \in Step \cup {"idle"} /\ tman' \subseteq Adapter
          /\ failed' \subseteq Step /\ ended' \in Ended
          /\ ended' = "complete" => failed' = {}
      <3>1. /\ tpc' \in Step \cup {"idle"} /\ tman' \subseteq Adapter /\ ended' \in Ended
        BY <1>0, <1>6
        DEF TeardownStep, TeardownLaunch, TeardownStop, TeardownRemove,
            TeardownDirectory, TeardownTask, TeardownGroup, TeardownImport,
            TeardownAdapters, TeardownProfiles, TeardownSave, TeardownKill,
            Teardown, Step, Ended
      <3>2. UNCHANGED failed \/ \E step \in Step : Done(step) \/ Fails(step)
        BY <1>6
        DEF TeardownStep, TeardownLaunch, TeardownStop, TeardownRemove,
            TeardownDirectory, TeardownTask, TeardownGroup, TeardownImport,
            TeardownAdapters, TeardownProfiles, TeardownSave, TeardownKill,
            MayFail, Step
      <3>3. failed' \subseteq Step
        BY <1>0, <3>2 DEF Done, Fails
      <3>4. ended' = "complete" => failed' = {}
        BY <1>0, <1>6 
        DEF Ongoing, TeardownStep, TeardownLaunch, TeardownStop, TeardownRemove,
            TeardownDirectory, TeardownTask, TeardownGroup, TeardownImport,
            TeardownAdapters, TeardownProfiles, TeardownSave, TeardownKill, Teardown
      <3> QED BY <3>1, <3>3, <3>4
    <2>7. StageFacts!TypeOK'
      BY <1>0, <2>1, <2>2, <2>3, <2>4, StageTypesKept DEF TeardownAlone
    <2>8. ConnectFacts!TypeOK'
      BY <1>0, <2>1, <2>2, <2>5, ConnectTypesKept DEF TeardownAlone
    <2>9. Rest'
      BY <1>0, <2>1, <2>2, <2>6 DEF Rest, TeardownAlone, payloadVars
    <2> QED BY <2>7, <2>8, <2>9, Parts
  <1>7. CASE Reboot
    <2>1. svc' \in Staging!Service
      BY <1>0, <1>7, ServiceUpdates DEF Reboot
    <2>2. /\ saved' \subseteq Adapter /\ savedRules' \subseteq StageFacts!Foreign
          /\ UNCHANGED tripped /\ forgotten' \subseteq Adapter
      BY <1>0, <1>7 DEF Reboot, ManifestCut
    <2>3. StageFacts!TypeOK'
      BY <1>0, <1>7, <2>1, <2>2
      DEF Reboot, Staging!Halt, historyVars, StageFacts!TypeOK, StageFacts!Place,
          StageFacts!Outcome, StageFacts!Service, Staging!Service
    <2>4. ConnectFacts!TypeOK'
      <3>1. Velo' \in ConnectFacts!Service
        BY DEF Velo, ConnectFacts!Service
      <3> QED BY <1>0, <1>7, <2>2, <3>1
          DEF Reboot, Connecting!ResetTimers, ConnectFacts!TypeOK, ConnectFacts!Place,
              ConnectFacts!Outcome, networkVars
    <2>5. Rest'
      BY <1>0, <1>7, <2>2 DEF Reboot, Rest, Ended, payloadVars
    <2> QED BY <2>3, <2>4, <2>5, Parts
  <1>8. CASE UNCHANGED vars
    <2>1. StageFacts!TypeOK'
      BY <1>0, <1>8, StageTypesKept DEF vars, hostVars, fileVars
    <2>2. ConnectFacts!TypeOK'
      BY <1>0, <1>8, ConnectTypesKept DEF vars, networkVars, recordVars
    <2>3. Rest'
      BY <1>0, <1>8 DEF vars, Rest, payloadVars, teardownVars, recordVars
    <2> QED BY <2>1, <2>2, <2>3, Parts
  <1> QED BY <1>1, <1>2, <1>3, <1>4, <1>5, <1>6, <1>7, <1>8, Cases

-----------------------------------------------------------------------------
\* Who may run beside whom, when teardown waits for connect to end

Alone ==
  /\ spc # "idle" => tpc = "idle" /\ cpc = "idle" /\ ended = "none"
  /\ tpc # "idle" => cpc = "idle"

\* Only StageLaunch, of the actions of stage, finds no process.
LEMMA StageRuns == StagePreflight \/ StageWork \/ StageStops => spc # "idle"
  BY DEF StagePreflight, StageWork, StageStops, Staging!Preflight, Staging!Work,
         Staging!TakeFiles, Staging!CaptureVolatile, Staging!Export,
         Staging!Snapshot, Staging!AddRule, Staging!Sweep, Staging!Flip,
         Staging!Import, Staging!UnwindGroup, Staging!UnwindProfiles,
         Staging!UnwindRules, Staging!CopyPayload, Staging!ServiceInstall,
         Staging!ServiceStop, Staging!ServiceDemand, Staging!CheckPath,
         Staging!CreateTask, Staging!Ready, Staging!CtrlC, Staging!Kill

LEMMA TeardownRuns ==
  /\ TeardownStep => TeardownAlone /\ (tpc # "idle" \/ TeardownLaunch)
  /\ TeardownStep /\ Ongoing => ended' = "none" \/ tpc' = "idle"
  BY DEF TeardownStep, TeardownLaunch, TeardownStop, TeardownRemove,
         TeardownDirectory, TeardownTask, TeardownGroup, TeardownImport,
         TeardownAdapters, TeardownProfiles, TeardownSave, TeardownKill,
         Teardown, HostOnly, Ongoing

LEMMA NextOngoing == Ongoing /\ [Next]_vars => Ongoing'
  <1> SUFFICES ASSUME Ongoing, [Next]_vars PROVE Ongoing'
    OBVIOUS
  <1>1. CASE StageLaunch \/ StagePreflight \/ StageWork \/ StageStops
    BY <1>1 DEF Ongoing, StageLaunch, StagePreflight, StageWork, StageStops, StageAlone,
                UsedAnew, teardownVars
  <1>2. CASE ConnectLaunch \/ ConnectStep \/ ConnectKill \/ NetworkChanges
    BY <1>2 DEF Ongoing, ConnectLaunch, ConnectStep, ConnectKill, NetworkChanges,
                UsedAnew, teardownVars
  <1>3. CASE TeardownStep
    BY <1>3, TeardownRuns DEF Ongoing
  <1>4. CASE Reboot
    BY <1>4 DEF Ongoing, Reboot
  <1>5. CASE UNCHANGED vars
    BY <1>5 DEF Ongoing, vars, teardownVars
  <1> QED BY <1>1, <1>2, <1>3, <1>4, <1>5, Cases

LEMMA NextAlone ==
  ASSUME ~Overlap, Ongoing, Alone, [Next]_vars
  PROVE  Alone'
  <1>1. CASE StageLaunch
    BY <1>1 DEF Alone, StageLaunch, UsedAnew, connectVars
  <1>2. CASE StagePreflight \/ StageWork \/ StageStops
    BY <1>2, StageRuns
    DEF Alone, StagePreflight, StageWork, StageStops, StageAlone, connectVars, teardownVars
  <1>3. CASE ConnectLaunch \/ ConnectStep \/ ConnectKill
    BY <1>3, ConnectSteps
    DEF Alone, ConnectLaunch, ConnectStep, ConnectKill, ConnectAlone, UsedAnew,
        stageVars, teardownVars
  <1>4. CASE NetworkChanges
    BY <1>4, ConnectSteps
    DEF Alone, NetworkChanges, ConnectAlone, stageVars, teardownVars
  <1>5. CASE TeardownStep
    <2>1. spc = "idle"
      BY <1>5, TeardownRuns DEF Alone, TeardownLaunch
    <2>2. cpc = "idle"
      BY <1>5, TeardownRuns DEF Alone, TeardownLaunch
    <2> QED BY <1>5, <2>1, <2>2, TeardownRuns
            DEF Alone, TeardownAlone, stageVars, connectVars
  <1>6. CASE Reboot
    BY <1>6 DEF Alone, Reboot, Staging!Halt
  <1>7. CASE UNCHANGED vars
    BY <1>7 DEF Alone, vars, stageVars, connectVars, teardownVars
  <1> QED BY <1>1, <1>2, <1>3, <1>4, <1>5, <1>6, <1>7, Cases

-----------------------------------------------------------------------------
\* Where the service may be, and where it may run

AfterRemove == {"directory", "task", "group", "import", "adapters", "profiles", "save"}

\* Outside the quarantine there is the service only when its removal has
\* failed, and without registration it runs only when its stop has.
ServiceBound ==
  /\ svc.installed => Staging!Quarantined \/ "remove" \in failed
  /\ svc.running /\ ~svc.installed => "stop" \in failed
  /\ svc.auto => svc.installed
  /\ tpc = "remove" /\ svc.running => "stop" \in failed
  /\ tpc \in AfterRemove /\ svc.installed => "remove" \in failed

\* connect, and the network around every process, change of the host no more
\* than whether a registered service runs.
LEMMA HostSteps ==
  ASSUME svc \in Staging!Service,
         ConnectLaunch \/ ConnectStep \/ ConnectKill \/ NetworkChanges
  PROVE  /\ UNCHANGED <<spc, left, fw, task, tpc, failed, exported, wfw, baseline, original>>
         /\ svc'.installed = svc.installed /\ svc'.auto = svc.auto
         /\ ~svc.installed \/ NetworkChanges => svc'.running = svc.running
  <1>1. PICK running \in BOOLEAN : /\ ~svc.installed => running = svc.running
                                  /\ svc' = [svc EXCEPT !.running = running]
    BY ConnectSteps DEF ConnectAlone
  <1>2. /\ svc'.installed = svc.installed /\ svc'.auto = svc.auto
        /\ svc'.running = running
    BY <1>1, ServiceUpdates
  <1>3. NetworkChanges => svc'.running = svc.running
    BY <1>1, <1>2, ConnectSteps, ServiceUpdates DEF Velo
  <1> QED BY <1>1, <1>2, <1>3, ConnectSteps
          DEF ConnectAlone, stageVars, historyVars, ConnectLaunch, ConnectStep,
              ConnectKill, NetworkChanges, UsedAnew, teardownVars

\* What the steps of teardown do to the service.
LEMMA TeardownService ==
  ASSUME svc \in Staging!Service, TeardownStep
  PROVE  \/ UNCHANGED svc
         \/ /\ tpc = "stop" /\ UNCHANGED fw
            /\ svc'.installed = svc.installed /\ svc'.auto = svc.auto
            /\ ~svc'.running
         \/ /\ tpc = "remove" /\ UNCHANGED fw
            /\ ~svc'.installed /\ ~svc'.auto /\ svc'.running = svc.running
  <1>1. CASE TeardownStop
    BY <1>1, ServiceUpdates DEF TeardownStop, Teardown
  <1>2. CASE TeardownRemove
    BY <1>2, ServiceUpdates DEF TeardownRemove, Teardown
  <1>3. CASE ~TeardownStop /\ ~TeardownRemove
    BY <1>3
    DEF TeardownStep, TeardownLaunch, TeardownDirectory, TeardownTask, TeardownGroup,
        TeardownImport, TeardownAdapters, TeardownProfiles, TeardownSave,
        TeardownKill, hostVars
  <1> QED BY <1>1, <1>2, <1>3

LEMMA NextOrder ==
  ASSUME ~Overlap, TypeOK, Ongoing, Alone, StageFacts!Order, [Next]_vars
  PROVE  StageFacts!Order'
  <1>1. svc \in Staging!Service /\ StageFacts!TypeOK
    BY Parts DEF TypeOK, Staging!TypeOK
  <1>2. CASE StageLaunch \/ StagePreflight \/ StageWork \/ StageStops
    BY <1>1, <1>2, StageSteps, StageFacts!NextOrder
  <1>3. CASE ConnectLaunch \/ ConnectStep \/ ConnectKill \/ NetworkChanges
    <2>1. UNCHANGED <<spc, left, fw>> /\ svc'.installed = svc.installed
      BY <1>1, <1>3, HostSteps, ConnectSteps DEF ConnectAlone, stageVars
    <2> QED BY <2>1 DEF StageFacts!Order, StageFacts!Quarantined
  <1>4. CASE TeardownStep
    <2>1. spc' = "idle"
      BY <1>4, TeardownRuns DEF Alone, TeardownLaunch, TeardownAlone, stageVars
    <2> QED BY <2>1 DEF StageFacts!Order, StageFacts!NoServiceYet, StageFacts!Installing,
                        StageFacts!Quarantining, StageFacts!Unwinding
  <1>5. CASE Reboot
    <2>1. spc' = "idle"
      BY <1>5 DEF Reboot, Staging!Halt
    <2> QED BY <2>1 DEF StageFacts!Order, StageFacts!NoServiceYet, StageFacts!Installing,
                        StageFacts!Quarantining, StageFacts!Unwinding
  <1>6. CASE UNCHANGED vars
    BY <1>6 DEF vars, stageVars, hostVars, StageFacts!Order, StageFacts!Quarantined
  <1> QED BY <1>2, <1>3, <1>4, <1>5, <1>6, Cases

LEMMA NextServiceBound ==
  ASSUME ~Overlap, TypeOK, Ongoing, Alone, StageFacts!Order, ServiceBound, [Next]_vars
  PROVE  ServiceBound'
  <1>1. svc \in Staging!Service /\ StageFacts!TypeOK
    BY Parts DEF TypeOK, Staging!TypeOK
  <1>2. CASE StageLaunch \/ StagePreflight \/ StageWork \/ StageStops
    <2>1. tpc' = "idle" /\ UNCHANGED failed
      BY <1>2, StageRuns
      DEF Alone, StageLaunch, StagePreflight, StageWork, StageStops, StageAlone,
          UsedAnew, teardownVars
    <2>2. StageFacts!ServiceKept \/ StageFacts!ServiceChanged
      BY <1>1, <1>2, StageSteps, StageFacts!ServiceSteps DEF StageStep
    <2>3. CASE StageFacts!ServiceKept
      BY <2>1, <2>3 DEF ServiceBound, AfterRemove, StageFacts!ServiceKept, Staging!Quarantined
    <2>4. CASE StageFacts!ServiceChanged
      <3>1. Staging!Quarantined'
        BY <2>4, SameStage
        DEF StageFacts!ServiceChanged, Staging!Quarantined, StageFacts!Quarantined,
            Staging!AllProfiles, StageFacts!AllProfiles
      <3> QED BY <2>1, <2>4, <3>1
              DEF ServiceBound, AfterRemove, StageFacts!ServiceChanged
    <2> QED BY <2>2, <2>3, <2>4
  <1>3. CASE ConnectLaunch \/ ConnectStep \/ ConnectKill \/ NetworkChanges
    <2>1. NetworkChanges \/ tpc = "idle"
      BY <1>3, ConnectSteps DEF Alone, ConnectLaunch
    <2> QED BY <1>1, <1>3, <2>1, HostSteps DEF ServiceBound, AfterRemove, Staging!Quarantined
  <1>4. CASE TeardownStep
    <2> USE <1>1 DEF ServiceBound, AfterRemove
    <2>1. CASE TeardownStop
      BY <2>1, ServiceUpdates, TeardownService DEF TeardownStop, Teardown, Done, Fails, MayFail, Staging!Quarantined, TeardownStep
    <2>2. CASE TeardownRemove
      BY <2>2, ServiceUpdates, TeardownService DEF TeardownRemove, Teardown, Done, Fails, MayFail, Staging!Quarantined, TeardownStep
    <2>3. CASE TeardownLaunch
      BY <2>3 DEF TeardownLaunch, hostVars, Staging!Quarantined
    <2>4. CASE TeardownKill
      BY <2>4 DEF TeardownKill, hostVars, Staging!Quarantined
    <2>5. CASE TeardownDirectory \/ TeardownTask \/ TeardownGroup \/ TeardownImport
               \/ TeardownAdapters \/ TeardownProfiles \/ TeardownSave
      <3>1. tpc \in AfterRemove /\ tpc' \in AfterRemove \cup {"idle"} /\ UNCHANGED svc
        BY <2>5
        DEF TeardownDirectory, TeardownTask, TeardownGroup, TeardownImport, Teardown,
            TeardownAdapters, TeardownProfiles, TeardownSave, hostVars
      <3>2. /\ "remove" \in failed => "remove" \in failed'
            /\ "stop" \in failed => "stop" \in failed'
        BY <2>5
        DEF TeardownDirectory, TeardownTask, TeardownGroup, TeardownImport, Teardown,
            TeardownAdapters, TeardownProfiles, TeardownSave, Done, Fails, MayFail
      <3> QED BY <3>1, <3>2
    <2> QED BY <1>4, <2>1, <2>2, <2>3, <2>4, <2>5 DEF TeardownStep
  <1>5. CASE Reboot
    <2>1. /\ svc'.installed = svc.installed /\ svc'.auto = svc.auto
          /\ svc'.running = svc.auto
      BY <1>1, <1>5, ServiceUpdates DEF Reboot
    <2> QED BY <1>5, <2>1 DEF Reboot, ServiceBound, AfterRemove, Staging!Quarantined
  <1>6. CASE UNCHANGED vars
    BY <1>6 DEF vars, hostVars, teardownVars, ServiceBound, Staging!Quarantined
  <1> QED BY <1>2, <1>3, <1>4, <1>5, <1>6, Cases

-----------------------------------------------------------------------------
\* The startup task, which may bring connect back at every reboot

AfterTask == {"group", "import", "adapters", "profiles", "save"}

\* Past its own step, and after the end, teardown has left the task only when
\* it could not delete it.
TaskGone ==
  /\ tpc \in AfterTask /\ task => "task" \in failed
  /\ ended \in {"complete", "errors"} /\ task => "task" \in failed

LEMMA NextTaskGone ==
  ASSUME ~Overlap, TypeOK, Ongoing, Alone, TaskGone, [Next]_vars
  PROVE  TaskGone'
  <1> USE DEF TaskGone, AfterTask
  <1>1. svc \in Staging!Service
    BY DEF TypeOK, Staging!TypeOK
  <1>2. CASE StageLaunch \/ StagePreflight \/ StageWork \/ StageStops
    BY <1>2, StageRuns
    DEF Alone, StageLaunch, StagePreflight, StageWork, StageStops, StageAlone,
        UsedAnew, teardownVars
  <1>3. CASE ConnectLaunch \/ ConnectStep \/ ConnectKill \/ NetworkChanges
    <2>1. ended' \in {ended, "none"}
      BY <1>3 DEF ConnectLaunch, ConnectStep, ConnectKill, NetworkChanges, UsedAnew,
                  teardownVars
    <2> QED BY <1>1, <1>3, <2>1, HostSteps
  <1>4. CASE TeardownStep
    <2>1. CASE TeardownTask
      BY <2>1 DEF TeardownTask, Teardown, Ongoing, Fails, MayFail
    <2>2. CASE TeardownLaunch \/ TeardownStop \/ TeardownRemove \/ TeardownDirectory
               \/ TeardownKill
      BY <2>2 DEF TeardownLaunch, TeardownStop, TeardownRemove, TeardownDirectory,
                  TeardownKill, Teardown, Ongoing
    <2>3. CASE TeardownGroup \/ TeardownImport \/ TeardownAdapters \/ TeardownProfiles
               \/ TeardownSave
      <3>1. /\ tpc \in AfterTask /\ UNCHANGED task
            /\ "task" \in failed => "task" \in failed'
        BY <2>3
        DEF TeardownGroup, TeardownImport, TeardownAdapters, TeardownProfiles,
            TeardownSave, Teardown, Done, Fails, MayFail, hostVars
      <3> QED BY <3>1
    <2> QED BY <1>4, <2>1, <2>2, <2>3 DEF TeardownStep
  <1>5. CASE Reboot
    BY <1>5 DEF Reboot, Ongoing
  <1>6. CASE UNCHANGED vars
    BY <1>6 DEF vars, hostVars, teardownVars
  <1> QED BY <1>2, <1>3, <1>4, <1>5, <1>6, Cases

-----------------------------------------------------------------------------
\* Which adapters are disabled, and who remembers them

Off == {a \in Adapter : status[a] = "disabled"}

\* What the memory of the running trip adds to manifest.json.
InMemory == IF cpc = "disable" THEN disabled ELSE {}

AfterAdapters == {"profiles", "save"}

\* Every disabled adapter was disabled by the watchdog, and is recorded, still
\* in the memory of the trip, or forgotten.  A running connect rewrites the
\* record only with what it read from it, and teardown enables what it read.
Accounted ==
  /\ Off \subseteq tripped
  /\ Off \subseteq saved \cup forgotten \cup InMemory
  /\ cpc = "disable" => Off \subseteq disabled \cup todo
  /\ cpc # "idle" => saved \subseteq man
  /\ tpc # "idle" => tman = saved
  /\ tpc \in AfterAdapters => "adapters" \in failed \/ Off \subseteq forgotten
  /\ ended = "complete" => cpc = "idle" /\ Off \subseteq forgotten

\* What connect's steps do to the adapters, when every trip finds and disables
\* all there are: one after the other, and then the record has every one.
LEMMA ConnectAdapters ==
  ASSUME {"list", "disable"} \cap Faults = {}, TypeOK, Accounted,
         Connecting!Step \/ Connecting!CtrlC
  PROVE  /\ Off' \subseteq tripped'
         /\ Off' \subseteq man' \cup forgotten \cup InMemory'
         /\ cpc' = "disable" => Off' \subseteq disabled' \cup todo'
         /\ cpc' # "idle" => saved' \subseteq man'
  <1> USE DEF Accounted, InMemory
  <1>1. status \in [Adapter -> Connecting!Status]
    BY DEF TypeOK, Connecting!TypeOK
  <1>2. cpc # "idle" => Off \subseteq man \cup forgotten \cup InMemory
    OBVIOUS
  <1>3. CASE \/ Connecting!LinkFails \/ Connecting!LinkFound \/ Connecting!LinkSleep
             \/ Connecting!ProbeServer \/ Connecting!ProbeSleep
             \/ Connecting!StartFails \/ Connecting!BeatSleep \/ Connecting!Beat
             \/ Connecting!StopVelo \/ Connecting!CtrlC
    <2>1. /\ UNCHANGED <<status, man, saved, tripped, disabled, todo>>
          /\ cpc # "idle" /\ (cpc = "disable" <=> cpc' = "disable")
      BY <1>3
      DEF Connecting!LinkFails, Connecting!LinkFound, Connecting!LinkSleep,
          Connecting!ProbeServer, Connecting!ProbeSleep, Connecting!StartFails,
          Connecting!BeatSleep, Connecting!Beat, Connecting!StopVelo, Connecting!CtrlC,
          Connecting!Goto, Connecting!Leave, Connecting!FailClosed,
          Connecting!record, Connecting!closing
    <2> QED BY <1>2, <2>1 DEF Off
  <1>4. CASE Connecting!PhaseConnect \/ Connecting!StartVelo
    <2>1. /\ UNCHANGED <<status, man, tripped, disabled, todo>>
          /\ cpc # "idle" /\ cpc # "disable" /\ cpc' # "disable"
          /\ saved' \in {man, saved, {}}
      BY <1>4
      DEF Connecting!PhaseConnect, Connecting!StartVelo, Connecting!Goto,
          Connecting!Leave, Connecting!Save, Connecting!closing
    <2> QED BY <1>2, <2>1 DEF Off
  <1>5. CASE Connecting!ListAdapters
    <2>1. /\ UNCHANGED <<status, man, saved, tripped, disabled>>
          /\ cpc = "list" /\ cpc' = "disable" /\ todo' = Connecting!Present
      BY <1>5 DEF Connecting!ListAdapters, Connecting!Goto, Connecting!record
    <2>2. Off \subseteq Connecting!Present
      BY DEF Off, Connecting!Present
    <2> QED BY <1>2, <2>1, <2>2 DEF Off
  <1>6. ASSUME NEW a \in Adapter, Connecting!DisableOne(a)
        PROVE  /\ Off' \subseteq tripped'
               /\ Off' \subseteq man' \cup forgotten \cup InMemory'
               /\ cpc' = "disable" => Off' \subseteq disabled' \cup todo'
               /\ cpc' # "idle" => saved' \subseteq man'
    <2>1. /\ UNCHANGED <<cpc, man, saved>> /\ cpc = "disable" /\ a \in todo
          /\ todo' = todo \ {a}
          /\ status' = [status EXCEPT ![a] = "disabled"]
          /\ disabled' = disabled \cup {a} /\ tripped' = tripped \cup {a}
      BY <1>6 DEF Connecting!DisableOne, Connecting!process
    <2>2. Off' = Off \cup {a}
      BY <1>1, <2>1 DEF Off
    <2> QED BY <1>2, <2>1, <2>2
  <1>7. CASE Connecting!RecordTrip
    <2>1. /\ UNCHANGED <<status, tripped>> /\ cpc = "disable" /\ todo = {}
          /\ cpc' = "idle" /\ man' = disabled
      BY <1>7 DEF Connecting!RecordTrip, Connecting!Leave
    <2> QED BY <2>1 DEF Off
  <1> QED BY <1>3, <1>4, <1>5, <1>6, <1>7 DEF Connecting!Step

\* A manifest that is cut short or left as it is forgets no adapter.
LEMMA ManifestSteps ==
  ASSUME Off \subseteq tripped, Off \subseteq saved \cup forgotten,
         UNCHANGED <<status, tripped>>, ManifestKept \/ ManifestCut
  PROVE  /\ Off' = Off /\ forgotten \subseteq forgotten'
         /\ Off' \subseteq saved' \cup forgotten'
  BY DEF Off, ManifestKept, ManifestCut

LEMMA NextAccounted ==
  ASSUME ~Overlap, {"list", "disable"} \cap Faults = {},
         TypeOK, TypeOK', Ongoing, Alone, TaskGone, Accounted, [Next]_vars
  PROVE  Accounted'
  <1>0. /\ status \in [Adapter -> Connecting!Status]
        /\ Off \subseteq tripped /\ Off \subseteq saved \cup forgotten \cup InMemory
        /\ ended = "complete" => failed = {}
    BY DEF TypeOK, Connecting!TypeOK, Accounted
  <1>1. CASE StageLaunch
    BY <1>1
    DEF Accounted, InMemory, Off, StageLaunch, UsedAnew, connectVars, networkVars, recordVars
  <1>2. CASE StagePreflight \/ StageWork \/ StageStops
    <2>1. /\ cpc = "idle" /\ cpc' = "idle" /\ tpc = "idle" /\ tpc' = "idle"
          /\ ended' = "none"
          /\ UNCHANGED <<status, tripped>>
      BY <1>2, StageRuns
      DEF Alone, StagePreflight, StageWork, StageStops, StageAlone, connectVars,
          networkVars, teardownVars
    <2>2. ManifestKept \/ ManifestCut
      BY <1>2 DEF StagePreflight, StageWork, StageStops
    <2> QED BY <1>0, <2>1, <2>2, ManifestSteps DEF Accounted, InMemory, AfterAdapters
  <1>3. CASE ConnectLaunch
    <2>1. /\ cpc = "idle" /\ cpc' = "link" /\ man' = saved
          /\ UNCHANGED <<status, saved, tripped, forgotten>>
          /\ tpc = "idle" /\ tpc' = "idle" /\ ended' = "none"
      BY <1>3 DEF ConnectLaunch, Connecting!Launch, UsedAnew
    <2> QED BY <1>0, <2>1 DEF Accounted, InMemory, AfterAdapters, Off
  <1>4. CASE ConnectStep
    <2>1. cpc # "idle" /\ tpc = "idle" /\ tpc' = "idle" /\ ended' # "complete"
      BY <1>4, ConnectSteps DEF Alone, ConnectStep, teardownVars, Accounted
    <2>2. saved' \cup man' \cup forgotten \subseteq saved' \cup forgotten'
      BY <1>4 DEF ConnectStep, Recorded
    <2>3. Connecting!Step \/ Connecting!CtrlC
      BY <1>4 DEF ConnectStep
    <2> QED BY <2>1, <2>2, <2>3, ConnectAdapters DEF Accounted, AfterAdapters
  <1>5. CASE ConnectKill
    <2>1. cpc' = "idle" /\ tpc = "idle" /\ tpc' = "idle" /\ ended' # "complete"
      BY <1>5, ConnectSteps
      DEF Alone, ConnectKill, teardownVars, Accounted, Connecting!Kill, Connecting!Leave
    <2>2. Off' = Off /\ UNCHANGED tripped
      BY <1>5 DEF ConnectKill, Connecting!Kill, Off
    <2>3. tripped \subseteq saved' \cup forgotten'
      BY <1>5 DEF ConnectKill
    <2> QED BY <1>0, <2>1, <2>2, <2>3 DEF Accounted, AfterAdapters
  <1>6. CASE NetworkChanges
    <2>1. Off' = Off
      BY <1>0, <1>6
      DEF NetworkChanges, Connecting!ServerChanges, Connecting!Plug, Off
    <2>2. UNCHANGED <<cpc, tpc, tman, failed, ended, todo, disabled, man, saved, tripped,
                      forgotten>>
      BY <1>6
      DEF NetworkChanges, teardownVars, Connecting!ServerChanges, Connecting!Plug,
          Connecting!process, Connecting!closing, Connecting!record
    <2> QED BY <2>1, <2>2 DEF Accounted, InMemory
  <1>7. CASE TeardownStep
    <2>1. /\ cpc = "idle" /\ cpc' = "idle" /\ UNCHANGED tripped
          /\ tpc' # "idle" => ended' = "none"
      BY <1>7, TeardownRuns
      DEF Alone, Ongoing, TeardownLaunch, TeardownAlone, connectVars
    <2>2. Off \subseteq saved \cup forgotten
      BY <1>0, <2>1 DEF InMemory
    <2>3. CASE TeardownLaunch
      BY <1>0, <2>1, <2>2, <2>3
      DEF TeardownLaunch, HostOnly, FilesKept, ManifestKept, Accounted, InMemory,
          AfterAdapters, Off
    <2>4. CASE TeardownStop \/ TeardownRemove \/ TeardownDirectory \/ TeardownTask
               \/ TeardownGroup \/ TeardownImport
      <3>1. /\ UNCHANGED <<status, saved, forgotten, tman>>
            /\ tpc # "idle" /\ tpc' \notin AfterAdapters \cup {"idle"}
        BY <2>4
        DEF TeardownStop, TeardownRemove, TeardownDirectory, TeardownTask,
            TeardownGroup, TeardownImport, Teardown, HostOnly, FilesKept,
            ManifestKept, AfterAdapters
      <3> QED BY <1>0, <2>1, <2>2, <3>1 DEF Accounted, InMemory, Off
    <2>5. CASE TeardownAdapters
      <3>1. /\ UNCHANGED <<saved, forgotten, tman>>
            /\ tpc = "adapters" /\ tpc' = "profiles" /\ tman = saved
        BY <2>5
        DEF TeardownAdapters, Teardown, FilesKept, ManifestKept, Accounted
      <3>2. \A names : Off' = Off \ names \/ status' # Enabled(names)
        BY <1>0 DEF Off, Enabled
      <3>3. Off' \subseteq Off
        BY <2>5, <3>2 DEF TeardownAdapters
      <3>4. "adapters" \in failed' \/ Off' \subseteq forgotten
        BY <2>2, <2>5, <3>1, <3>2 DEF TeardownAdapters, MayFail, Fails
      <3> QED BY <1>0, <2>1, <2>2, <3>1, <3>3, <3>4 DEF Accounted, InMemory
    <2>6. CASE TeardownProfiles
      <3>1. /\ UNCHANGED <<status, saved, forgotten, tman>>
            /\ tpc = "profiles" /\ tpc' = "save"
            /\ "adapters" \in failed => "adapters" \in failed'
        BY <2>6
        DEF TeardownProfiles, Teardown, HostOnly, FilesKept, ManifestKept, Done,
            Fails, MayFail
      <3> QED BY <1>0, <2>1, <2>2, <3>1 DEF Accounted, InMemory, AfterAdapters, Off
    <2>7. CASE TeardownSave
      <3>1. /\ ManifestKept \/ ManifestCut \/ (saved' = tman /\ UNCHANGED forgotten)
            /\ tpc = "save" /\ tpc' = "idle" /\ UNCHANGED status
            /\ ended' = "complete" => failed' = {}
            /\ "adapters" \in failed => "adapters" \in failed'
        BY <2>7 DEF TeardownSave, FilesKept, Done, Fails, MayFail
      <3>2. tman = saved
        BY <3>1 DEF Accounted
      <3>3. ManifestKept \/ ManifestCut
        BY <3>1, <3>2 DEF ManifestKept
      <3>4. /\ Off' = Off /\ forgotten \subseteq forgotten'
            /\ Off' \subseteq saved' \cup forgotten'
        BY <1>0, <2>1, <2>2, <3>1, <3>3, ManifestSteps
      <3> QED BY <1>0, <2>1, <3>1, <3>4 DEF Accounted, InMemory, AfterAdapters
    <2>8. CASE TeardownKill
      <3>1. /\ ManifestKept \/ ManifestCut
            /\ tpc' = "idle" /\ UNCHANGED status /\ ended' = "killed"
        BY <2>8 DEF TeardownKill, FilesKept
      <3>2. /\ Off' = Off
            /\ Off' \subseteq saved' \cup forgotten'
        BY <1>0, <2>1, <2>2, <3>1, ManifestSteps
      <3> QED BY <1>0, <2>1, <3>1, <3>2 DEF Accounted, InMemory, AfterAdapters
    <2> QED BY <1>7, <2>3, <2>4, <2>5, <2>6, <2>7, <2>8 DEF TeardownStep
  <1>8. CASE Reboot
    <2>1. /\ UNCHANGED <<status, tripped, task>> /\ tpc' = "idle"
          /\ cpc' \in {"idle", "link"}
          /\ cpc' # "idle" => task /\ man' = saved'
          /\ ended' = "complete" => ended = "complete" /\ tpc = "idle"
      BY <1>8 DEF Reboot, networkVars
    <2>2. tripped \subseteq saved' \cup forgotten' /\ forgotten \subseteq forgotten'
      BY <1>8 DEF Reboot, ManifestCut
    <2>3. Off' = Off
      BY <2>1 DEF Off
    <2>4. ended' = "complete" => cpc' = "idle" /\ Off' \subseteq forgotten'
      BY <1>0, <2>1, <2>2, <2>3 DEF TaskGone, Accounted
    <2> QED BY <1>0, <2>1, <2>2, <2>3, <2>4 DEF Accounted, InMemory, AfterAdapters
  <1>9. CASE UNCHANGED vars
    BY <1>9 DEF vars, connectVars, networkVars, recordVars, teardownVars, Accounted,
                InMemory, Off
  <1> QED BY <1>1, <1>2, <1>3, <1>4, <1>5, <1>6, <1>7, <1>8, <1>9, Cases DEF TeardownStep

-----------------------------------------------------------------------------
\* What teardown undoes, when stage has run once

\* Restoring what is there changes nothing.
LEMMA SamePolicy ==
  ASSUME fw \in Staging!Policy, baseline = fw.profile
  PROVE  /\ [fw EXCEPT !.profile = baseline] = fw
         /\ \A some \in SUBSET Profile :
              [fw EXCEPT !.profile = Staging!Overlay(some, baseline)] = fw
         /\ fw.group = {} => \A g \in SUBSET fw.group : [fw EXCEPT !.group = g] = fw
  <1>1. [fw EXCEPT !.profile = fw.profile] = fw /\ [fw EXCEPT !.group = fw.group] = fw
    BY DEF Staging!Policy
  <1>2. \A some \in SUBSET Profile : Staging!Overlay(some, fw.profile) = fw.profile
    BY DEF Staging!Policy, Staging!Overlay
  <1> QED BY <1>1, <1>2

AfterImport == {"adapters", "profiles", "save"}

\* What a teardown has undone so far, and once it has ended.
Undone ==
  /\ tpc \in AfterImport /\ fw # original => "import" \in failed
  /\ ended \in {"complete", "errors"} =>
       /\ svc.installed => "remove" \in failed
       /\ fw # original => "import" \in failed
       /\ ended = "complete" <=> failed = {}

\* What the steps of teardown do to the firewall of a host staged once.
LEMMA TeardownPolicy ==
  ASSUME fw \in Staging!Policy, StageFacts!FirstRun, TeardownStep
  PROVE  /\ fw = original => fw' = original
         /\ TeardownImport => fw' = original \/ "import" \in failed'
         /\ UNCHANGED fw \/ tpc \in {"group", "import", "profiles"}
  <1> USE DEF StageFacts!FirstRun
  <1>1. CASE TeardownGroup
    BY <1>1, SamePolicy DEF TeardownGroup, Teardown, TeardownImport
  <1>2. CASE TeardownImport
    BY <1>2 DEF TeardownImport, Teardown, Fails, MayFail
  <1>3. CASE TeardownProfiles
    BY <1>3, SamePolicy DEF TeardownProfiles, Teardown, TeardownImport
  <1>4. CASE ~TeardownGroup /\ ~TeardownImport /\ ~TeardownProfiles
    BY <1>4
    DEF TeardownStep, TeardownLaunch, TeardownStop, TeardownRemove, TeardownDirectory,
        TeardownTask, TeardownAdapters, TeardownSave, TeardownKill, hostVars
  <1> QED BY <1>1, <1>2, <1>3, <1>4

LEMMA NextFirstRun ==
  ASSUME ~Overlap, ~Reruns, TypeOK, Ongoing, Alone, StageFacts!FirstRun, [Next]_vars
  PROVE  StageFacts!FirstRun'
  <1>1. fw \in Staging!Policy /\ svc \in Staging!Service /\ StageFacts!TypeOK
    BY Parts DEF TypeOK, Staging!TypeOK
  <1> DEFINE Kept == UNCHANGED <<exported, wfw, baseline, original>>
  <1>k. ASSUME Kept, fw = original => fw' = original, spc' = "idle" \/ UNCHANGED <<spc, fw>>
        PROVE  StageFacts!FirstRun'
    BY <1>k DEF StageFacts!FirstRun, StageFacts!BeforeExport, StageFacts!Saved,
                StageFacts!Quarantining, StageFacts!Unwinding, StageFacts!Installing
  <1>2. CASE StageLaunch
    <2>1. ~exported
      BY <1>2 DEF StageLaunch
    <2> QED BY <1>1, <1>2, <2>1, StageSteps, StageFacts!FirstRunSteps
  <1>3. CASE StagePreflight \/ StageWork \/ StageStops
    <2>1. ~StageFacts!Launch
      BY <1>3, StageRuns DEF StageFacts!Launch
    <2> QED BY <1>1, <1>3, <2>1, StageSteps, StageFacts!FirstRunSteps
  <1>4. CASE ConnectLaunch \/ ConnectStep \/ ConnectKill \/ NetworkChanges
    BY <1>1, <1>4, <1>k, HostSteps
  <1>5. CASE TeardownStep
    <2>1. Kept /\ spc' = "idle"
      BY <1>5, TeardownRuns
      DEF Alone, TeardownLaunch, TeardownAlone, stageVars, historyVars
    <2> QED BY <1>1, <1>5, <1>k, <2>1, TeardownPolicy
  <1>6. CASE Reboot
    BY <1>6, <1>k DEF Reboot, Staging!Halt, historyVars
  <1>7. CASE UNCHANGED vars
    BY <1>7, <1>k DEF vars, stageVars, hostVars, fileVars, historyVars
  <1> QED BY <1>2, <1>3, <1>4, <1>5, <1>6, <1>7, Cases

LEMMA NextUndone ==
  ASSUME ~Overlap, TypeOK, Ongoing, Alone, ServiceBound, StageFacts!FirstRun, Undone,
         [Next]_vars
  PROVE  Undone'
  <1>1. fw \in Staging!Policy /\ svc \in Staging!Service
    BY DEF TypeOK, Staging!TypeOK
  <1> USE DEF Undone, AfterImport
  <1>2. CASE StageLaunch \/ StagePreflight \/ StageWork \/ StageStops
    BY <1>2, StageRuns
    DEF Alone, StageLaunch, StagePreflight, StageWork, StageStops, StageAlone,
        UsedAnew, teardownVars
  <1>3. CASE ConnectLaunch \/ ConnectStep \/ ConnectKill \/ NetworkChanges
    <2>1. ended' \in {ended, "none"}
      BY <1>3 DEF ConnectLaunch, ConnectStep, ConnectKill, NetworkChanges, UsedAnew,
                  teardownVars
    <2> QED BY <1>1, <1>3, <2>1, HostSteps
  <1>4. CASE TeardownStep
    <2>0. UNCHANGED original
      BY <1>4, TeardownRuns DEF TeardownAlone, historyVars
    <2>1. CASE TeardownSave
      <3>1. /\ svc.installed => "remove" \in failed
            /\ fw # original => "import" \in failed
        BY <2>1 DEF TeardownSave, ServiceBound, AfterRemove
      <3>2. UNCHANGED <<svc, fw>> /\ tpc' = "idle"
        BY <2>1 DEF TeardownSave, hostVars
      <3>3. /\ "remove" \in failed => "remove" \in failed'
            /\ "import" \in failed => "import" \in failed'
        BY <2>1 DEF TeardownSave, Done, MayFail, Fails
      <3>4. ended' = "complete" <=> failed' = {}
        BY <2>1 DEF TeardownSave
      <3> QED BY <2>0, <3>1, <3>2, <3>3, <3>4
    <2>2. CASE TeardownLaunch \/ TeardownStop \/ TeardownRemove \/ TeardownDirectory
               \/ TeardownTask \/ TeardownGroup \/ TeardownKill
      BY <2>2 DEF TeardownLaunch, TeardownStop, TeardownRemove, TeardownDirectory,
                  TeardownTask, TeardownGroup, TeardownKill, Teardown, Ongoing
    <2>3. CASE TeardownImport
      <3>1. tpc = "import" /\ tpc' = "adapters" /\ ended' = "none"
        BY <2>3 DEF TeardownImport, Teardown, Ongoing
      <3> QED BY <1>1, <1>4, <2>0, <2>3, <3>1, TeardownPolicy
    <2>4. CASE TeardownAdapters \/ TeardownProfiles
      <3>1. /\ tpc \in AfterImport /\ ended' = "none"
            /\ "import" \in failed => "import" \in failed'
        BY <2>4 DEF TeardownAdapters, TeardownProfiles, Teardown, Ongoing, Done, Fails,
                    MayFail
      <3> QED BY <1>1, <1>4, <2>0, <3>1, TeardownPolicy
    <2> QED BY <1>4, <2>1, <2>2, <2>3, <2>4 DEF TeardownStep
  <1>5. CASE Reboot
    <2>1. svc'.installed = svc.installed
      BY <1>1, <1>5, ServiceUpdates DEF Reboot
    <2> QED BY <1>5, <2>1 DEF Reboot, historyVars, Ongoing
  <1>6. CASE UNCHANGED vars
    BY <1>6 DEF vars, hostVars, teardownVars, historyVars
  <1> QED BY <1>2, <1>3, <1>4, <1>5, <1>6, Cases

-----------------------------------------------------------------------------
\* What teardown undoes on a host that stage has run on again and again

LEMMA NextPreserved ==
  ASSUME ~Overlap, TypeOK, Alone, StageFacts!Preserved, [Next]_vars
  PROVE  StageFacts!Preserved'
  <1>1. fw \in Staging!Policy /\ svc \in Staging!Service /\ StageFacts!TypeOK
    BY Parts DEF TypeOK, Staging!TypeOK
  <1> DEFINE Kept == UNCHANGED <<exported, wfw, baseline, original>>
  <1>k. ASSUME Kept, ~exported /\ fw = original => fw' = original,
               spc' = "idle" \/ UNCHANGED spc
        PROVE  StageFacts!Preserved'
    BY <1>k DEF StageFacts!Preserved, StageFacts!Saved,
                StageFacts!Quarantining, StageFacts!Unwinding, StageFacts!Installing
  <1>2. CASE StageLaunch \/ StagePreflight \/ StageWork \/ StageStops
    BY <1>1, <1>2, StageSteps, StageFacts!PreservedSteps
  <1>3. CASE ConnectLaunch \/ ConnectStep \/ ConnectKill \/ NetworkChanges
    BY <1>1, <1>3, <1>k, HostSteps
  <1>4. CASE TeardownStep
    <2>1. Kept /\ spc' = "idle"
      BY <1>4, TeardownRuns
      DEF Alone, TeardownLaunch, TeardownAlone, stageVars, historyVars
    <2>2. ~exported /\ fw = original => fw' = original
      <3> SUFFICES ASSUME ~exported, fw = original PROVE fw' = original
        OBVIOUS
      <3>1. fw.group = {} /\ baseline = fw.profile
        BY DEF StageFacts!Preserved
      <3>2. CASE TeardownGroup
        BY <1>1, <3>1, <3>2, SamePolicy DEF TeardownGroup
      <3>3. CASE TeardownImport
        BY <3>3 DEF TeardownImport
      <3>4. CASE TeardownProfiles
        BY <1>1, <3>1, <3>4, SamePolicy DEF TeardownProfiles
      <3>5. CASE ~TeardownGroup /\ ~TeardownImport /\ ~TeardownProfiles
        BY <1>4, <3>5
        DEF TeardownStep, TeardownLaunch, TeardownStop, TeardownRemove,
            TeardownDirectory, TeardownTask, TeardownAdapters, TeardownSave,
            TeardownKill, hostVars
      <3> QED BY <3>2, <3>3, <3>4, <3>5
    <2> QED BY <1>k, <2>1, <2>2
  <1>5. CASE Reboot
    BY <1>5, <1>k DEF Reboot, Staging!Halt, historyVars
  <1>6. CASE UNCHANGED vars
    BY <1>6, <1>k DEF vars, stageVars, hostVars, fileVars, historyVars
  <1> QED BY <1>2, <1>3, <1>4, <1>5, <1>6, Cases

\* The original policy but for its profiles, which are those of baseline.json.
Reset == fw = [original EXCEPT !.profile = baseline]

\* The import gives the rules back, the step of the profiles what baseline.json
\* has, and nothing after them touches the firewall.
Returned ==
  /\ tpc \in AfterImport /\ "import" \notin failed =>
       fw = [original EXCEPT !.profile = fw.profile]
  /\ tpc = "save" /\ failed \cap {"import", "profiles"} = {} => Reset
  /\ ended = "complete" => Reset /\ ~svc.installed

LEMMA NextReturned ==
  ASSUME ~Overlap, TypeOK, TypeOK', Ongoing, Alone, ServiceBound, StageFacts!Preserved,
         Returned, [Next]_vars
  PROVE  Returned'
  <1>1. /\ fw \in Staging!Policy /\ original \in Staging!Policy
        /\ svc \in Staging!Service /\ baseline \in [Profile -> Staging!Default]
        /\ ended' = "complete" => failed' = {}
    BY DEF TypeOK, Staging!TypeOK
  <1> USE DEF Returned, AfterImport, Reset
  <1>2. CASE StageLaunch \/ StagePreflight \/ StageWork \/ StageStops
    BY <1>2, StageRuns
    DEF Alone, StageLaunch, StagePreflight, StageWork, StageStops, StageAlone,
        UsedAnew, teardownVars
  <1>3. CASE ConnectLaunch \/ ConnectStep \/ ConnectKill \/ NetworkChanges
    <2>1. ended' \in {ended, "none"}
      BY <1>3 DEF ConnectLaunch, ConnectStep, ConnectKill, NetworkChanges, UsedAnew,
                  teardownVars
    <2> QED BY <1>1, <1>3, <2>1, HostSteps
  <1>4. CASE TeardownStep
    <2>0. UNCHANGED <<original, baseline>>
      BY <1>4, TeardownRuns DEF TeardownAlone, TeardownLaunch, historyVars
    <2>1. CASE TeardownSave
      <3>1. /\ tpc = "save" /\ tpc' = "idle" /\ UNCHANGED <<svc, fw>>
            /\ failed \subseteq failed' \cup {"save"}
        BY <2>1 DEF TeardownSave, hostVars, Done, MayFail, Fails
      <3>2. svc.installed => "remove" \in failed
        BY <3>1 DEF ServiceBound, AfterRemove
      <3> QED BY <1>1, <2>0, <3>1, <3>2
    <2>2. CASE TeardownLaunch \/ TeardownStop \/ TeardownRemove \/ TeardownDirectory
               \/ TeardownTask \/ TeardownGroup \/ TeardownKill
      BY <2>2 DEF TeardownLaunch, TeardownStop, TeardownRemove, TeardownDirectory,
                  TeardownTask, TeardownGroup, TeardownKill, Teardown, Ongoing
    <2>3. CASE TeardownImport
      <3>1. tpc = "import" /\ tpc' = "adapters" /\ ended' = "none"
        BY <2>3 DEF TeardownImport, Teardown, Ongoing
      <3>2. "import" \in failed' \/ fw' = original
        BY <2>3 DEF TeardownImport, MayFail, Fails, StageFacts!Preserved
      <3>3. original = [original EXCEPT !.profile = original.profile]
        BY <1>1 DEF Staging!Policy
      <3> QED BY <2>0, <3>1, <3>2, <3>3
    <2>4. CASE TeardownAdapters
      <3>1. /\ tpc = "adapters" /\ tpc' = "profiles" /\ ended' = "none"
            /\ UNCHANGED fw /\ ("import" \in failed => "import" \in failed')
        BY <2>4 DEF TeardownAdapters, Teardown, Ongoing, Done, MayFail, Fails, hostVars
      <3> QED BY <2>0, <3>1
    <2>5. CASE TeardownProfiles
      <3>1. /\ tpc = "profiles" /\ tpc' = "save" /\ ended' = "none"
            /\ "import" \in failed => "import" \in failed'
        BY <2>5 DEF TeardownProfiles, Teardown, Ongoing, Done, MayFail, Fails
      <3>2. /\ "profiles" \in failed' \/ fw' = [fw EXCEPT !.profile = baseline]
            /\ fw' = [fw EXCEPT !.profile = fw'.profile]
        BY <1>1, <2>5 DEF TeardownProfiles, MayFail, Fails, Staging!Policy
      <3>3. ASSUME "import" \notin failed
            PROVE  \A new : [fw EXCEPT !.profile = new] = [original EXCEPT !.profile = new]
        <4>1. fw = [original EXCEPT !.profile = fw.profile]
          BY <3>1, <3>3
        <4> QED BY <1>1, <4>1 DEF Staging!Policy
      <3> QED BY <2>0, <3>1, <3>2, <3>3
    <2> QED BY <1>4, <2>1, <2>2, <2>3, <2>4, <2>5 DEF TeardownStep
  <1>5. CASE Reboot
    <2>1. svc'.installed = svc.installed
      BY <1>1, <1>5, ServiceUpdates DEF Reboot
    <2> QED BY <1>5, <2>1 DEF Reboot, historyVars, Ongoing
  <1>6. CASE UNCHANGED vars
    BY <1>6 DEF vars, hostVars, fileVars, teardownVars, historyVars
  <1> QED BY <1>2, <1>3, <1>4, <1>5, <1>6, Cases

LEMMA InitReturned == Init => StageFacts!Preserved /\ Returned
  <1> SUFFICES ASSUME Init PROVE StageFacts!Preserved /\ Returned
    OBVIOUS
  <1> QED
    BY DEF Init, Staging!Init, StageFacts!Preserved, StageFacts!Saved,
           StageFacts!Quarantining, StageFacts!Unwinding, StageFacts!Installing,
           Returned, AfterImport

-----------------------------------------------------------------------------

LEMMA InitAll ==
  Init => /\ Ongoing /\ Alone /\ ServiceBound /\ TaskGone /\ Undone
          /\ StageFacts!Order /\ StageFacts!FirstRun
  <1> SUFFICES ASSUME Init
               PROVE  /\ Ongoing /\ Alone /\ ServiceBound /\ TaskGone /\ Undone
                      /\ StageFacts!Order /\ StageFacts!FirstRun
    OBVIOUS
  <1>1. /\ spc = "idle" /\ tpc = "idle" /\ cpc = "idle" /\ ended = "none"
        /\ ~svc.installed /\ ~svc.running /\ ~svc.auto /\ ~task
    BY DEF Init, Staging!Init, Connecting!Init, Staging!NoService
  <1>2. /\ fw = original /\ wfw = original /\ original.group = {}
        /\ baseline = original.profile
    BY DEF Init, Staging!Init
  <1>3. Ongoing /\ Alone /\ ServiceBound /\ TaskGone /\ Undone
    BY <1>1, <1>2 DEF Ongoing, Alone, ServiceBound, AfterRemove, TaskGone, AfterTask,
                      Undone, AfterImport
  <1>4. StageFacts!Order
    BY <1>1 DEF StageFacts!Order, StageFacts!NoServiceYet, StageFacts!Installing,
                StageFacts!Quarantining, StageFacts!Unwinding
  <1>5. StageFacts!FirstRun
    BY <1>1, <1>2 DEF StageFacts!FirstRun, StageFacts!BeforeExport, StageFacts!Saved,
                StageFacts!Installing, StageFacts!Quarantining, StageFacts!Unwinding
  <1> QED BY <1>3, <1>4, <1>5

LEMMA InitAccounted == Init => Accounted
  <1> SUFFICES ASSUME Init PROVE Accounted
    OBVIOUS
  <1>1. Off = {}
    BY DEF Init, Connecting!Init, Off
  <1> QED BY <1>1 DEF Init, Connecting!Init, Accounted, AfterAdapters

\* The three processes and what they share keep their types.
THEOREM TypeCorrect == Spec => []TypeOK
  <1>1. Init => TypeOK /\ Ongoing
    BY InitTypeOK, InitAll
  <1>2. TypeOK /\ Ongoing /\ [Next]_vars => (TypeOK /\ Ongoing)'
    BY NextTypeOK, NextOngoing
  <1> QED BY <1>1, <1>2, PTL DEF Spec

\* However often stage, connect and teardown are run one after the other, fail,
\* are killed and rebooted: a Velociraptor that has not been told to stop is under
\* the quarantine - the default-deny, the whole allow-list, and no other rule but
\* those that could not be disabled and the installer's - or its stop or its
\* removal has failed.
THEOREM ServiceContained ==
  ASSUME ~Overlap
  PROVE  Spec => []RunsQuarantined
  <1> DEFINE Inv == TypeOK /\ Ongoing /\ Alone /\ StageFacts!Order /\ ServiceBound
  <1>1. Init => Inv
    BY InitTypeOK, InitAll
  <1>2. Inv /\ [Next]_vars => Inv'
    BY NextTypeOK, NextOngoing, NextAlone, NextOrder, NextServiceBound
  <1>3. Inv => RunsQuarantined
    BY DEF ServiceBound, RunsQuarantined
  <1> QED BY <1>1, <1>2, <1>3, PTL DEF Spec

\* What holds of a host that stage has run on once.
StagedOnce ==
  /\ TypeOK /\ Ongoing /\ Alone /\ StageFacts!Order /\ ServiceBound
  /\ StageFacts!FirstRun /\ TaskGone /\ Undone

LEMMA AlwaysStagedOnce ==
  ASSUME ~Overlap, ~Reruns
  PROVE  Spec => []StagedOnce
  <1>1. Init => StagedOnce
    BY InitTypeOK, InitAll DEF StagedOnce
  <1>2. StagedOnce /\ [Next]_vars => StagedOnce'
    BY NextTypeOK, NextOngoing, NextAlone, NextOrder, NextServiceBound, NextFirstRun,
       NextTaskGone, NextUndone
    DEF StagedOnce
  <1> QED BY <1>1, <1>2, PTL DEF Spec

\* A teardown of a host staged once that reports no error has restored the
\* firewall and left neither service nor task, whatever was aborted, killed or
\* torn down in vain before.
THEOREM TeardownUndoes ==
  ASSUME ~Overlap, ~Reruns
  PROVE  Spec => []TeardownRestores
  <1>1. StagedOnce => TeardownRestores
    BY DEF StagedOnce, ServiceBound, TaskGone, Undone, TeardownRestores
  <1> QED BY <1>1, AlwaysStagedOnce, PTL

\* A teardown of a host staged once that reports errors has left behind only
\* what its own failed steps were to undo.
THEOREM TeardownHonest ==
  ASSUME ~Overlap, ~Reruns
  PROVE  Spec => []TeardownBestEffort
  <1>1. StagedOnce => TeardownBestEffort
    BY DEF StagedOnce, TaskGone, Undone, TeardownBestEffort
  <1> QED BY <1>1, AlwaysStagedOnce, PTL

\* However often stage was run again, over a quarantine or a half restored host:
\* a teardown that reports no error has removed the service and the task and
\* given every rule back.  Only the defaults of the profiles may differ from the
\* original ones, and are then what the last run of stage wrote to baseline.json.
THEOREM TeardownResets ==
  ASSUME ~Overlap
  PROVE  Spec => [](ended = "complete" =>
                      Reset /\ ~svc.installed /\ ~svc.running /\ ~task)
  <1> DEFINE Inv == /\ TypeOK /\ Ongoing /\ Alone /\ StageFacts!Order /\ ServiceBound
                    /\ TaskGone /\ StageFacts!Preserved /\ Returned
             Clean == ended = "complete" =>
                        Reset /\ ~svc.installed /\ ~svc.running /\ ~task
  <1>1. Init => Inv
    BY InitTypeOK, InitAll, InitReturned
  <1>2. Inv /\ [Next]_vars => Inv'
    BY NextTypeOK, NextOngoing, NextAlone, NextOrder, NextServiceBound, NextTaskGone,
       NextPreserved, NextReturned
  <1>3. Inv => Clean
    BY DEF TypeOK, ServiceBound, TaskGone, Returned
  <1>4. Spec => []Clean
    BY <1>1, <1>2, <1>3, PTL DEF Spec
  <1> QED BY <1>4

\* Whatever was killed, rebooted, saved in vain or staged again: as long as each
\* trip finds and disables every adapter, a teardown that reports no error has
\* enabled all that the watchdog disabled but for those a crash or a failed
\* save kept out of manifest.json.
THEOREM AdaptersReturned ==
  ASSUME ~Overlap, {"list", "disable"} \cap Faults = {}
  PROVE  Spec => []TeardownReconnects
  <1> DEFINE Inv == TypeOK /\ Ongoing /\ Alone /\ TaskGone /\ Accounted
  <1>1. Init => Inv
    BY InitTypeOK, InitAll, InitAccounted
  <1>2. Inv /\ [Next]_vars => Inv'
    BY NextTypeOK, NextOngoing, NextAlone, NextTaskGone, NextAccounted
  <1>3. Inv => TeardownReconnects
    BY DEF Accounted, Off, TeardownReconnects
  <1> QED BY <1>1, <1>2, <1>3, PTL DEF Spec

=============================================================================
