---------------------------- MODULE StageProofs ----------------------------
(***************************************************************************)
(* The promises of stage for every set of pre-existing rules, every        *)
(* allow-list and every set of profiles, over any number of failed,        *)
(* cancelled, killed and repeated runs.                                    *)
(***************************************************************************)
EXTENDS Stage, TLAPS

Staged  == [installed |-> TRUE, auto |-> FALSE, running |-> FALSE]

\* Where the policy of the untouched host is known to be on disk.
Saved == {"snapshot"} \cup Quarantining \cup Unwinding \cup Installing

\* Where PREFLIGHT has excluded the service and INSTALL has not created it.
NoServiceYet ==
  {"files", "volatile", "export", "snapshot", "payload", "svcInstall"}
    \cup Quarantining \cup Unwinding

\* The order of the phases, as far as it does not depend on how earlier runs
\* ended: the service comes last.
Order ==
  /\ pc \in NoServiceYet => ~svc.installed
  /\ pc = "allow" => \A r \in Allow : r \in left \/ r \in fw.group
  /\ pc = "flip" => fw.group = Allow /\ fw.enabled \subseteq Stubborn
  /\ pc \in Installing => Quarantined

\* What each step of a run has established for the next one.
Progress ==
  /\ Order
  /\ pc # "idle" => outcome = "none" /\ ~imported
  /\ pc \in Saved => exported
  /\ pc = "svcStop" => svc = Registered(TRUE)
  /\ pc = "svcDemand" => svc = Registered(FALSE)
  /\ pc \in {"path", "task", "ready"} => svc = Staged
  /\ pc = "ready" => task

Safety ==
  /\ OriginalPreserved
  /\ VeloOnlyQuarantined
  /\ ImportRestores
  /\ ReadyComplete

Inv == TypeOK /\ Progress /\ Safety

-----------------------------------------------------------------------------

LEMMA InitInv == Init => Inv
  <1> SUFFICES ASSUME Init PROVE Inv
    OBVIOUS
  <1>1. fw \in Policy /\ baseline \in [Profile -> Default]
    BY DEF Init, Policy, Foreign, AllProfiles, Default
  <1>2. TypeOK
    BY <1>1 DEF Init, TypeOK, Place, Outcome, Service, NoService
  <1>3. Progress
    BY DEF Init, Progress, Order, Saved, NoServiceYet, Quarantining, Unwinding,
           Installing, NoService
  <1>4. Safety
    BY DEF Init, Safety, OriginalPreserved, VeloOnlyQuarantined,
           ImportRestores, ReadyComplete, NoService
  <1> QED BY <1>2, <1>3, <1>4 DEF Inv

\* What the installer adds leaves the quarantine what it is.
LEMMA InstallKeepsQuarantine ==
  ASSUME fw \in Policy, ServiceInstall, Quarantined
  PROVE  Quarantined'
  <1>1. PICK added \in SUBSET Installer : fw' = [fw EXCEPT !.enabled = @ \cup added]
    BY DEF ServiceInstall
  <1>2. /\ fw'.group = fw.group /\ fw'.profile = fw.profile
        /\ fw'.enabled = fw.enabled \cup added
    BY <1>1 DEF Policy
  <1> QED BY <1>2 DEF Quarantined

\* What an action may do to the defaults of the profiles keeps them defaults.
LEMMA ProfileUpdates ==
  ASSUME fw \in Policy
  PROVE  /\ AllProfiles("lockdown") \in [Profile -> Default]
         /\ \A done \in SUBSET Profile, new \in [Profile -> Default] :
              Overlay(done, new) \in [Profile -> Default]
  BY DEF Policy, AllProfiles, Overlay, Default

LEMMA RegisteredTypes == Registered(TRUE) \in Service /\ Registered(FALSE) \in Service
  BY DEF Registered, Service

LEMMA NextTypeOK == TypeOK /\ [Next]_vars => TypeOK'
  <1> SUFFICES ASSUME TypeOK, [Next]_vars PROVE TypeOK'
    OBVIOUS
  <1>0. /\ fw \in Policy /\ fw.enabled \subseteq Foreign /\ fw.group \subseteq Allow
        /\ fw.profile \in [Profile -> Default]
    BY DEF TypeOK, Policy
  <1> USE <1>0, ProfileUpdates
      DEF Policy, TypeOK, Place, Outcome, Quarantining, Unwinding, Installing, files,
          Goto, Halt, Unwind
  <1>1. CASE Launch BY <1>1 DEF Launch
  <1>2. CASE Preflight BY <1>2 DEF Preflight
  <1>3. CASE TakeFiles BY <1>3 DEF TakeFiles
  <1>4. CASE Export BY <1>4 DEF Export
  <1>5. CASE Snapshot BY <1>5 DEF Snapshot
  <1>6. ASSUME NEW r \in Allow, AddRule(r) PROVE TypeOK'
    BY <1>6 DEF AddRule
  <1>7. CASE Sweep BY <1>7 DEF Sweep
  <1>8. CASE Flip
    <2>1. PICK d \in [Profile -> Default] : fw' = [fw EXCEPT !.profile = d]
      BY <1>8 DEF Flip
    <2>2. fw' \in Policy
      BY <2>1
    <2> QED BY <1>8, <2>2 DEF Flip
  <1>9. CASE Import BY <1>9 DEF Import
  <1>10. CASE UnwindGroup BY <1>10 DEF UnwindGroup
  <1>11. CASE UnwindProfiles
    <2>1. PICK d \in [Profile -> Default] : fw' = [fw EXCEPT !.profile = d]
      BY <1>11 DEF UnwindProfiles
    <2>2. fw' \in Policy
      BY <2>1
    <2> QED BY <1>11, <2>2 DEF UnwindProfiles
  <1>12. CASE UnwindRules BY <1>12 DEF UnwindRules
  <1>13. CASE CopyPayload BY <1>13 DEF CopyPayload
  <1>14. CASE ServiceInstall
    <2>1. svc' \in {svc, Registered(TRUE), Registered(FALSE)}
      BY <1>14 DEF ServiceInstall
    <2>2. svc' \in Service
      BY <2>1, RegisteredTypes
    <2>3. PICK added \in SUBSET Installer : fw' = [fw EXCEPT !.enabled = @ \cup added]
      BY <1>14 DEF ServiceInstall
    <2>4. fw' \in Policy
      BY <2>3 DEF Foreign
    <2> QED BY <1>14, <2>2, <2>4 DEF ServiceInstall
  <1>15. CASE ServiceStop BY <1>15 DEF ServiceStop, Service
  <1>16. CASE ServiceDemand BY <1>16 DEF ServiceDemand, Service
  <1>17. CASE CheckPath BY <1>17 DEF CheckPath
  <1>18. CASE CreateTask BY <1>18 DEF CreateTask
  <1>19. CASE Ready BY <1>19 DEF Ready
  <1>20. CASE CtrlC BY <1>20 DEF CtrlC
  <1>21. CASE Kill BY <1>21 DEF Kill
  <1>22. CASE Reboot BY <1>22 DEF Reboot, Service
  <1>23. CASE CaptureVolatile BY <1>23 DEF CaptureVolatile
  <1>24. CASE UNCHANGED vars BY <1>24 DEF vars, run
  <1> QED
    BY <1>1, <1>2, <1>3, <1>4, <1>5, <1>6, <1>7, <1>8, <1>9, <1>10, <1>11,
       <1>12, <1>13, <1>14, <1>15, <1>16, <1>17, <1>18, <1>19, <1>20, <1>21,
       <1>22, <1>23, <1>24
    DEF Next, Work

LEMMA NextOrder == TypeOK /\ Order /\ [Next]_vars => Order'
  <1> SUFFICES ASSUME TypeOK, Order, [Next]_vars PROVE Order'
    OBVIOUS
  <1>0. pc \in Place /\ fw \in Policy /\ svc \in Service
    BY DEF TypeOK
  <1> USE <1>0
      DEF Order, NoServiceYet, Place, Quarantining, Unwinding,
          Installing, Quarantined, files, Goto, Halt, Unwind
  <1>1. CASE Launch BY <1>1 DEF Launch
  <1>2. CASE Preflight BY <1>2 DEF Preflight
  <1>3. CASE TakeFiles BY <1>3 DEF TakeFiles
  <1>4. CASE Export BY <1>4 DEF Export
  <1>5. CASE Snapshot BY <1>5 DEF Snapshot
  <1>6. ASSUME NEW r \in Allow, AddRule(r) PROVE Order'
    <2>1. CASE fw' = [fw EXCEPT !.group = @ \cup {r}] /\ left' = left \ {r}
                 /\ UNCHANGED <<pc, outcome, cancelled, unwound, manRules>>
      <3>1. fw'.group = fw.group \cup {r}
        BY <2>1 DEF Policy
      <3> QED BY <1>6, <2>1, <3>1 DEF AddRule
    <2>2. CASE Goto("import")
      BY <1>6, <2>2 DEF AddRule
    <2> QED BY <1>6, <2>1, <2>2 DEF AddRule
  <1>7. CASE Sweep
    <2>1. ASSUME NEW on \in SUBSET (fw.enabled \cap Stubborn),
                 fw' = [fw EXCEPT !.enabled = on], pc' = "flip",
                 UNCHANGED <<outcome, cancelled, left, unwound>>
          PROVE  Order'
      <3>1. fw.group \subseteq Allow
        BY DEF Policy
      <3>2. fw.group = Allow
        BY <1>7, <3>1 DEF Sweep
      <3>3. fw'.group = fw.group /\ fw'.enabled \subseteq Stubborn
        BY <2>1 DEF Policy
      <3> QED BY <1>7, <2>1, <3>2, <3>3 DEF Sweep
    <2>2. CASE Goto("import")
      BY <1>7, <2>2 DEF Sweep
    <2> QED BY <1>7, <2>1, <2>2 DEF Sweep
  <1>8. CASE Flip
    <2>1. CASE fw' = [fw EXCEPT !.profile = AllProfiles("lockdown")]
                 /\ Goto("payload")
      <3>1. Quarantined'
        BY <1>8, <2>1 DEF Flip, Policy
      <3> QED BY <1>8, <2>1, <3>1 DEF Flip
    <2>2. CASE Goto("import")
      BY <1>8, <2>2 DEF Flip
    <2> QED BY <1>8, <2>1, <2>2 DEF Flip
  <1>9. CASE Import
    <2>1. svc' = svc /\ pc = "import" /\ exported' = exported
      BY <1>9 DEF Import
    <2>2. CASE Halt("rolledBack") BY <2>1, <2>2
    <2>3. CASE Goto("unwindGroup") /\ UNCHANGED <<fw, imported>>
      BY <2>1, <2>3
    <2> QED BY <1>9, <2>2, <2>3 DEF Import
  <1>10. CASE UnwindGroup BY <1>10 DEF UnwindGroup
  <1>11. CASE UnwindProfiles BY <1>11 DEF UnwindProfiles
  <1>12. CASE UnwindRules BY <1>12 DEF UnwindRules
  <1>13. CASE CopyPayload BY <1>13 DEF CopyPayload
  <1>14. CASE ServiceInstall
    <2>1. Quarantined'
      BY <1>14, InstallKeepsQuarantine DEF ServiceInstall
    <2> QED BY <1>14, <2>1 DEF ServiceInstall
  <1>15. CASE ServiceStop BY <1>15 DEF ServiceStop, Registered
  <1>16. CASE ServiceDemand BY <1>16 DEF ServiceDemand, Registered, Staged
  <1>17. CASE CheckPath BY <1>17 DEF CheckPath
  <1>18. CASE CreateTask BY <1>18 DEF CreateTask
  <1>19. CASE Ready BY <1>19 DEF Ready
  <1>20. CASE CtrlC BY <1>20 DEF CtrlC
  <1>21. CASE Kill BY <1>21 DEF Kill
  <1>22. CASE Reboot BY <1>22 DEF Reboot
  <1>23. CASE CaptureVolatile BY <1>23 DEF CaptureVolatile
  <1>24. CASE UNCHANGED vars BY <1>24 DEF vars, run
  <1> QED
    BY <1>1, <1>2, <1>3, <1>4, <1>5, <1>6, <1>7, <1>8, <1>9, <1>10, <1>11,
       <1>12, <1>13, <1>14, <1>15, <1>16, <1>17, <1>18, <1>19, <1>20, <1>21,
       <1>22, <1>23, <1>24
    DEF Next, Work

LEMMA NextProgress == Inv /\ [Next]_vars => Progress'
  <1> SUFFICES ASSUME Inv, [Next]_vars PROVE Progress'
    OBVIOUS
  <1>0. pc \in Place /\ svc \in Service /\ Order'
    BY NextOrder DEF Inv, TypeOK, Progress
  <1>p. Progress
    BY DEF Inv
  <1> USE <1>0, <1>p
      DEF Progress, Saved, Place, Quarantining, Unwinding, Installing, files, Goto,
          Halt, Unwind
  <1>1. CASE Launch BY <1>1 DEF Launch
  <1>2. CASE Preflight BY <1>2 DEF Preflight
  <1>3. CASE TakeFiles BY <1>3 DEF TakeFiles
  <1>4. CASE Export BY <1>4 DEF Export
  <1>5. CASE Snapshot BY <1>5 DEF Snapshot
  <1>6. ASSUME NEW r \in Allow, AddRule(r) PROVE Progress'
    BY <1>6 DEF AddRule
  <1>7. CASE Sweep BY <1>7 DEF Sweep
  <1>8. CASE Flip BY <1>8 DEF Flip
  <1>9. CASE Import
    <2>1. svc' = svc /\ pc = "import" /\ exported' = exported
      BY <1>9 DEF Import
    <2>2. CASE Halt("rolledBack") BY <2>1, <2>2
    <2>3. CASE Goto("unwindGroup") /\ UNCHANGED <<fw, imported>>
      BY <2>1, <2>3
    <2> QED BY <1>9, <2>2, <2>3 DEF Import
  <1>10. CASE UnwindGroup BY <1>10 DEF UnwindGroup
  <1>11. CASE UnwindProfiles BY <1>11 DEF UnwindProfiles
  <1>12. CASE UnwindRules BY <1>12 DEF UnwindRules
  <1>13. CASE CopyPayload BY <1>13 DEF CopyPayload
  <1>14. CASE ServiceInstall BY <1>14 DEF ServiceInstall
  <1>15. CASE ServiceStop BY <1>15 DEF ServiceStop, Registered
  <1>16. CASE ServiceDemand BY <1>16 DEF ServiceDemand, Registered, Staged
  <1>17. CASE CheckPath BY <1>17 DEF CheckPath
  <1>18. CASE CreateTask BY <1>18 DEF CreateTask
  <1>19. CASE Ready BY <1>19 DEF Ready
  <1>20. CASE CtrlC BY <1>20 DEF CtrlC
  <1>21. CASE Kill BY <1>21 DEF Kill
  <1>22. CASE Reboot BY <1>22 DEF Reboot
  <1>23. CASE CaptureVolatile BY <1>23 DEF CaptureVolatile
  <1>24. CASE UNCHANGED vars BY <1>24 DEF vars, run
  <1> QED
    BY <1>1, <1>2, <1>3, <1>4, <1>5, <1>6, <1>7, <1>8, <1>9, <1>10, <1>11,
       <1>12, <1>13, <1>14, <1>15, <1>16, <1>17, <1>18, <1>19, <1>20, <1>21,
       <1>22, <1>23, <1>24
    DEF Next, Work

\* The firewall changes only where no service exists and the policy of the
\* untouched host is on disk: what stands behind the first two invariants.
LEMMA NextSafety == Inv /\ [Next]_vars => Safety'
  <1> SUFFICES ASSUME Inv, [Next]_vars PROVE Safety'
    OBVIOUS
  <1>0. pc \in Place /\ fw \in Policy /\ svc \in Service
    BY DEF Inv, TypeOK
  <1>p. Progress /\ Safety
    BY DEF Inv
  <1> USE <1>0, <1>p
      DEF Progress, Order, Safety, OriginalPreserved, VeloOnlyQuarantined,
          ImportRestores, ReadyComplete, Saved, NoServiceYet, Place,
          Quarantining, Unwinding, Installing, files, Goto, Halt, Unwind
  <1>1. CASE Launch BY <1>1 DEF Launch, Quarantined
  <1>2. CASE Preflight BY <1>2 DEF Preflight, Quarantined
  <1>3. CASE TakeFiles BY <1>3 DEF TakeFiles, Quarantined
  <1>4. CASE Export BY <1>4 DEF Export, Quarantined
  <1>5. CASE Snapshot BY <1>5 DEF Snapshot, Quarantined
  <1>6. ASSUME NEW r \in Allow, AddRule(r) PROVE Safety'
    BY <1>6 DEF AddRule
  <1>7. CASE Sweep BY <1>7 DEF Sweep
  <1>8. CASE Flip BY <1>8 DEF Flip
  <1>9. CASE Import BY <1>9 DEF Import
  <1>10. CASE UnwindGroup BY <1>10 DEF UnwindGroup
  <1>11. CASE UnwindProfiles BY <1>11 DEF UnwindProfiles
  <1>12. CASE UnwindRules BY <1>12 DEF UnwindRules
  <1>13. CASE CopyPayload BY <1>13 DEF CopyPayload, Quarantined
  <1>14. CASE ServiceInstall
    <2>1. Quarantined'
      BY <1>14, InstallKeepsQuarantine DEF ServiceInstall
    <2> QED BY <1>14, <2>1 DEF ServiceInstall
  <1>15. CASE ServiceStop BY <1>15 DEF ServiceStop, Quarantined
  <1>16. CASE ServiceDemand BY <1>16 DEF ServiceDemand, Quarantined
  <1>17. CASE CheckPath BY <1>17 DEF CheckPath, Quarantined
  <1>18. CASE CreateTask BY <1>18 DEF CreateTask, Quarantined
  <1>19. CASE Ready BY <1>19 DEF Ready, Quarantined, Staged
  <1>20. CASE CtrlC BY <1>20 DEF CtrlC, Quarantined
  <1>21. CASE Kill BY <1>21 DEF Kill, Quarantined
  <1>22. CASE Reboot BY <1>22 DEF Reboot, Quarantined, Service
  <1>23. CASE CaptureVolatile BY <1>23 DEF CaptureVolatile, Quarantined
  <1>24. CASE UNCHANGED vars BY <1>24 DEF vars, run, Quarantined
  <1> QED
    BY <1>1, <1>2, <1>3, <1>4, <1>5, <1>6, <1>7, <1>8, <1>9, <1>10, <1>11,
       <1>12, <1>13, <1>14, <1>15, <1>16, <1>17, <1>18, <1>19, <1>20, <1>21,
       <1>22, <1>23, <1>24
    DEF Next, Work

-----------------------------------------------------------------------------
\* What the rollback by hand has undone

\* Only the installer enables a rule that was not, and no manifest names another;
\* as long as every step of the rollback works, each leaves what it should.
Unwound ==
  /\ original.group = {}
  /\ fw.enabled \subseteq original.enabled \cup Installer
  /\ manRules \subseteq original.enabled \cup Installer
  /\ savedRules \subseteq original.enabled \cup Installer
  /\ pc \in {"unwindProfiles", "unwindRules"} /\ unwound => fw.group = {}
  /\ pc = "unwindRules" /\ unwound => fw.profile = baseline
  /\ RollbackUnwinds

LEMMA NextUnwound == Inv /\ Unwound /\ [Next]_vars => Unwound'
  <1> SUFFICES ASSUME Inv, Unwound, [Next]_vars PROVE Unwound'
    OBVIOUS
  <1>0. /\ pc \in Place /\ fw \in Policy /\ fw.enabled \subseteq original.enabled \cup Installer
        /\ pc # "idle" => outcome = "none"
        /\ pc = "import" => wfw = original
    BY DEF Inv, TypeOK, Progress, Safety, OriginalPreserved, Saved, Unwinding, Unwound
  <1> USE <1>0
      DEF Unwound, RollbackUnwinds, Place, Quarantining, Unwinding, Installing, files,
          Goto, Halt, Unwind, Policy
  <1>1. CASE Launch BY <1>1 DEF Launch
  <1>2. CASE Preflight BY <1>2 DEF Preflight
  <1>3. CASE TakeFiles BY <1>3 DEF TakeFiles
  <1>4. CASE Export BY <1>4 DEF Export
  <1>5. CASE Snapshot BY <1>5 DEF Snapshot
  <1>6. ASSUME NEW r \in Allow, AddRule(r) PROVE Unwound'
    BY <1>6 DEF AddRule
  <1>7. CASE Sweep BY <1>7 DEF Sweep
  <1>8. CASE Flip BY <1>8 DEF Flip
  <1>9. CASE Import BY <1>9 DEF Import
  <1>10. CASE UnwindGroup BY <1>10 DEF UnwindGroup
  <1>11. CASE UnwindProfiles BY <1>11 DEF UnwindProfiles
  <1>12. CASE UnwindRules BY <1>12 DEF UnwindRules
  <1>13. CASE CopyPayload BY <1>13 DEF CopyPayload
  <1>14. CASE ServiceInstall BY <1>14 DEF ServiceInstall
  <1>15. CASE ServiceStop BY <1>15 DEF ServiceStop
  <1>16. CASE ServiceDemand BY <1>16 DEF ServiceDemand
  <1>17. CASE CheckPath BY <1>17 DEF CheckPath
  <1>18. CASE CreateTask BY <1>18 DEF CreateTask
  <1>19. CASE Ready BY <1>19 DEF Ready
  <1>20. CASE CtrlC BY <1>20 DEF CtrlC
  <1>21. CASE Kill BY <1>21 DEF Kill
  <1>22. CASE Reboot BY <1>22 DEF Reboot
  <1>23. CASE CaptureVolatile BY <1>23 DEF CaptureVolatile
  <1>24. CASE UNCHANGED vars BY <1>24 DEF vars, run
  <1> QED
    BY <1>1, <1>2, <1>3, <1>4, <1>5, <1>6, <1>7, <1>8, <1>9, <1>10, <1>11,
       <1>12, <1>13, <1>14, <1>15, <1>16, <1>17, <1>18, <1>19, <1>20, <1>21,
       <1>22, <1>23, <1>24
    DEF Next, Work

-----------------------------------------------------------------------------
\* What a step of stage does to the host, when other processes share it.

\* The service changes only under the quarantine, which stays; the rest of the
\* firewall changes only where there is no service.
ServiceKept == UNCHANGED svc /\ (UNCHANGED fw \/ ~svc.installed)
ServiceChanged ==
  /\ pc \in Installing /\ Quarantined'
  /\ pc = "svcInstall" \/ UNCHANGED fw
  /\ \/ svc'.installed
     \/ /\ svc'.installed = svc.installed
        /\ svc'.auto => svc.auto
        /\ svc'.running => svc.running

LEMMA ServiceSteps ==
  ASSUME TypeOK, Order, Launch \/ Preflight \/ Work \/ CtrlC \/ Kill
  PROVE  ServiceKept \/ ServiceChanged
  <1>0. pc \in Place /\ svc \in Service /\ fw \in Policy
    BY DEF TypeOK
  <1> USE <1>0
      DEF ServiceKept, ServiceChanged, Order, NoServiceYet, Quarantining, Unwinding,
          Installing, Service, Registered
  <1>1. CASE Launch BY <1>1 DEF Launch
  <1>2. CASE Preflight BY <1>2 DEF Preflight
  <1>3. CASE TakeFiles BY <1>3 DEF TakeFiles
  <1>4. CASE Export BY <1>4 DEF Export
  <1>5. CASE Snapshot BY <1>5 DEF Snapshot
  <1>6. ASSUME NEW r \in Allow, AddRule(r) PROVE ServiceKept \/ ServiceChanged
    BY <1>6 DEF AddRule
  <1>7. CASE Sweep BY <1>7 DEF Sweep
  <1>8. CASE Flip BY <1>8 DEF Flip
  <1>9. CASE Import BY <1>9 DEF Import
  <1>10. CASE UnwindGroup BY <1>10 DEF UnwindGroup
  <1>11. CASE UnwindProfiles BY <1>11 DEF UnwindProfiles
  <1>12. CASE UnwindRules BY <1>12 DEF UnwindRules
  <1>13. CASE CopyPayload BY <1>13 DEF CopyPayload
  <1>14. CASE ServiceInstall
    <2>1. Quarantined'
      BY <1>14, InstallKeepsQuarantine DEF ServiceInstall
    <2> QED BY <1>14, <2>1 DEF ServiceInstall
  <1>15. CASE ServiceStop BY <1>15 DEF ServiceStop, Quarantined
  <1>16. CASE ServiceDemand BY <1>16 DEF ServiceDemand, Quarantined
  <1>17. CASE CheckPath BY <1>17 DEF CheckPath
  <1>18. CASE CreateTask BY <1>18 DEF CreateTask
  <1>19. CASE Ready BY <1>19 DEF Ready
  <1>20. CASE CtrlC BY <1>20 DEF CtrlC
  <1>21. CASE Kill BY <1>21 DEF Kill
  <1>22. CASE CaptureVolatile BY <1>22 DEF CaptureVolatile
  <1> QED
    BY <1>1, <1>2, <1>3, <1>4, <1>5, <1>6, <1>7, <1>8, <1>9, <1>10, <1>11,
       <1>12, <1>13, <1>14, <1>15, <1>16, <1>17, <1>18, <1>19, <1>20, <1>21, <1>22
    DEF Work

\* In any run: what is on disk as the original policy is that, and a host whose
\* policy has not been exported is the untouched one, its baseline as well.
Preserved ==
  /\ exported => wfw = original
  /\ ~exported => fw = original /\ baseline = original.profile
  /\ original.group = {}
  /\ pc \in Saved => exported

LEMMA PreservedSteps ==
  ASSUME TypeOK, Preserved, Next
  PROVE  Preserved'
  <1>0. pc \in Place
    BY DEF TypeOK
  <1> USE <1>0
      DEF Preserved, Saved, Quarantining, Unwinding, Installing, files, Goto, Halt, Unwind
  <1>1. CASE Launch BY <1>1 DEF Launch
  <1>2. CASE Preflight BY <1>2 DEF Preflight
  <1>3. CASE TakeFiles BY <1>3 DEF TakeFiles
  <1>4. CASE Export BY <1>4 DEF Export
  <1>5. CASE Snapshot BY <1>5 DEF Snapshot
  <1>6. ASSUME NEW r \in Allow, AddRule(r) PROVE Preserved'
    BY <1>6 DEF AddRule
  <1>7. CASE Sweep BY <1>7 DEF Sweep
  <1>8. CASE Flip BY <1>8 DEF Flip
  <1>9. CASE Import BY <1>9 DEF Import
  <1>10. CASE UnwindGroup BY <1>10 DEF UnwindGroup
  <1>11. CASE UnwindProfiles BY <1>11 DEF UnwindProfiles
  <1>12. CASE UnwindRules BY <1>12 DEF UnwindRules
  <1>13. CASE CopyPayload BY <1>13 DEF CopyPayload
  <1>14. CASE ServiceInstall BY <1>14 DEF ServiceInstall
  <1>15. CASE ServiceStop BY <1>15 DEF ServiceStop
  <1>16. CASE ServiceDemand BY <1>16 DEF ServiceDemand
  <1>17. CASE CheckPath BY <1>17 DEF CheckPath
  <1>18. CASE CreateTask BY <1>18 DEF CreateTask
  <1>19. CASE Ready BY <1>19 DEF Ready
  <1>20. CASE CtrlC BY <1>20 DEF CtrlC
  <1>21. CASE Kill BY <1>21 DEF Kill
  <1>22. CASE CaptureVolatile BY <1>22 DEF CaptureVolatile
  <1>23. CASE Reboot BY <1>23 DEF Reboot
  <1> QED
    BY <1>1, <1>2, <1>3, <1>4, <1>5, <1>6, <1>7, <1>8, <1>9, <1>10, <1>11,
       <1>12, <1>13, <1>14, <1>15, <1>16, <1>17, <1>18, <1>19, <1>20, <1>21, <1>22, <1>23
    DEF Next, Work

\* As long as stage is launched only where no policy has been exported, the
\* exported policy and the baseline are both those of the untouched host.
BeforeExport == {"preflight", "files", "volatile", "export"}

FirstRun ==
  /\ exported => wfw = original
  /\ ~exported => fw = original
  /\ baseline = original.profile
  /\ original.group = {}
  /\ pc \in BeforeExport => ~exported
  /\ pc \in Saved => exported
  /\ pc = "snapshot" => fw = original

LEMMA FirstRunSteps ==
  ASSUME TypeOK, FirstRun, Next, Launch => ~exported
  PROVE  FirstRun'
  <1>0. pc \in Place
    BY DEF TypeOK
  <1> USE <1>0
      DEF FirstRun, BeforeExport, Saved, Quarantining, Unwinding, Installing, files,
          Goto, Halt, Unwind
  <1>1. CASE Launch BY <1>1 DEF Launch
  <1>2. CASE Preflight BY <1>2 DEF Preflight
  <1>3. CASE TakeFiles BY <1>3 DEF TakeFiles
  <1>4. CASE Export BY <1>4 DEF Export
  <1>5. CASE Snapshot BY <1>5 DEF Snapshot
  <1>6. ASSUME NEW r \in Allow, AddRule(r) PROVE FirstRun'
    BY <1>6 DEF AddRule
  <1>7. CASE Sweep BY <1>7 DEF Sweep
  <1>8. CASE Flip BY <1>8 DEF Flip
  <1>9. CASE Import BY <1>9 DEF Import
  <1>10. CASE UnwindGroup BY <1>10 DEF UnwindGroup
  <1>11. CASE UnwindProfiles BY <1>11 DEF UnwindProfiles
  <1>12. CASE UnwindRules BY <1>12 DEF UnwindRules
  <1>13. CASE CopyPayload BY <1>13 DEF CopyPayload
  <1>14. CASE ServiceInstall BY <1>14 DEF ServiceInstall
  <1>15. CASE ServiceStop BY <1>15 DEF ServiceStop
  <1>16. CASE ServiceDemand BY <1>16 DEF ServiceDemand
  <1>17. CASE CheckPath BY <1>17 DEF CheckPath
  <1>18. CASE CreateTask BY <1>18 DEF CreateTask
  <1>19. CASE Ready BY <1>19 DEF Ready
  <1>20. CASE CtrlC BY <1>20 DEF CtrlC
  <1>21. CASE Kill BY <1>21 DEF Kill
  <1>22. CASE CaptureVolatile BY <1>22 DEF CaptureVolatile
  <1>23. CASE Reboot BY <1>23 DEF Reboot
  <1> QED
    BY <1>1, <1>2, <1>3, <1>4, <1>5, <1>6, <1>7, <1>8, <1>9, <1>10, <1>11,
       <1>12, <1>13, <1>14, <1>15, <1>16, <1>17, <1>18, <1>19, <1>20, <1>21, <1>22, <1>23
    DEF Next, Work

-----------------------------------------------------------------------------

\* The state of stage, of the host it changes and of its files keeps its types
\* over any number of runs.
THEOREM TypeCorrect == Spec => []TypeOK
  <1>1. Init => TypeOK
    BY InitInv DEF Inv
  <1> QED BY <1>1, NextTypeOK, PTL DEF Spec

LEMMA AlwaysInv == Spec => []Inv
  <1>1. Inv /\ [Next]_vars => Inv'
    BY NextTypeOK, NextProgress, NextSafety DEF Inv
  <1> QED BY InitInv, <1>1, PTL DEF Spec

\* However often stage aborts and is run again, the exported policy stays the
\* one of the untouched host, and is there before the host is touched.
THEOREM OriginalSafe == Spec => []OriginalPreserved
  <1>1. Inv => OriginalPreserved
    BY DEF Inv, Safety
  <1> QED BY AlwaysInv, <1>1, PTL

\* However runs of stage fail, are cancelled, killed or repeated: Velociraptor
\* exists only under the default-deny of every profile, with the whole
\* allow-list, and with no other rule enabled than those that the sweep could
\* silently leave enabled and those of the installer itself.
THEOREM ServiceQuarantined == Spec => []VeloOnlyQuarantined
  <1>1. Inv => VeloOnlyQuarantined
    BY DEF Inv, Safety
  <1> QED BY AlwaysInv, <1>1, PTL

\* A rollback that imported has restored the host, in every run.
THEOREM ImportGivesBack == Spec => []ImportRestores
  <1>1. Inv => ImportRestores
    BY DEF Inv, Safety
  <1> QED BY AlwaysInv, <1>1, PTL

\* A rollback that reports success, by the import or by hand, in the first run
\* or in any later one, has taken the kit's rules out again and opened nothing
\* but what the installer had opened.
THEOREM RollbackHonest == Spec => []RollbackUnwinds
  <1>1. Init => Unwound
    BY DEF Init, Unwound, RollbackUnwinds
  <1>2. Inv /\ Unwound /\ [Next]_vars => Unwound'
    BY NextUnwound
  <1>3. Unwound => RollbackUnwinds
    BY DEF Unwound
  <1> QED BY AlwaysInv, <1>1, <1>2, <1>3, PTL DEF Spec

\* READY means that every part of staging is in place, in every run; of the
\* sweep it means that no rule is enabled that could be disabled.
THEOREM ReadyMeansAll == Spec => []ReadyComplete
  <1>1. Inv => ReadyComplete
    BY DEF Inv, Safety
  <1> QED BY AlwaysInv, <1>1, PTL

=============================================================================
