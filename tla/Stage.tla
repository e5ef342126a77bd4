------------------------------- MODULE Stage -------------------------------
(***************************************************************************)
(* The offline half of the workflow, internal/stage: PREFLIGHT, BASELINE,  *)
(* QUARANTINE with its rollback, INSTALL, READY - on a host whose firewall *)
(* is a set of enabled rules and a default per profile, with commands that *)
(* fail (after taking effect in part), a Ctrl-C that makes every further   *)
(* command fail, crashes, reboots, and reruns over the same workdir.       *)
(***************************************************************************)
EXTENDS FiniteSets

CONSTANTS
  Rule,      \* the firewall rules the host had before the kit
  Stubborn,  \* ... those that Disable-NetFirewallRule may leave enabled
  Installer, \* the rules that Velociraptor's own `service install` may add
  Allow,     \* the kit's allow-list: QuarantineRules and ServerRules
  Profile    \* the firewall profiles

VARIABLES
  pc,        \* where the stage process is; "idle" when there is none
  outcome,   \* how the last run ended
  cancelled, \* the context of the process was cancelled by Ctrl-C
  left,      \* the allow-list rules not yet added
  unwound,   \* no step of the piecewise rollback has failed so far
  manRules,  \* Man.DisabledRules in the memory of the process
  fw,        \* the firewall of the host
  svc,       \* the Velociraptor service
  task,      \* the startup task exists
  exported,  \* firewall-original.wfw exists
  wfw,       \* ... and what it holds
  baseline,  \* the profiles in baseline.json
  savedRules,\* disabled_rules in manifest.json
  original,  \* history: the firewall before the kit first ran
  imported   \* history: the last rollback imported the policy

run   == <<pc, outcome, cancelled, left, unwound, manRules>>
files == <<exported, wfw, baseline, savedRules>>
vars  == <<run, fw, svc, task, files, original, imported>>

-----------------------------------------------------------------------------

Default == {"preset", "lockdown"}
Foreign == Rule \cup Installer
Policy == [enabled : SUBSET Foreign, group : SUBSET Allow, profile : [Profile -> Default]]
Service == [installed : BOOLEAN, auto : BOOLEAN, running : BOOLEAN]

AllProfiles(default) == [p \in Profile |-> default]

\* The quarantine as far as stage can know it: beside the kit's own rules only
\* what the sweep silently left and what the installer of Velociraptor added.
Quarantined ==
  /\ fw.group = Allow /\ fw.profile = AllProfiles("lockdown")
  /\ fw.enabled \subseteq Stubborn \cup Installer

NoService == [installed |-> FALSE, auto |-> FALSE, running |-> FALSE]
\* `service install` registers the service for automatic start, and starts it.
Registered(running) == [installed |-> TRUE, auto |-> TRUE, running |-> running]

Quarantining == {"allow", "flip"}
Unwinding    == {"import", "unwindGroup", "unwindProfiles", "unwindRules"}
Installing   == {"payload", "svcInstall", "svcStop", "svcDemand", "path", "task", "ready"}
Place   == {"idle", "preflight", "files", "volatile", "export", "snapshot"}
             \cup Quarantining \cup Unwinding \cup Installing
Outcome == {"none", "refused", "E20", "rolledBack", "rollbackFailed",
            "E40", "ready", "killed"}

Init ==
  /\ pc = "idle" /\ outcome = "none" /\ cancelled = FALSE
  /\ left = {} /\ unwound = TRUE /\ manRules = {}
  /\ \E on \in SUBSET Rule :
       fw = [enabled |-> on, group |-> {}, profile |-> AllProfiles("preset")]
  /\ original = fw /\ wfw = fw /\ exported = FALSE
  /\ svc = NoService /\ task = FALSE
  /\ baseline = AllProfiles("preset") /\ savedRules = {}
  /\ imported = FALSE

Goto(place) == pc' = place /\ UNCHANGED <<outcome, cancelled, left, unwound, manRules>>

\* Run returns; the process holds its window open and then is gone.
Halt(why) ==
  /\ pc' = "idle" /\ outcome' = why /\ cancelled' = FALSE
  /\ left' = {} /\ unwound' = TRUE /\ manRules' = {}

\* A command that was not cancelled may still fail; a cancelled one always does.
Works == ~cancelled

-----------------------------------------------------------------------------
\* PREFLIGHT and BASELINE

\* openHost loads the manifest of an earlier run, if there is one.
Launch ==
  /\ pc = "idle"
  /\ pc' = "preflight" /\ outcome' = "none"
  /\ manRules' = savedRules
  /\ imported' = FALSE
  /\ UNCHANGED <<cancelled, left, unwound, fw, svc, task, files, original>>

\* E10 to E18: any check may refuse, E16 refuses a host with the service.
Preflight ==
  /\ pc = "preflight"
  /\ \/ Halt("refused")
     \/ Works /\ ~svc.installed /\ Goto("files")
  /\ UNCHANGED <<fw, svc, task, files, original, imported>>

\* MkdirAll and the copies that teardown and breakglass will need.
TakeFiles ==
  /\ pc = "files"
  /\ Goto("volatile") \/ Halt("E20")
  /\ UNCHANGED <<fw, svc, task, files, original, imported>>

\* A capture that fails, even all of them after Ctrl-C, is recorded and does
\* not stop the run; only a file that cannot be written does.
CaptureVolatile ==
  /\ pc = "volatile"
  /\ Goto("export") \/ Halt("E20")
  /\ UNCHANGED <<fw, svc, task, files, original, imported>>

\* Mutant: the os.Stat guard is dropped, every run exports anew.
ExportAlways ==
  /\ pc = "export"
  /\ \/ Works /\ Goto("snapshot") /\ exported' = TRUE /\ wfw' = fw
     \/ Halt("E20") /\ UNCHANGED <<exported, wfw>>
  /\ UNCHANGED <<fw, svc, task, baseline, savedRules, original, imported>>

\* Mutant: the error of the export is ignored like those of the copies.
ExportUnchecked ==
  /\ pc = "export" /\ Goto("snapshot")
  /\ \/ Works /\ exported' = TRUE /\ wfw' = IF exported THEN wfw ELSE fw
     \/ UNCHANGED <<exported, wfw>>
  /\ UNCHANGED <<fw, svc, task, baseline, savedRules, original, imported>>

\* A policy exported by an earlier run is kept.
Export ==
  /\ pc = "export"
  /\ \/ exported /\ Goto("snapshot") /\ UNCHANGED <<exported, wfw>>
     \/ /\ ~exported /\ Works /\ Goto("snapshot")
        /\ exported' = TRUE /\ wfw' = fw
     \/ ~exported /\ Halt("E20") /\ UNCHANGED <<exported, wfw>>
  /\ UNCHANGED <<fw, svc, task, baseline, savedRules, original, imported>>

\* baseline.json is written anew by every run; phase("QUARANTINE") may still
\* fail after it was.
Snapshot ==
  /\ pc = "snapshot"
  /\ \/ /\ Works
        /\ baseline' = fw.profile
        /\ pc' = "allow" /\ left' = Allow
        /\ UNCHANGED <<outcome, cancelled, unwound, manRules>>
     \/ Halt("E20") /\ baseline' \in {baseline, fw.profile}
  /\ UNCHANGED <<fw, svc, task, exported, wfw, savedRules, original, imported>>

-----------------------------------------------------------------------------
\* QUARANTINE

AddRule(r) ==
  /\ pc = "allow" /\ r \in left
  /\ \/ /\ Works
        /\ fw' = [fw EXCEPT !.group = @ \cup {r}]
        /\ left' = left \ {r}
        /\ UNCHANGED <<pc, outcome, cancelled, unwound, manRules>>
     \/ /\ \E done \in SUBSET {r} : fw' = [fw EXCEPT !.group = @ \cup done]
        /\ Goto("import")
  /\ UNCHANGED <<svc, task, files, original, imported>>

\* Mutant: the sweep does not spare the kit's own group.
SweepEveryRule ==
  /\ pc = "allow" /\ left = {}
  /\ fw' = [fw EXCEPT !.enabled = {}, !.group = {}]
  /\ manRules' = fw.enabled \cup fw.group
  /\ pc' = "flip" /\ UNCHANGED <<outcome, cancelled, left, unwound>>
  /\ UNCHANGED <<svc, task, files, original, imported>>

\* DisableOtherRules: the names reach the manifest only when it succeeds; it
\* fails when the command does, half way, or when its output does not parse.
\* The script ends in ConvertTo-Json, so a rule that Disable-NetFirewallRule
\* could not disable leaves the exit code at 0 and its name among the disabled.
Sweep ==
  /\ pc = "allow" /\ left = {}
  /\ \/ /\ Works
        /\ \E on \in SUBSET (fw.enabled \cap Stubborn) : fw' = [fw EXCEPT !.enabled = on]
        /\ manRules' = fw.enabled
        /\ pc' = "flip" /\ UNCHANGED <<outcome, cancelled, left, unwound>>
     \/ /\ \E on \in SUBSET fw.enabled : fw' = [fw EXCEPT !.enabled = on]
        /\ Goto("import")
  /\ UNCHANGED <<svc, task, files, original, imported>>

Overlay(profiles, new) ==
  [p \in Profile |-> IF p \in profiles THEN new[p] ELSE fw.profile[p]]

\* Mutant: the error of SetAllProfiles is ignored.
FlipUnchecked ==
  /\ pc = "flip"
  /\ \E done \in SUBSET Profile :
       fw' = [fw EXCEPT !.profile = Overlay(done, AllProfiles("lockdown"))]
  /\ Goto("payload")
  /\ UNCHANGED <<svc, task, files, original, imported>>

Flip ==
  /\ pc = "flip"
  /\ \/ /\ Works
        /\ fw' = [fw EXCEPT !.profile = AllProfiles("lockdown")]
        /\ Goto("payload")
     \/ /\ \E done \in SUBSET Profile :
             fw' = [fw EXCEPT !.profile = Overlay(done, AllProfiles("lockdown"))]
        /\ Goto("import")
  /\ UNCHANGED <<svc, task, files, original, imported>>

\* rollback: import the exported policy, or else undo the steps by hand.
Import ==
  /\ pc = "import"
  /\ \/ /\ Works
        /\ fw' = wfw /\ imported' = TRUE
        /\ Halt("rolledBack")
     \/ Goto("unwindGroup") /\ UNCHANGED <<fw, imported>>
  /\ UNCHANGED <<svc, task, files, original>>

\* Go on to the next step by hand, remembering whether this one succeeded.
Unwind(ok, next) ==
  /\ pc' = next /\ unwound' = (unwound /\ ok)
  /\ UNCHANGED <<outcome, cancelled, left, manRules>>

\* Mutant: rollback does not append the error of RemoveGroup to its own.
UnwindGroupUnchecked ==
  /\ pc = "unwindGroup"
  /\ \/ Works /\ fw' = [fw EXCEPT !.group = {}]
     \/ \E kept \in SUBSET fw.group : fw' = [fw EXCEPT !.group = kept]
  /\ Unwind(TRUE, "unwindProfiles")
  /\ UNCHANGED <<svc, task, files, original, imported>>

UnwindGroup ==
  /\ pc = "unwindGroup"
  /\ \/ /\ Works /\ fw' = [fw EXCEPT !.group = {}]
        /\ Unwind(TRUE, "unwindProfiles")
     \/ /\ \E kept \in SUBSET fw.group : fw' = [fw EXCEPT !.group = kept]
        /\ Unwind(FALSE, "unwindProfiles")
  /\ UNCHANGED <<svc, task, files, original, imported>>

\* RestoreProfiles sets one profile after the other and stops at an error.
UnwindProfiles ==
  /\ pc = "unwindProfiles"
  /\ \/ /\ Works /\ fw' = [fw EXCEPT !.profile = baseline]
        /\ Unwind(TRUE, "unwindRules")
     \/ /\ \E done \in SUBSET Profile :
             fw' = [fw EXCEPT !.profile = Overlay(done, baseline)]
        /\ Unwind(FALSE, "unwindRules")
  /\ UNCHANGED <<svc, task, files, original, imported>>

\* EnableRules runs no command, and succeeds, when there are no names.
UnwindRules ==
  /\ pc = "unwindRules"
  /\ \/ /\ Works \/ manRules = {}
        /\ fw' = [fw EXCEPT !.enabled = @ \cup manRules]
        /\ Halt(IF unwound THEN "rolledBack" ELSE "rollbackFailed")
     \/ /\ manRules # {}
        /\ \E on \in SUBSET manRules : fw' = [fw EXCEPT !.enabled = @ \cup on]
        /\ Halt("rollbackFailed")
  /\ UNCHANGED <<svc, task, files, original, imported>>

-----------------------------------------------------------------------------
\* INSTALL and READY

CopyPayload ==
  /\ pc = "payload"
  /\ Goto("svcInstall") \/ Halt("E40")
  /\ UNCHANGED <<fw, svc, task, files, original, imported>>

\* velo.InstallService: install (and start), stop, set to manual start.  What
\* the installer adds to the firewall is on nobody's list.
ServiceInstall ==
  /\ pc = "svcInstall"
  /\ \E added \in SUBSET Installer : fw' = [fw EXCEPT !.enabled = @ \cup added]
  /\ \/ Works /\ svc' = Registered(TRUE) /\ Goto("svcStop")
     \/ /\ svc' \in {svc, Registered(TRUE), Registered(FALSE)}
        /\ Halt("E40")
  /\ UNCHANGED <<task, files, original, imported>>

ServiceStop ==
  /\ pc = "svcStop"
  /\ \/ Works /\ svc' = [svc EXCEPT !.running = FALSE] /\ Goto("svcDemand")
     \/ Halt("E40") /\ UNCHANGED svc
  /\ UNCHANGED <<fw, task, files, original, imported>>

\* Mutant: the error of `sc config start= demand` is ignored.
ServiceDemandUnchecked ==
  /\ pc = "svcDemand"
  /\ svc' \in {svc, [svc EXCEPT !.auto = FALSE]} /\ Goto("path")
  /\ UNCHANGED <<fw, task, files, original, imported>>

ServiceDemand ==
  /\ pc = "svcDemand"
  /\ \/ Works /\ svc' = [svc EXCEPT !.auto = FALSE] /\ Goto("path")
     \/ Halt("E40") /\ UNCHANGED svc
  /\ UNCHANGED <<fw, task, files, original, imported>>

\* E41: the service runs from a path the firewall does not allow.
CheckPath ==
  /\ pc = "path"
  /\ (Works /\ Goto("task")) \/ Halt("E40")
  /\ UNCHANGED <<fw, svc, task, files, original, imported>>

CreateTask ==
  /\ pc = "task"
  /\ \/ Works /\ task' = TRUE /\ Goto("ready")
     \/ Halt("E40") /\ UNCHANGED task
  /\ UNCHANGED <<fw, svc, files, original, imported>>

\* The only place where stage saves the manifest; the phase record or the
\* save may fail, and a manifest cut short loads as an empty one.
Ready ==
  /\ pc = "ready"
  /\ \/ savedRules' = manRules /\ Halt("ready")
     \/ Halt("E40") /\ savedRules' \in {savedRules, {}}
  /\ UNCHANGED <<fw, svc, task, exported, wfw, baseline, original, imported>>

-----------------------------------------------------------------------------
\* The host around the process

CtrlC ==
  /\ pc # "idle" /\ ~cancelled
  /\ cancelled' = TRUE
  /\ UNCHANGED <<pc, outcome, left, unwound, manRules, fw, svc, task, files, original, imported>>

Kill ==
  /\ pc # "idle"
  /\ Halt("killed")
  /\ UNCHANGED <<fw, svc, task, files, original, imported>>

Reboot ==
  /\ Halt("killed")
  /\ svc' = [svc EXCEPT !.running = svc.auto]
  /\ UNCHANGED <<fw, task, files, original, imported>>

\* What a run does between its checks and its end.
Work ==
  \/ TakeFiles \/ CaptureVolatile \/ Export \/ Snapshot
  \/ \E r \in Allow : AddRule(r)
  \/ Sweep \/ Flip \/ Import \/ UnwindGroup \/ UnwindProfiles \/ UnwindRules
  \/ CopyPayload \/ ServiceInstall \/ ServiceStop \/ ServiceDemand
  \/ CheckPath \/ CreateTask \/ Ready

Next == Launch \/ Preflight \/ Work \/ CtrlC \/ Kill \/ Reboot

Spec == Init /\ [][Next]_vars

-----------------------------------------------------------------------------

TypeOK ==
  /\ pc \in Place /\ outcome \in Outcome /\ cancelled \in BOOLEAN
  /\ left \subseteq Allow /\ unwound \in BOOLEAN
  /\ manRules \subseteq Foreign /\ savedRules \subseteq Foreign
  /\ fw \in Policy /\ wfw \in Policy /\ original \in Policy
  /\ svc \in Service /\ task \in BOOLEAN
  /\ exported \in BOOLEAN /\ imported \in BOOLEAN
  /\ baseline \in [Profile -> Default]

\* The policy on disk is the one from before the kit, whatever aborted and
\* however often stage was rerun, and it is there before the host is touched.
OriginalPreserved ==
  /\ exported => wfw = original
  /\ fw # original => exported

\* A host on which Velociraptor is installed - running or not, finished or
\* aborted, killed or rebooted - is under the quarantine: the whole allow-list,
\* every profile on default-deny, and no rule of before enabled that could be
\* disabled.  (For those that could not, see ForeignRulesOff.)
VeloOnlyQuarantined == svc.installed => Quarantined

\* A rollback that imported left the host exactly as it was before the kit.
ImportRestores == outcome = "rolledBack" /\ imported => fw = original

\* A rollback that reports success, however it was done and whatever runs came
\* before it, has left no rule of the kit, enabled none that was not or that the
\* installer of an earlier run did not add, and left the profiles with the
\* original defaults or with those of baseline.json.
RollbackUnwinds ==
  outcome = "rolledBack" =>
    /\ fw.group = {} /\ fw.enabled \subseteq original.enabled \cup Installer
    /\ fw.profile \in {original.profile, baseline}

\* READY means all of it: quarantine, a stopped manual-start service, the
\* startup task that resumes after a reboot, and the policy to go back to.
ReadyComplete ==
  outcome = "ready" =>
    /\ Quarantined
    /\ svc = [installed |-> TRUE, auto |-> FALSE, running |-> FALSE]
    /\ task /\ exported

\* "`Get-NetFirewallRule -Enabled True` lists only the `DFIRMedic-*` group plus
\* rules the Velociraptor installer added": what READY is expected to look like.
ForeignRulesOff == outcome = "ready" => fw.enabled \subseteq Installer

\* "quarantine failed and was rolled back" (E30): the host is as it was.
RollbackTruthful == outcome = "rolledBack" => fw = original

=============================================================================
