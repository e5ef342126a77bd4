----------------------------- MODULE Engagement -----------------------------
(***************************************************************************)
(* A whole engagement on one host: stage, connect and teardown (or         *)
(* breakglass), three processes over the same firewall, service, startup   *)
(* task, adapters and working directory.  Stage and Connect are instances  *)
(* of their modules; teardown (internal/teardown) is modelled here.        *)
(***************************************************************************)
EXTENDS Naturals, FiniteSets

CONSTANTS
  Rule, Stubborn, Installer, Allow, Profile,          \* as in Stage
  Adapter, Poll, Late, ProbeTime, StartTime,          \* as in Connect
  TunnelTimeout, Grace, Faults, Crashes,
  MaxFailed,   \* bound: no step fails by itself when so many have failed
  Reruns,      \* may stage be run again over a workdir it has used?
  Overlap      \* may teardown start while connect is running?

VARIABLES
  spc, soutcome, scancelled, left, unwound, manRules, \* the stage process
  fw, svc, task,                                      \* the host
  exported, wfw, baseline, savedRules,                \* the working directory
  original, imported,                                 \* history of Stage
  cpc, coutcome, ccancelled, waited, age, stale,      \* the connect process
  todo, listed, disabled, errs, man,
  status, server,                                     \* adapters and server
  saved, tripped,                                     \* record, its history
  payload,     \* the kit's payload is in the working directory
  baseUp,      \* the adapters that baseline.json has as Up
  tpc,         \* where the teardown process is; "idle" when there is none
  tman,        \* teardown: Man.DisabledAdapters in its memory
  failed,      \* the teardown steps whose last attempt failed
  ended,       \* how the last teardown ended; "none" once the host is used anew
  forgotten    \* history: what a crash or a failed save kept out of manifest.json

stageVars    == <<spc, soutcome, scancelled, left, unwound, manRules>>
hostVars     == <<fw, svc, task>>
fileVars     == <<exported, wfw, baseline, savedRules>>
historyVars  == <<original, imported>>
connectVars  == <<cpc, coutcome, ccancelled, waited, age, stale,
                  todo, listed, disabled, errs, man>>
networkVars  == <<status, server>>
recordVars   == <<saved, tripped>>
teardownVars == <<tpc, tman, failed, ended>>
payloadVars  == <<payload, baseUp>>
vars == <<stageVars, hostVars, fileVars, historyVars, connectVars,
          networkVars, recordVars, payloadVars, teardownVars, forgotten>>

Staging == INSTANCE Stage WITH
  pc <- spc, outcome <- soutcome, cancelled <- scancelled

\* sc.exe's view of the service, which is all that connect sees of it.
Velo == IF ~svc.installed THEN "absent"
        ELSE IF svc.running THEN "running" ELSE "stopped"

Connecting == INSTANCE Connect WITH
  pc <- cpc, outcome <- coutcome, cancelled <- ccancelled, velo <- Velo

ASSUME EngagementAssumption ==
  /\ Connecting!ConnectAssumption
  /\ {Reruns, Overlap} \subseteq BOOLEAN /\ MaxFailed \in Nat

-----------------------------------------------------------------------------

Step == {"stop", "remove", "directory", "task", "group", "import",
         "adapters", "profiles", "save"}
Ended == {"none", "complete", "errors", "killed"}

Init ==
  /\ Staging!Init /\ Connecting!Init
  /\ payload = FALSE /\ baseUp = {}
  /\ tpc = "idle" /\ tman = {} /\ failed = {} /\ ended = "none"
  /\ forgotten = {}

StageAlone == UNCHANGED <<connectVars, networkVars, tripped, teardownVars>>

\* Every process saves the whole manifest.  One that was cut short loads as
\* empty: the rules are lost with the adapters.
ManifestCut == saved' = {} /\ savedRules' = {} /\ forgotten' = forgotten \cup tripped
ManifestKept == UNCHANGED <<saved, forgotten>>

\* Starting a phase on the host ends what the last teardown claims of it.
UsedAnew == ended' = "none" /\ UNCHANGED <<tpc, tman, failed>>

StageLaunch ==
  /\ cpc = "idle" /\ tpc = "idle"
  /\ Reruns \/ ~exported
  /\ Staging!Launch
  /\ UsedAnew
  /\ UNCHANGED <<connectVars, networkVars, recordVars, payloadVars, forgotten>>

\* E14: no physical adapter is up.
StagePreflight ==
  /\ Staging!Preflight
  /\ spc' = "files" => ~Connecting!LinkUp
  /\ StageAlone /\ ManifestKept /\ UNCHANGED payloadVars

\* The snapshot records which adapters are up: one may have been plugged in
\* since E14.
StageWork ==
  /\ Staging!Work
  /\ payload' = (payload \/ (spc = "payload" /\ spc' = "svcInstall"))
  /\ \/ spc = "snapshot" /\ baseUp' = {a \in Adapter : status[a] = "up"}
     \/ (spc = "snapshot" => spc' = "idle") /\ UNCHANGED baseUp
  /\ \/ ManifestKept
     \/ spc = "ready" /\ soutcome' = "E40" /\ ManifestCut
  /\ StageAlone

StageStops ==
  /\ Staging!CtrlC \/ Staging!Kill
  /\ StageAlone /\ ManifestKept /\ UNCHANGED payloadVars

-----------------------------------------------------------------------------

\* connect's steps change the host only by starting and stopping the service.
ConnectAlone ==
  /\ \E running \in BOOLEAN :
       /\ ~svc.installed => running = svc.running
       /\ svc' = [svc EXCEPT !.running = running]
  /\ UNCHANGED <<stageVars, fw, task, exported, wfw, baseline, historyVars, payloadVars>>

\* By the hand-off from stage or by an operator; without the payload
\* verifyKitForConnect refuses.
ConnectLaunch ==
  /\ spc = "idle" /\ tpc = "idle" /\ payload
  /\ ConnectAlone /\ Connecting!Launch
  /\ UsedAnew
  /\ UNCHANGED <<savedRules, forgotten>>

\* A save that fails or is cut short leaves out what the process would have
\* recorded, and one that works brings it back.
Recorded ==
  /\ forgotten' = (forgotten \cup (man' \ saved')) \ saved'
  /\ \/ UNCHANGED savedRules
     \/ "save" \in Faults /\ Connecting!Saving /\ saved' = {} /\ savedRules' = {}

ConnectStep ==
  /\ ConnectAlone
  /\ Connecting!Step \/ Connecting!CtrlC
  /\ Recorded /\ UNCHANGED teardownVars

\* A kill in the middle of a trip, or of a save, leaves adapters disabled that
\* manifest.json does not name.
ConnectKill ==
  /\ ConnectAlone /\ Connecting!Kill
  /\ savedRules' \in {savedRules, {}}
  /\ forgotten' = forgotten \cup (tripped \ saved')
  /\ UNCHANGED teardownVars

\* Cables and the server change under any process.
NetworkChanges ==
  /\ ConnectAlone
  /\ Connecting!ServerChanges \/ \E a \in Adapter : Connecting!Plug(a)
  /\ UNCHANGED <<teardownVars, savedRules, forgotten>>

-----------------------------------------------------------------------------
\* teardown.Run: every step is tried, whatever happened to the others.

Teardown(place, next) == tpc = place /\ tpc' = next /\ UNCHANGED <<tman, ended>>

Done(step) == failed' = failed \ {step}
Fails(step) == failed' = failed \cup {step}
MayFail(step) == Cardinality(failed) < MaxFailed /\ Fails(step)

TeardownAlone ==
  UNCHANGED <<stageVars, exported, wfw, baseline, historyVars, connectVars,
              server, tripped, payloadVars>>

\* What a step leaves to the last one, and to the adapter step.
FilesKept == ManifestKept /\ UNCHANGED savedRules
HostOnly  == TeardownAlone /\ FilesKept /\ UNCHANGED status

\* openHost loads the manifest.  Responders run teardown over the tunnel, while
\* connect is still watching it, or on the host after connect has ended.
TeardownLaunch ==
  /\ tpc = "idle" /\ spc = "idle"
  /\ Overlap \/ cpc = "idle"
  /\ tpc' = "stop" /\ tman' = saved /\ ended' = "none"
  /\ HostOnly /\ UNCHANGED <<hostVars, failed>>

\* Mutant: every exit code of sc stop is tolerated, not only 1062.
StopUnchecked ==
  /\ Teardown("stop", "remove")
  /\ \/ svc.installed /\ svc' = [svc EXCEPT !.running = FALSE] /\ Done("stop")
     \/ UNCHANGED svc /\ Done("stop")
  /\ HostOnly /\ UNCHANGED <<fw, task>>

\* sc stop of a service that is not there fails.  One that sc accepts counts as
\* done: the moment until the service has ended, STOP_PENDING, is left out.
TeardownStop ==
  /\ Teardown("stop", "remove")
  /\ \/ svc.installed /\ svc' = [svc EXCEPT !.running = FALSE] /\ Done("stop")
     \/ ~svc.installed /\ UNCHANGED svc /\ Fails("stop")
     \/ svc' \in {svc, [svc EXCEPT !.running = FALSE]} /\ MayFail("stop")
  /\ HostOnly /\ UNCHANGED <<fw, task>>

\* Mutant: teardown returns when the service cannot be removed.
RemoveOrReturn ==
  /\ tpc = "remove" /\ UNCHANGED tman
  /\ \/ /\ svc.installed
        /\ svc' = [Staging!NoService EXCEPT !.running = svc.running]
        /\ Done("remove") /\ tpc' = "directory" /\ UNCHANGED ended
     \/ UNCHANGED svc /\ Fails("remove") /\ tpc' = "idle" /\ ended' = "errors"
  /\ HostOnly /\ UNCHANGED <<fw, task>>

\* Removing the registration does not stop a service that still runs.
TeardownRemove ==
  /\ Teardown("remove", "directory")
  /\ \/ /\ svc.installed
        /\ svc' = [Staging!NoService EXCEPT !.running = svc.running]
        /\ Done("remove")
     \/ ~svc.installed /\ UNCHANGED svc /\ Fails("remove")
     \/ UNCHANGED svc /\ MayFail("remove")
  /\ HostOnly /\ UNCHANGED <<fw, task>>

\* installDir may refuse the path; a file in it may be in use.
TeardownDirectory ==
  /\ Teardown("directory", "task")
  /\ Done("directory") \/ MayFail("directory")
  /\ HostOnly /\ UNCHANGED hostVars

TeardownTask ==
  /\ Teardown("task", "group")
  /\ \/ task /\ task' = FALSE /\ Done("task")
     \/ ~task /\ UNCHANGED task /\ Fails("task")
     \/ UNCHANGED task /\ MayFail("task")
  /\ HostOnly /\ UNCHANGED <<fw, svc>>

TeardownGroup ==
  /\ Teardown("group", "import")
  /\ \/ fw' = [fw EXCEPT !.group = {}] /\ Done("group")
     \/ \E kept \in SUBSET fw.group :
          fw' = [fw EXCEPT !.group = kept] /\ MayFail("group")
  /\ HostOnly /\ UNCHANGED <<svc, task>>

\* Mutant: the error of the import is logged only.
ImportUnchecked ==
  /\ Teardown("import", "adapters")
  /\ fw' \in {fw, wfw} /\ Done("import")
  /\ HostOnly /\ UNCHANGED <<svc, task>>

TeardownImport ==
  /\ Teardown("import", "adapters")
  /\ \/ exported /\ fw' = wfw /\ Done("import")
     \/ ~exported /\ UNCHANGED fw /\ Fails("import")
     \/ UNCHANGED fw /\ MayFail("import")
  /\ HostOnly /\ UNCHANGED <<svc, task>>

Enabled(names) ==
  [a \in Adapter |-> IF a \in names /\ status[a] = "disabled" THEN "down" ELSE status[a]]

\* Mutant: only the adapters of baseline.json are enabled.
EnableBaseline ==
  /\ Teardown("adapters", "profiles")
  /\ status' = Enabled(baseUp) /\ Done("adapters")
  /\ TeardownAlone /\ FilesKept /\ UNCHANGED hostVars

\* EnableAll goes on past a name that fails and passes over one that is gone.
\* With no names recorded it is baseline.json's adapters that were up.
TeardownAdapters ==
  /\ Teardown("adapters", "profiles")
  /\ LET names == IF tman = {} THEN baseUp ELSE tman IN
     \/ status' = Enabled(names) /\ Done("adapters")
     \/ \E some \in SUBSET names : status' = Enabled(some) /\ MayFail("adapters")
  /\ TeardownAlone /\ FilesKept /\ UNCHANGED hostVars

TeardownProfiles ==
  /\ Teardown("profiles", "save")
  /\ \/ exported /\ fw' = [fw EXCEPT !.profile = baseline] /\ Done("profiles")
     \/ ~exported /\ UNCHANGED fw /\ Fails("profiles")
     \/ \E some \in SUBSET Profile :
          /\ fw' = [fw EXCEPT !.profile = Staging!Overlay(some, baseline)]
          /\ MayFail("profiles")
  /\ HostOnly /\ UNCHANGED <<svc, task>>

\* Mutant: the result is the error of the save alone.
SaveDecides ==
  /\ tpc = "save" /\ tpc' = "idle" /\ tman' = {}
  /\ \/ saved' = tman /\ Done("save") /\ UNCHANGED <<savedRules, forgotten>>
     \/ FilesKept /\ MayFail("save")
  /\ ended' = IF "save" \in failed' THEN "errors" ELSE "complete"
  /\ TeardownAlone /\ UNCHANGED <<hostVars, status>>

\* The record is saved as it was loaded; enabling does not clear it.
TeardownSave ==
  /\ tpc = "save" /\ tpc' = "idle" /\ tman' = {}
  /\ \/ saved' = tman /\ Done("save") /\ UNCHANGED <<savedRules, forgotten>>
     \/ FilesKept /\ MayFail("save")
     \/ ManifestCut /\ MayFail("save")
  /\ ended' = IF failed' = {} THEN "complete" ELSE "errors"
  /\ TeardownAlone /\ UNCHANGED <<hostVars, status>>

\* A Ctrl-C needs no action of its own: it makes every further command fail.
TeardownKill ==
  /\ Crashes /\ tpc # "idle"
  /\ tpc' = "idle" /\ tman' = {} /\ ended' = "killed"
  /\ FilesKept \/ (tpc = "save" /\ ManifestCut)
  /\ TeardownAlone /\ UNCHANGED <<hostVars, status, failed>>

-----------------------------------------------------------------------------

\* Every process dies.  The startup task, if there is one, runs connect.
Reboot ==
  /\ Crashes
  /\ Staging!Halt("killed")
  /\ svc' = [svc EXCEPT !.running = svc.auto]
  /\ cpc' = (IF task THEN "link" ELSE "idle")
  /\ coutcome' = (IF task THEN "none" ELSE "killed") /\ ccancelled' = FALSE
  /\ Connecting!ResetTimers
  /\ \/ UNCHANGED <<saved, savedRules>> /\ forgotten' = forgotten \cup (tripped \ saved)
     \/ (Connecting!Saving \/ tpc = "save" \/ spc = "ready") /\ ManifestCut
  /\ man' = (IF task THEN saved' ELSE {})
  /\ todo' = {} /\ listed' = {} /\ disabled' = {} /\ errs' = {}
  /\ tpc' = "idle" /\ tman' = {}
  /\ ended' = IF tpc # "idle" THEN "killed" ELSE ended
  /\ UNCHANGED <<fw, task, exported, wfw, baseline, historyVars, networkVars,
                 tripped, payloadVars, failed>>

Next ==
  \/ StageLaunch \/ StagePreflight \/ StageWork \/ StageStops
  \/ ConnectLaunch \/ ConnectStep \/ ConnectKill \/ NetworkChanges
  \/ TeardownLaunch \/ TeardownStop \/ TeardownRemove \/ TeardownDirectory
  \/ TeardownTask \/ TeardownGroup \/ TeardownImport \/ TeardownAdapters
  \/ TeardownProfiles \/ TeardownSave \/ TeardownKill
  \/ Reboot

Spec == Init /\ [][Next]_vars

-----------------------------------------------------------------------------

\* The types of the three processes and what they share; a teardown that ends
\* as complete has no failed step left.
TypeOK ==
  /\ Staging!TypeOK /\ Connecting!TypeOK
  /\ payload \in BOOLEAN /\ baseUp \subseteq Adapter
  /\ tpc \in Step \cup {"idle"} /\ tman \subseteq Adapter
  /\ failed \subseteq Step /\ ended \in Ended
  /\ ended = "complete" => failed = {}
  /\ forgotten \subseteq Adapter

\* "Rule sets and profile settings identical ... Velociraptor service absent;
\* startup task absent": a teardown that reports no error has undone it all,
\* however stage was aborted and connect ended or was killed before.
TeardownRestores ==
  ended = "complete" => fw = original /\ ~svc.installed /\ ~svc.running /\ ~task

\* "Adapters disabled by the fail-closed watchdog are re-enabled": after a
\* teardown without error the only adapters still disabled are those that a
\* crash or a failed save kept out of manifest.json, and no later save recorded.
TeardownReconnects ==
  ended = "complete" => \A a \in Adapter \ forgotten : status[a] # "disabled"

\* One failing step spares no other: after a teardown that reports errors, what
\* is left on the host is what its own step failed to undo.
TeardownBestEffort ==
  ended \in {"complete", "errors"} =>
    /\ svc.installed => "remove" \in failed
    /\ task => "task" \in failed
    /\ fw # original => failed \cap {"import", "profiles"} # {}
    /\ ended = "errors" => failed # {}

\* Whoever starts Velociraptor, and wherever teardown is, fails, is killed or is
\* repeated: a service that has not been told to stop is under the quarantine,
\* or its stop or removal has failed - teardown opens the firewall regardless of
\* that, and without waiting for the stop to finish.
RunsQuarantined ==
  svc.running => Staging!Quarantined \/ failed \cap {"stop", "remove"} # {}

=============================================================================
