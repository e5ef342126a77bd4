# DFIRMedic: a verification of the staging, connect and evidence workflow

DFIRMedic prepares a compromised Windows host for remote forensics: `stage`
quarantines the offline host and installs Velociraptor, `connect` waits for the
network, verifies the responder's server and watches it, `teardown` and
`breakglass` put the host back. All of it works on a host that may lose power,
whose commands fail, and whose operator presses Ctrl-C. This directory holds
TLA+ models of that workflow, translated from `src/`, the TLC runs that check
them on small instances, and proofs, checked by TLAPS, for instances of any size.

## Inventory

| Component | State it keeps | Operations | What makes it hard |
|---|---|---|---|
| Evidence log, `internal/audit` | `audit.jsonl`; per process `f`, `seq`, `last` | `Open`, `Record`, `Close`, `VerifyChain` | every command is a process of its own and trusts what it read in `Open`; torn writes, failing syncs, power loss |
| Manifest, `internal/audit` | `manifest.json`; a copy in each process | `Save`, `LoadManifest` | rewritten in place; processes overwrite each other; an unreadable one loads as empty |
| Staging, `internal/stage` | firewall policy, service, startup task, `firewall-original.wfw`, `baseline.json` | PREFLIGHT, BASELINE, QUARANTINE and rollback, INSTALL, READY | commands that fail half way, rollback on a cancelled context, reruns over the same workdir |
| Connect, `internal/connect` | adapters, service, deadline and `lastOK` | `WaitLinkUp`, the probe loop, start, the heartbeat, `FailClosed` | real time with slow probes and late timers, flapping server, partial failure of a trip, second trips |
| Teardown, `internal/teardown` | the same host and files | nine steps, each tried whatever the others did; `Breakglass` | runs while `connect` still watches; depends on what earlier runs recorded |
| Windows and Velociraptor commands, `internal/win`, `internal/velo`, `internal/runner` | none | one external command each, logged | partial effects, exit codes |
| Probe, `internal/probe` | none | `Verify` | up to ten seconds long |
| Kit, `internal/build`, `manifest`, `sign`, `config` | the kit directory on the stick; its copy in the working directory | `Build`, `Verify`, the checks E11 to E13, E17 and E18, the copies of BASELINE and INSTALL | hash and signature binding, stale output directory, copies that end early, reruns with another kit |
| Command line, `cmd/dfirmedic` | processes | `openHost`, `ctx`, hand-off from stage to connect | which process opens which files, and when |
| Beacon, `internal/ui` | text | `Set`, `Render` | nothing the program depends on |

The components interact through the host (firewall, adapters, service, startup
task) and through the files of the working directory; only `stage` starts
another of them, by executing the copy of itself in the working directory. A
Ctrl-C cancels the context of one process: from then on every command it starts
fails at once, except those of `FailClosed`, which detaches its context.

What makes them correct: the log verifies and acknowledged evidence survives; a
host on which Velociraptor is installed is quarantined; what staging
saved as the original policy is the original policy; a watch ends in time and a
trip contains the host; what a trip or a quarantine took away is what teardown
gives back; what runs on the host, what it may talk to and what is deleted from
it was signed by the responder.

## Modules

### AuditLog (`internal/audit`)

`file` is the sequence of what each write left in `audit.jsonl`, `synced` how many
of these are on stable storage, and `log[p]` the `Log` value of process `p`.
`Record` is two steps, `Write` and `Sync`, because a crash or another process can
come between them and because the error of either leaves a different state:
`WriteFails` leaves part of the line in the file, `SyncFails` leaves the whole line
in the file and `seq`, `last` where they were. `Open` is `walk` and the assignment
of its result; it refuses a log that does not verify. `PowerLoss` keeps the synced
writes and any prefix of the others, cut anywhere. A digest is modelled as the
sequence of everything it digests (`Digest` appends to the previous digest), which
is what being free of collisions means; timestamps and JSON belong to the entry's
body.

A write that is cut short leaves a `Fragment`, or everything but the newline
(`CutShort`). With `O_APPEND` the next write goes on in the same line, so a write
is a line of the file only if it ended in a newline, or if it lacks nothing else
and comes last: `bufio.Scanner` takes such a last line (`WholeLine`). `Open` then
continues from it, and the next `Record` spoils it.

`Shared` says whether two processes may have the log open at once, and `Faults`
which disk faults an instance has. Two history variables mark where trouble
begins: `troubled` is set by a disk fault and by a second process that opens the
log, and `early` holds what was acknowledged before. `acked` is everything whose
`Record` returned nil.

### Connect (`internal/connect`)

One host, one connect process at a time. `pc` follows `Run`: `link`/`linkSleep` is
`WaitLinkUp`, `phase` the CONNECT record, `probe`/`probeSleep` the verification
loop, `start` Velociraptor's start, `beatSleep`/`beat` the heartbeat, and `stop`,
`list`, `disable` are `FailClosed`. Time is kept as the differences the code
compares, `waited = Now - CONNECT` and `age = Now - lastOK`; `stale` is a history
variable, the time since the server was last actually verified. Time passes in a
sleep (`Poll` and up to `Late` more), in a probe (up to `ProbeTime`) and in
the start of the service (up to `StartTime`). The environment plugs cables,
starts and stops the server, presses Ctrl-C, kills the process and reboots the
host, after which the startup task runs connect again. `saved` is
`disabled_adapters` in `manifest.json`; a save may fail, and one that is cut short
leaves a manifest that loads as an empty one. `tripped` is the history of every
adapter the watchdog has disabled.

Left out: the refusals of `openHost` and `verifyKitForConnect`, which end the
process before it does anything; `Deployment` has them.

### Watchdog, ProbeLog (around `internal/connect`)

`Watchdog` is the abstract promise of the online phase, without adapters,
commands, faults or a manifest: a mode, whether the server can be reached, how
long it has been silent, and whether the service runs. Only `Begin` and
`BeginFails` start the service, only after `Verify`, only `Stop` and the end of
a process stop it, a watch never lasts through a silence above `Limit` and never
ends over one below `Patience`. `Connect` implements it (`Mode`, `Promise`,
`Implements`): the silence is `stale`, `Patience` the grace period, `Limit` the sum of start, grace, one sleep and one probe. It is a
promise of safety; that a watch ends is a property of `Connect` itself.

`ProbeLog` extends `Connect` by the `probeTracker` of a run: each step in which
`serverVerified` has an answer updates it (`Tracked`), a success resets it, and
the history `outage` counts the failures since. A failure is one of the members
of `Text`; `Every` and `Floor` are `probeLogEvery` and `probeLogFloor`. The count
of failures stops at `MaxFails`.

### Stage (`internal/stage`)

The firewall is the set of rules outside the kit's group that are enabled, the
allow-list rules of the group that are present, and a default per profile. `pc` goes
through the phases, one place per external command. Every command can fail, and
the ones that work on several rules or profiles can fail after any part of
them: `AddRule`, `Sweep` (`DisableOtherRules`), `Flip` (`SetAllProfiles`), and in the
rollback `UnwindGroup`, `UnwindProfiles`, `UnwindRules`. `Import` is the first
attempt of the rollback. After `CtrlC` no command works, but what needs no
command (the rerun that keeps the exported policy, `EnableRules` without names)
still does. A run may be aborted, killed or cut by a reboot anywhere and be
started again over the files it left. `original` is a history variable, the
firewall before the kit first ran; `imported` remembers how the last rollback
restored it.

The script of the sweep ends in `ConvertTo-Json`, so its exit code says nothing
of the `Disable-NetFirewallRule` before it (`firewall.go:182`). `Stubborn` is the set
of rules that this command may fail on: a sweep that succeeds disables all others
and leaves any of these enabled, while `disabled_rules` names them all. `Installer`
is the set of rules that Velociraptor's own `service install` may add, which
`docs/integration-tests.md:13` expects to find after staging. `Quarantined`
therefore is what stage can know: the whole allow-list, the default-deny of every
profile, and no other rule enabled than stubborn ones and the installer's. That
the stubborn ones are enabled in READY is finding 4.

Assumed of Windows: an import or an export takes effect whole or not at all; the
exit code of the other scripts, each of one statement, says whether it did its
work; `service install` registers an automatic service and starts it; a service
whose `sc stop` is accepted counts as stopped.

### Engagement (`internal/teardown`, and the three phases together)

One host through runs of stage, connect and teardown (or breakglass).
`Stage` and `Connect` are instances (`Staging`, `Connecting`) that share the
service - connect sees of it what `sc.exe` shows, `Velo` - the adapters and the
manifest; every process saves the whole manifest, so one that is cut short
loses what the other phases recorded in it (`ManifestCut`). The composition adds
what neither has alone: E14 refuses while an adapter is up (`StagePreflight`),
connect is refused until the payload is in the working directory, the snapshot
records which adapters are up (`baseUp`), and a reboot ends all three processes
and starts connect if the startup task exists.

Teardown is `tpc` through the nine steps of `Run`, each of which succeeds, fails
because there is nothing to undo, or fails by itself, half way where it works on
several things; the next one follows in any case. `tman` is the manifest that
`openHost` read. `failed` names the steps whose last attempt failed: a second
teardown clears a name when that step succeeds. `forgotten` is a history
variable: the adapters that a trip disabled and that a crash or a failed save
kept out of the manifest (`Recorded`, `ConnectKill`, `ManifestCut`); a later save
that names them takes them out again. `Breakglass` is the same run behind the comparison of a code.

Assumed of Windows: removing a service that runs takes away its registration,
not the running process. `sc stop` returns when the service is about to stop
(STOP_PENDING); `TeardownStop`, `StopVelo` of `Connect` and `ServiceStop` of `Stage`
have it stopped at once, so `running` means started and not told to stop, and the
moment in which teardown may open the firewall under a service that is still
ending is not modelled, nor is a `sc start` in that moment. Left out: `--purge`, and two stage processes, or stage
together with another phase, at the same time.

### Kit (`internal/build`, `manifest`, `sign`, `config`)

The responder's side. A directory is a function from file names to contents; a
hash is what it was computed over and a signature the incident it was made for,
which is what being free of collisions and of forgeries means. `Build` is one action per
file-system effect - `BuildStart` up to the reading of the client config
(`clientConfigFacts`), `CopyTree`, `WriteManifest`, `WriteIncident`, `WriteSig` -
because the payload it copies from is read a second time and may have changed,
because the output directory may hold an older kit, and because each of them can
fail or be killed half way. The verification after the build changes no file.
`StickEdited` is everything else that happens to a stick: a file of the payload
replaced, added, damaged or removed, and the manifest made anew or not.
`KitVerifies` is `build.Verify`, and at the same time E11, E12, E17 and E13.
A path is the sequence of its segments; `ValidPath` and `TwoBelowDrive` are the two
regular expressions, `HasDotSegment` the function both packages have.

### Deployment (`internal/stage`, `cmd/dfirmedic`, `internal/teardown`: the files)

`Kit` is an instance (`K`); the module adds the host it is carried to. Stage is
`spc` through its file operations: `Preflight`, `CopyIncident`, `CopySig`,
`Quarantine`, `CopyPayload`, `InstallService`, `CheckPath`. Each can fail or be
killed, the copies half way and with the last file cut short (`CopyCut`); an
aborted host may be staged again with a kit that was built anew meanwhile, for
another server too. `Connect` is `openHost` and `verifyKitForConnect` over the
working directory, `StartVelo` the start after a probe that the rules of the
firewall let through, `Teardown` the run that opens the working directory and
verifies nothing, with steps that may fail. `InstallDir` is `installDir`.

How commands fail in detail, what the rest of the firewall looks like and the
adapters are the subject of the other modules: here a quarantine is the set of
server rules in the kit's group and whether the profiles block. A quarantine that
fails is rolled back in part or whole, so any subset of those rules may be left.

### Custody (an abstract specification of `Deployment`)

What a host may trust, without files, copies, kits or commands: the incidents
that were issued, the one the host goes by, the CA of the registered agent, and
whether the agent runs. The incident changes only while no agent is registered
(`Adopt`), an agent is registered and started only for the incident the host goes
by. `Deployment` implements it (`Promise`, `Keeps`): an `incident.json` that was
cut short is no incident, and what the service trusts is the CA of its client
config.

Assumed: the stick does not change while stage runs (the incident in the memory
of the process is the one on the stick); a torn file comes only from a copy that
ended early or an edit, not from the disk; all kits are of one case and one key,
the one embedded in `dfirmedic.exe`. `E12` includes the expiry of an incident:
that is a refusal, and every action that checks it may also not happen.

### The MC modules and the proof modules

The MC modules add symmetry sets (processes; allow-list, profiles: each is a
set of values the module only compares) and a name for "every fault";
`MCEngagement` has a view, `Decisive`, without the variables that only say how a
process ended, which no action of the composition reads.
Definitions marked *Mutant* in a component module are plausible bugs of the
code. No specification uses them; each shows that one of the properties would
be violated by that bug.

## Runs

| Run | Checks | Bounds, and why they are enough |
|---|---|---|
| `audit` | `TypeOK`, `ChainSound`, `AckedSurvive`, `DamageDetected`, `EvidenceKept`, with two processes and all disk faults | four writes, two bodies: a fork, a fragment, a glued line and a repeated seq need two or three, after at least one good line; several processes open, write, crash and reopen, and a line has neighbours on both sides |
| `audit_two_processes` | violates `ChainVerifies`: finding 1 | |
| `audit_disk_faults` | violates `RecoveryOpens`: finding 2 | |
| `connect` | `TypeOK`, `VerifyBounded`, `StalenessBounded`, `NoEarlyTrip`, `Contained`, the liveness properties `VerdictReached` and `LossEndsWatch`, the refinement `Implements`, and `Diagnosed` and `LogBounded` of the probe log, with all faults | two adapters (one fails, the other must not be spared), timeout 3 and grace 2 with polls of 1: several polls before each verdict, and room for a late timer and a slow probe to overrun it; two error texts, a floor of 2 and a limit of 3: an error can alternate, last, and be written again for both reasons within the six failures that `MaxFails` counts |
| `stage` | `TypeOK`, `OriginalPreserved`, `VeloOnlyQuarantined`, `ImportRestores`, `RollbackUnwinds`, `ReadyComplete` | two rules, one of them stubborn, one rule of the installer, two allow-list rules, two profiles: each command can be done in part; the number of runs is not bounded |
| `stage_rollback` | violates `RollbackTruthful`: finding 3 | |
| `stage_sweep` | violates `ForeignRulesOff`: finding 4 | |
| `engagement` | `TypeOK`, `TeardownRestores`, `TeardownReconnects`, `TeardownBestEffort`, `RunsQuarantined`, with kills and reboots anywhere | one rule, one of the installer, one allow-list rule, one profile, one adapter: what happens within a command is checked in `stage` and `connect` (a stubborn rule too), here it is the order of the processes; `MaxFailed` = 2 steps of teardown fail by themselves, enough for a stop and a removal, or a step and the save; a timeout and a grace period of 0 (the first failed probe trips), because the bounds in time are `connect`'s; of connect fail the query, the records, the saves, the start and the stop, but not the listing and disabling of the adapters (`Faults`), because a second trip that fails in these loses the record of the first, see the known limits; the number of crashes and of runs of connect and teardown is not bounded, stage runs again until it has exported the policy. `Reruns` and `Overlap` are off: with them the first two properties fail, as the next runs show |
| `engagement_rerun` | violates `TeardownRestores`: finding 5 | |
| `engagement_overlap` | violates `TeardownReconnects`: finding 6 | |
| `kit` | `TypeOK`, `AcceptedAsSigned`, `StagedAsSigned`, `ServerIsSigned`, `RecoveryOpens`, `DeletionContained`, the refinement `Keeps` | three client configs: two of one server that differ in the install path (one has dots, which no build may sign), one of another server with a top-level directory; one tool with one version, there or not, besides the client config; `MaxSigned` = 2 kits are signed (one over the other, or the second on the host of the first), `MaxFaults` = 2 edits, early ends or failing teardowns: enough for an aborted build or run, an edit or a second abort, and a clean run after them |
| `kit_rerun` | violates `OneDestination`: finding 7 | two servers |

`AuditLog` bounds the writes in the file (`MaxWrites`, a guard of `Write` and
`WriteFails`). `Engagement` bounds the failing steps (`MaxFailed`,
in `MayFail`), `Kit` the kits that are signed (`MaxSigned`, in `BuildStart`) and the
faults (`MaxFaults`, in `Fault`), `ProbeLog` what its history counts (`MaxFails`,
in `Counting`). `Connect` and `Stage` need no bound: `Connect`'s timers are
bounded by what it proves about them. `kit` and `kit_rerun` do not check
deadlock: once the kits are built and the faults used up, a host whose working directory does not open has no step left.

### What the passing runs show

* The log of successive processes verifies at every moment, whatever crashes
  happen. What was acknowledged before the first disk fault or second process
  stays at the place its seq names, with the chain up to it verifying, for ever;
  and no step, of any process and under any fault, changes the synced evidence
  before the first bad line. The one exception is a last line without its
  newline, see the known limits.
* The E50 verdict comes at most one sleep and one probe after the timeout, never
  before it. While a process watches, Velociraptor never runs on an unverified
  server for longer than start, grace, one sleep and one probe together, although
  `lastOK` is taken after the start (after a Ctrl-C or a kill it runs on, without a
  bound, until the host is rebooted or connect is started again); and E51 never comes before the grace period is over.
* A completed trip leaves running or connected only what a command failed on.
* A verification or a watch over a lost server ends, whatever fails.
* All of this is the promise of `Watchdog`, which says nothing of adapters,
  timers or commands.
* Within one outage the audit log gets the first failed probe and at most one in
  `Floor` after it, and still names every error that lasts for `Floor` probes. A
  success begins a new outage.
* However stage fails, is killed or repeated, Velociraptor is installed only under
  the quarantine - the whole allow-list, default-deny in every profile, and no rule
  of the host that could be disabled - and the policy kept on disk is the original
  one. A rollback that reports success, imported or piece by piece, has left no rule
  of the kit and no default that was not the host's or in `baseline.json`.
* A teardown that reports no error has undone everything, however stage was
  aborted and connect ended or was killed, in every order with reboots; the
  adapters still disabled, where a trip can list and disable them, are those a crash
  or a failed save kept out of the manifest. One that
  reports errors leaves exactly what its failing steps did not undo.
* Through all of it a Velociraptor that was not told to stop is outside the
  quarantine only after a stop or removal that failed: teardown goes on to open the
  firewall in that case.
* Whatever was built over what, interrupted or edited, PREFLIGHT accepts only a
  payload that was signed and is complete; after READY the working directory
  holds each of its files as signed, though nothing verifies the copies.
* What connect trusts and what runs belongs to the server of the incident in the
  working directory, which was signed; a locked host has the files that teardown
  opens; teardown deletes only the directory of a signed install path, at least
  two levels below the drive. All of it keeps the promise of `Custody`.

### Fairness

`Connect` assumes weak fairness of the process's own steps (`Step`): the program
is scheduled, its sleeps and probes return (a probe has a deadline, every
command of a trip a context with one). Nothing is assumed of the cable, the
server, the user, crashes or reboots. `TrackedSpec` of `ProbeLog` is the same with the
tracker in the step. `AuditLog`, `Stage`, `Engagement` and `Deployment` state safety only:
nobody promises that a run is started or finishes.

## Findings

1. `audit_two_processes`: two processes that have the log open write entries with
   the same seq. The test plan has breakglass run while connect records.
2. `audit_disk_faults`: a cut line, or one failed `Sync`, makes every later `Open`
   fail, also those of teardown and breakglass.
3. `stage_rollback`: a sweep that failed half way, then a failed import: the
   rollback reports success with the host's own rules left disabled.
4. `stage_sweep`: a rule that cannot be disabled does not change the exit code of
   the sweep; stage flips the defaults, installs and reports READY with it enabled.
5. `engagement_rerun`: a rerun over a quarantined host overwrites `baseline.json`
   with the Block defaults, and teardown restores those over the original policy
   and reports success.
6. `engagement_overlap`: teardown neither ends nor tells a connect that still
   watches; its trip disables the adapters of a host that was given back.
7. `kit_rerun`: a rerun with a kit rebuilt for another server adds its rules to
   those that the aborted run left in the group; the host may reach both.

Known limits that the models have or the reading showed, without a run of their own:

* A write cut exactly before its newline leaves a last line that `walk` accepts
  (`audit.go:98-108`). The next record goes on in that line (`audit.go:75`), is
  acknowledged, and spoils both; from then on the log is refused. `EvidenceKept`
  excepts that line, and `AckedSurvive` speaks of what was acknowledged before.
* A second trip replaces `DisabledAdapters` (`connect.go:244`): one that fails to
  list or disable the adapters forgets those of the first.
* A failure inside `InstallService` (`velo.go:25`) leaves a registered service, and
  every rerun is then refused with E16, though `docs/integration-tests.md:15`
  expects a rerun after an E40 to reach READY.
* A rerun on a locked host that is cut short while it copies `incident.json` or its
  signature leaves a working directory that teardown and breakglass cannot open
  (`recut` in `Deployment`).
* After an E41 the service was installed somewhere else than in the directory
  that teardown deletes (`teardown.go:119`); a teardown before INSTALL deletes that
  directory too, whoever made it.
* `build.Verify` does not compare the client config's CA with the incident; a kit
  whose source changed under the build passes it and is refused by E18.
* Files that an older build left in the output directory become part of the signed
  payload (`build.go:168`), and a nested file named `manifest.sha256` is never copied
  (`build.go:276`). Files that an older run left in the working directory stay there.

## Proofs

TLAPS checks, for every value of the constants that satisfies the named
assumptions (`AuditAssumption`, `ConnectAssumption`, `TrackerAssumption`,
`EngagementAssumption`, `DeploymentAssumption`; `Stage` has none):

* `AuditLogProofs`: `TypeCorrect`; `SerialChain` (`ChainSound`), `LogOpens`
  (until the first trouble no `Open` is refused), `AckedPermanent` (`AckedSurvive`),
  `EvidencePermanent` (`EvidenceKept`) and `DamageNoticed` (`DamageDetected`), all
  with any number of processes and every disk fault; and `AckedStored`: with any
  number of processes and failing syncs, but no torn write, an acknowledged entry
  is on stable storage as a whole line with its own hash, so finding 1 damages the
  chain but no entry.
  `ChainInv` says that until the first trouble the file is a chain of whole lines
  and the one open process agrees with it (`InStep`): idle, its `seq` and `last` are
  those of `walk`; with a line written and not yet synced, `next` is the hash of the
  last line. Without it `Write` would not extend a verifying file. In such a chain
  the length of a hash is the place of its line, which is what `AckedSurvive` and
  `DamageNoticed` rest on. `EvidencePermanent` needs only that every write goes to
  the end of the file and that power loss keeps what is synced: a prefix that ends
  in a newline is not touched by an append.
* `ConnectProofs`: `TypeCorrect`; `VerdictOnTime` (`VerifyBounded`),
  `StalenessLimited` (`StalenessBounded`), `TripsArePatient` (`NoEarlyTrip`);
  `TripContains` (`Contained`); `Refinement` (`Implements`). The invariant
  `Timing` gives each place of the process its own bound: below the timeout in
  the sleep, at most a sleep more before the probe, a probe more in the verdict;
  and `age <= stale <= age + StartTime` ties the clock of the code to the truth.
  `DealtWith` says during the loop of a trip that every adapter that is still up
  failed, waits its turn, or was not listed. The refinement rests on the same
  invariants: each action of `Connect` maps to one of `Watchdog` or a stutter.
* `ProbeLogProofs`: `ErrorsGetThrough` (`Diagnosed`), `LogLimited` (`LogBounded`). The
  invariant `Accounted` relates the tracker to the history: an error that is not on
  record has lasted no longer than `since`, and the failures counted exceed those
  that the records account for by more than `since`.
* `StageProofs`: `TypeCorrect`; `OriginalSafe` (`OriginalPreserved`), `ServiceQuarantined`
  (`VeloOnlyQuarantined`), `ImportGivesBack` (`ImportRestores`), `RollbackHonest` (`RollbackUnwinds`), `ReadyMeansAll` (`ReadyComplete`). The invariant
  `Progress` records what each step has established for the next: the policy is
  on disk from `snapshot` on, no service exists up to its installation, the
  allow-list is complete in `flip`, the quarantine from `payload` on, and what the
  installer adds does not end it (`InstallKeepsQuarantine`). It is needed
  because the promises themselves say nothing in the middle of a run. `Unwound` does
  the same for a rollback, whose three commands fail independently: what a
  piece has undone, or that its failure is remembered, and that no rule is enabled,
  or named in the manifest, but those enabled before the kit and the installer's. `Preserved`, that a
  host without an exported policy is the untouched one, whatever number of runs
  came before, is what `TeardownResets` below needs of stage.

* `EngagementProofs`: `TypeCorrect`; `ServiceContained` (`RunsQuarantined`, assuming
  `~Overlap`); `TeardownUndoes` (`TeardownRestores`) and `TeardownHonest`
  (`TeardownBestEffort`), assuming `~Overlap` and `~Reruns`, without which findings 5
  and 6 refute them. `~Reruns` excludes every run of stage once a policy has been
  exported, also one over a host whose rollback was complete. `Ongoing` says that a teardown claims nothing before it has
  ended, and `Alone` which processes there are at a time. `ServiceBound` follows the
  service: outside the quarantine (as `Stage` has it, stubborn rules and the installer's
  aside) it exists only if its removal failed, and unregistered it runs only if its stop did. `FirstRun` (in `StageProofs`) says that a
  host staged once has its original policy on disk and in `baseline.json`, and
  `Undone` that what a step of teardown undoes is undone from then on, or the step is
  among the failed ones. They are needed because the verdict is about the end of a
  run, and three processes have changed the host before it. `TeardownResets` is
  what remains of `TeardownRestores` with any number of reruns: after a teardown
  without error at most the defaults of the profiles differ from the original
  ones. So finding 5 is all that a rerun can spoil; its invariant `Returned`
  gives every place of teardown what the steps before it have reset.
  `AdaptersReturned` (`TeardownReconnects`, with reruns too) assumes `~Overlap`, for
  finding 6, and that `list` and `disable` are no faults, for the second trip of the
  known limits. `Accounted` says that every disabled adapter is recorded, in the memory
  of a trip that is yet to save it, or `forgotten`; `TaskGone`, that past its own
  step teardown leaves the startup task only if it could not delete it - otherwise
  a reboot could start a connect on a host that was given back.
* `DeploymentProofs`: `TypeCorrect`; `OnlySignedAccepted` (`AcceptedAsSigned`),
  `ReadyIsSigned` (`StagedAsSigned`), `OnlySignedServer` (`ServerIsSigned`),
  `RecoveryPossible` (`RecoveryOpens`). `StickInv` says what a build under way has
  established (a whole payload, a manifest equal to it, an incident that names it)
  and that every signature on the stick that opens is of a kit in `signed`, whose
  payload is what its incident hashes. `Carried` says what PREFLIGHT has found and how
  far it has been copied; `Known`, that the signature in the working directory, the
  service and what connect verified come from a signed incident.
  `DeletionBelowRoot` (`DeletionContained`) resolves a path by a fold over its
  segments; that resolving a path which `installDir` lets through never comes back
  above its third segment is an induction over that path, written as a least
  counterexample, because the library's induction theorems cannot be used here. `OneServerReached`
  (`OneDestination`) assumes that all client configs are of one server, which is what
  finding 7 takes away. `CustodyKept` (`Keeps`) is the refinement: each action maps
  to one of `Custody` or a stutter, from `StickInv` and `Known`.

`LogOpens`, `TeardownResets` and `AckedStored` have no run of their own: they are
weaker forms, or hold under other assumptions, of properties that the runs check.

Only model-checked: the liveness properties (`VerdictReached`, `LossEndsWatch`),
since neither fairness nor ENABLED is within the prover's reach; and of course the
findings. No module uses a RECURSIVE operator.

## Not modelled

Everything the design documents name that changes state is an action of some
module, but for `--purge` and the dry runner. Not modelled, and why:

* `internal/ui`: rendering; no decision depends on it.
* Flag parsing, consoles, the text of PowerShell scripts, the line scanning of the
  client config and of `sc qc`: parsing and wording.
* Certificates, signatures and digests: arithmetic of Go's library; the models take
  them as free of forgeries and collisions.
* Volatile captures: evidence files that nothing reads back; a rerun replaces them.
* `--purge` deletes the working directory after a teardown, also after one that
  reported errors: nothing is left to model but that.
* Windows-only stubs of `internal/win`.
