----------------------------- MODULE Deployment -----------------------------
(***************************************************************************)
(* A kit on its way onto a host: PREFLIGHT reads the stick, BASELINE and   *)
(* INSTALL copy it into the working directory, `service install` registers *)
(* what is there, connect verifies it again, and teardown goes by it.  The *)
(* copies are made one after the other and may end early; a rerun may come *)
(* with a kit that was built anew, possibly for another server.            *)
(*                                                                         *)
(* Kit is the responder's side and the stick.  How commands fail, and what *)
(* the firewall and the adapters look like, is the subject of Stage,       *)
(* Connect and Engagement; here a step succeeds or ends the run.           *)
(***************************************************************************)
EXTENDS Naturals, Sequences, SequencesExt, FiniteSets

CONSTANTS Config, Url, Ca, Path, Tool, Version, None, Torn, MaxSigned, MaxFaults   \* as in Kit

VARIABLES
  bpc, facts, whole, payload, manifest, incident, sig, signed, faults, \* as in Kit
  spc,       \* where the stage process is; "idle" when there is none
  work,      \* workdir: the files under payload/
  wincident, \* workdir: incident.json
  wsig,      \* workdir: incident.json.sig
  egress,    \* the server rules in the kit's group
  locked,    \* the profiles block by default
  service,   \* the client config the service was registered with, or None
  running,   \* Velociraptor runs
  online,    \* a connect process has verified the working directory
  ready,     \* history: the last run of stage reached READY
  recut      \* history: a rerun cut a file of a locked host short

kitVars  == <<bpc, facts, whole, payload, manifest, incident, sig, signed>>
runVars  == <<spc, ready>>
workVars == <<work, wincident, wsig, recut>>
hostVars == <<egress, locked, service, running>>
vars == <<kitVars, faults, runVars, workVars, hostVars, online>>

K == INSTANCE Kit

ASSUME DeploymentAssumption ==
  /\ None \notin Config \cup Version /\ None # Torn
  /\ Path \in [Config -> Seq(STRING)]
  /\ MaxSigned \in Nat /\ MaxFaults \in Nat

Staging == {"incident", "sig", "quarantine", "payload", "service", "path"}

Init ==
  /\ K!Init
  /\ spc = "idle" /\ ready = FALSE
  /\ work = << >> /\ wincident = None /\ wsig = None /\ recut = FALSE
  /\ egress = {} /\ locked = FALSE
  /\ service = None /\ running = FALSE /\ online = FALSE

\* Nothing of the kit is running on the host.
Quiet == spc = "idle" /\ ~online

\* The stick is with the responder while a kit is built or edited on it.
KitStep ==
  /\ Quiet
  /\ K!Next
  /\ UNCHANGED <<runVars, workVars, hostVars, online>>

\* ... and complete, for better or worse, while it is at the host.
AtHost == Quiet /\ bpc = "idle" /\ UNCHANGED kitVars

-----------------------------------------------------------------------------
\* stage

\* E18: the client config of a payload has this CA.
CarriesCa(dir, ca) ==
  K!ClientYaml \in DOMAIN dir /\ dir[K!ClientYaml] \in Config /\ Ca[dir[K!ClientYaml]] = ca

\* Mutant: E16 is not checked.
PreflightAnyHost ==
  /\ AtHost /\ K!KitVerifies /\ CarriesCa(payload, incident.ca)
  /\ spc' = "incident" /\ ready' = FALSE
  /\ UNCHANGED <<faults, workVars, hostVars, online>>

\* Mutant: the small files are copied after the quarantine, with the payload.
PreflightCopiesLater ==
  /\ AtHost /\ K!KitVerifies /\ CarriesCa(payload, incident.ca)
  /\ service = None
  /\ spc' = "quarantine" /\ ready' = FALSE
  /\ UNCHANGED <<faults, workVars, hostVars, online>>

\* openHost loads incident.json and its signature; E11 to E13, E17, E18, E16.
\* A refusal changes nothing.  The stick stays as it is until the run ends, so
\* its incident stands for the one in the memory of the process, too.
Preflight ==
  /\ AtHost /\ K!KitVerifies /\ CarriesCa(payload, incident.ca)
  /\ service = None
  /\ spc' = "incident" /\ ready' = FALSE
  /\ UNCHANGED <<faults, workVars, hostVars, online>>

\* A step of the run, and the next one.
Step(place, next) ==
  spc = place /\ spc' = next /\ UNCHANGED <<kitVars, faults, online>>
\* The step fails, in part, or the process is killed.
StepFails(place) ==
  spc = place /\ spc' = "idle" /\ K!Fault /\ UNCHANGED <<kitVars, ready, online>>

\* Cutting a file short matters to the recovery of a host that is locked down.
CutShort == recut' = (recut \/ locked)

\* BASELINE: incident.json after dfirmedic.exe, then the signature.
CopyIncident ==
  /\ \/ Step("incident", "sig") /\ wincident' = incident /\ UNCHANGED <<ready, recut>>
     \/ StepFails("incident") /\ wincident' = Torn /\ CutShort
  /\ UNCHANGED <<work, wsig, hostVars>>

CopySig ==
  /\ \/ Step("sig", "quarantine") /\ wsig' = sig /\ recut' = FALSE /\ UNCHANGED ready
     \/ StepFails("sig") /\ wsig' = Torn /\ CutShort
  /\ UNCHANGED <<work, wincident, hostVars>>

ServerRule == [program |-> incident.path, url |-> incident.url]

\* The rules are added to the group as it is.  A failure is rolled back, and a
\* kill, or a step of the rollback that fails, leaves any part of it.
Quarantine ==
  /\ \/ /\ Step("quarantine", "payload")
        /\ egress' = egress \cup {ServerRule} /\ locked' = TRUE /\ UNCHANGED ready
     \/ /\ StepFails("quarantine")
        /\ egress' \in SUBSET (egress \cup {ServerRule}) /\ locked' \in BOOLEAN
  /\ UNCHANGED <<workVars, service, running>>

\* Mutant: copyDir passes over the files that an aborted run has left.
CopyMissing ==
  /\ \/ Step("payload", "service") /\ work' = K!OverMissing(payload, work) /\ UNCHANGED ready
     \/ StepFails("payload") /\ work' \in K!CopyCut(payload, work)
  /\ UNCHANGED <<wincident, wsig, recut, hostVars>>

\* INSTALL copies without verifying what it copies.
CopyPayload ==
  /\ \/ Step("payload", "service") /\ work' = K!CopyInto(payload, work) /\ UNCHANGED ready
     \/ StepFails("payload") /\ work' \in K!CopyCut(payload, work)
  /\ UNCHANGED <<wincident, wsig, recut, hostVars>>

\* The service is registered with the config in the working directory.  When
\* a later command of InstallService fails it is there, and may run.
InstallService ==
  /\ \/ Step("service", "path") /\ running' = FALSE /\ UNCHANGED ready
     \/ StepFails("service") /\ running' \in BOOLEAN
  /\ service' = work[K!ClientYaml]
  /\ UNCHANGED <<workVars, egress, locked>>

\* E41, then the startup task and READY.
CheckPath ==
  /\ Step("path", "idle") /\ ready' = (service \in {c \in Config : Path[c] = incident.path})
  /\ UNCHANGED <<workVars, hostVars>>

\* Any step may end the run without an effect.
StageEnds ==
  /\ spc # "idle" /\ StepFails(spc)
  /\ UNCHANGED <<workVars, hostVars>>

-----------------------------------------------------------------------------
\* connect and teardown, both from the working directory

WorkdirOpens == K!Opens(wincident, wsig)

\* openHost and verifyKitForConnect: E11 and E18, again.
Connect ==
  /\ AtHost /\ WorkdirOpens /\ wsig = wincident
  /\ CarriesCa(work, wincident.ca)
  /\ online' = TRUE
  /\ UNCHANGED <<faults, runVars, workVars, hostVars>>

\* The probe gets through to the server of the incident that was verified.
StartVelo ==
  /\ online /\ service # None /\ ~running
  /\ \E rule \in egress : rule.url = wincident.url
  /\ running' = TRUE
  /\ UNCHANGED <<kitVars, faults, runVars, workVars, egress, locked, service, online>>

\* By a trip, by Ctrl-C or killed; the service is stopped or goes on.
ConnectEnds ==
  /\ online /\ online' = FALSE
  /\ running' \in {FALSE, running}
  /\ UNCHANGED <<kitVars, faults, runVars, workVars, egress, locked, service>>

\* Mutant: installDir refuses a drive root only.
InstallDirOfRoot(path) == IF Len(path) >= 3 THEN Front(path) ELSE << >>

\* installDir; the empty path stands for its refusal.
InstallDir(path) ==
  LET dir == Front(path)
  IN IF K!TwoBelowDrive(dir) /\ ~K!HasDotSegment(dir) THEN dir ELSE << >>

\* teardown and breakglass verify nothing, and go on past a failed step, which
\* leaves what it should undo.  A service that still runs is not gone.
Teardown ==
  /\ AtHost /\ WorkdirOpens
  /\ \/ /\ running' = FALSE /\ service' = None /\ egress' = {} /\ locked' = FALSE
        /\ UNCHANGED faults
     \/ /\ K!Fault
        /\ running' \in {FALSE, running}
        /\ service' \in (IF running' THEN {service} ELSE {service, None})
        /\ egress' \in SUBSET egress /\ locked' \in {locked, FALSE}
  /\ ready' = FALSE /\ recut' = (recut /\ locked')
  /\ UNCHANGED <<spc, work, wincident, wsig, online>>

Stage ==
  \/ Preflight \/ CopyIncident \/ CopySig \/ Quarantine \/ CopyPayload
  \/ InstallService \/ CheckPath \/ StageEnds

Next == KitStep \/ Stage \/ Connect \/ StartVelo \/ ConnectEnds \/ Teardown

Spec == Init /\ [][Next]_vars

-----------------------------------------------------------------------------

Directory(dir) == DOMAIN dir \subseteq {K!ClientYaml} \cup Tool
                  /\ \A f \in DOMAIN dir : dir[f] \in K!Holds(f) \cup {Torn}

\* The processes, the directories, and what is known of a run under way.
TypeOK ==
  /\ bpc \in K!Building \cup {"idle"} /\ spc \in Staging \cup {"idle"}
  /\ Directory(payload) /\ Directory(work)
  /\ service \in Config \cup {None} /\ (running => service # None)
  /\ locked \in BOOLEAN /\ running \in BOOLEAN /\ online \in BOOLEAN
  /\ ready \in BOOLEAN /\ recut \in BOOLEAN

\* "Edit one byte ... on the stick: ERROR E13": whatever was built over what,
\* interrupted, edited or edited together with its manifest, a payload that
\* PREFLIGHT accepts is file for file one that was signed with this incident,
\* and holds all that the build was given.
AcceptedAsSigned ==
  spc # "idle" =>
    \E s \in signed : s.incident = incident /\ s.payload = payload /\ s.whole

\* READY: each file of the signed payload is in the working directory as it was
\* signed, next to the incident it was signed with and the signature, and the
\* service runs from the path that the firewall admits - although nothing is
\* verified after it was copied, and earlier runs may have left files there.
StagedAsSigned ==
  ready =>
    \E s \in signed :
      /\ wincident = s.incident /\ wsig = s.incident
      /\ K!Holding(s.payload, work)
      /\ service # None => Path[service] = s.incident.path

\* "its client config carries the CA that incident.json was signed with": what
\* connect trusts, and what runs, belongs to the server of a signed incident -
\* after aborted reruns with other kits, too.
ServerIsSigned ==
  /\ online => \E s \in signed : wincident = s.incident
                 /\ Ca[work[K!ClientYaml]] = s.incident.ca
  /\ running => \E s \in signed : wincident = s.incident /\ Ca[service] = s.incident.ca

\* "Copy the small files breakglass/teardown need BEFORE anything can go wrong
\* later": a locked host has what they open, unless a rerun on it was cut short
\* while it copied them anew.
RecoveryOpens == locked => WorkdirOpens \/ recut

\* Segments "." and ".." resolved the way Windows does.
Enter(at, segment) ==
  CASE segment \in {K!Unnamed, "."} -> at
    [] segment = ".." -> (IF Len(at) > 1 THEN Front(at) ELSE at)
    [] OTHER -> Append(at, segment)

Resolve(path) ==
  LET at[n \in 0..Len(path)] == IF n = 0 THEN << >> ELSE Enter(at[n - 1], path[n])
  IN at[Len(path)]

\* `rmdir /s /q` never reaches a drive root or a top-level directory, and takes
\* the directory of a path that was signed.
DeletionContained ==
  WorkdirOpens /\ InstallDir(wincident.path) # << >> =>
    /\ Len(Resolve(InstallDir(wincident.path))) >= 3
    /\ \E s \in signed : Front(s.incident.path) = InstallDir(wincident.path)

\* What Custody sees of the host: an incident.json cut short is none.
Promise == INSTANCE Custody WITH
  issued  <- {s.incident : s \in signed},
  trusted <- (IF wincident = Torn THEN None ELSE wincident),
  agent   <- (IF service = None THEN None ELSE Ca[service])

\* No step exchanges the incident of the working directory under a registered
\* service, and none registers or starts one of another incident: the copies,
\* reruns, kills and half teardowns together keep the promise of Custody.
Keeps == Promise!Spec

\* "Server is the one destination the victim may reach."
OneDestination == locked => Cardinality({rule.url : rule \in egress}) <= 1

=============================================================================
