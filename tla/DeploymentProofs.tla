-------------------------- MODULE DeploymentProofs --------------------------
(***************************************************************************)
(* What a kit carries from the responder to the host, for every set of     *)
(* client configs, tools and versions, any number of builds, edits,        *)
(* aborted runs, rebuilt kits and teardowns.                               *)
(***************************************************************************)
EXTENDS Deployment, FiniteSetTheorems, WellFoundedInduction, TLAPS

-----------------------------------------------------------------------------
\* Directories

IsDirectory(dir) == dir = [f \in DOMAIN dir |-> dir[f]]

LEMMA OverFacts ==
  ASSUME NEW new, NEW old
  PROVE  /\ IsDirectory(K!Over(new, old)) /\ K!Holding(new, K!Over(new, old))
         /\ Directory(new) /\ Directory(old) => Directory(K!Over(new, old))
  BY DEF IsDirectory, K!Over, K!Holding, Directory

LEMMA PartFacts ==
  ASSUME NEW dir, NEW files \in SUBSET DOMAIN dir
  PROVE  /\ IsDirectory(K!Part(dir, files))
         /\ Directory(dir) => Directory(K!Part(dir, files))
  BY DEF IsDirectory, K!Part, Directory

\* What a copy that ended early leaves is a directory; its files may be torn.
LEMMA CutFacts ==
  ASSUME NEW new, NEW old, NEW dir \in K!CopyCut(new, old)
  PROVE  /\ IsDirectory(dir)
         /\ Directory(new) /\ Directory(old) => Directory(dir)
  <1>1. PICK files \in SUBSET DOMAIN new, cut \in DOMAIN new \cup {None} :
          dir = K!Over([f \in files |-> IF f = cut THEN Torn ELSE new[f]], old)
    BY DEF K!CopyCut
  <1> DEFINE some == [f \in files |-> IF f = cut THEN Torn ELSE new[f]]
  <1>2. Directory(new) => Directory(some)
    BY DEF Directory
  <1> HIDE DEF some
  <1> QED BY <1>1, <1>2, OverFacts DEF some

LEMMA SourceFacts == \A source \in K!Source : Directory(source)
  BY DEF K!Source, Directory, K!Holds

-----------------------------------------------------------------------------
\* The stick

\* A signature that opens was made for a kit that was complete, and whose
\* manifest, hashed into the signed incident, lists what the payload was.
StickInv ==
  /\ IsDirectory(payload) /\ (manifest = None \/ IsDirectory(manifest))
  /\ bpc # "idle" => facts \in Config
  /\ bpc \in {"manifest", "incident", "sig"} => whole
  /\ bpc \in {"incident", "sig"} => manifest = payload
  /\ bpc = "sig" => incident = K!Incident(facts, manifest)
  /\ \A s \in signed :
       /\ s.whole /\ s.payload = s.incident.manifest
       /\ \E c \in Config : s.incident.path = Path[c] /\ s.incident.url = Url[c]
  /\ sig \in {None, Torn} \/ \E s \in signed : s.incident = sig

StickTyped == Directory(payload) /\ bpc \in K!Building \cup {"idle"}

LEMMA StickSteps ==
  ASSUME StickTyped, StickInv, K!Next
  PROVE  StickTyped' /\ StickInv' /\ signed \subseteq signed'
  <1> USE DEF StickTyped, StickInv, K!Building
  <1>e. ASSUME K!BuildEnds, UNCHANGED <<manifest, signed>>,
               IsDirectory(payload') /\ Directory(payload'), sig' \in {sig, Torn}
        PROVE  StickTyped' /\ StickInv' /\ signed \subseteq signed'
    BY <1>e DEF K!BuildEnds
  <1>1. CASE K!BuildStart
    BY <1>1 DEF K!BuildStart, K!stick
  <1>2. CASE K!CopyTree
    <2>1. PICK source \in K!Source :
            \/ /\ payload' = K!CopyInto(source, payload)
               /\ bpc' = "manifest" /\ whole' = K!Holding(source, payload')
               /\ UNCHANGED <<facts, faults>>
            \/ payload' \in K!CopyCut(source, payload) /\ K!BuildFails
      BY <1>2 DEF K!CopyTree
    <2>2. bpc = "copy" /\ UNCHANGED <<manifest, incident, sig, signed>>
      BY <1>2 DEF K!CopyTree
    <2>3. CASE payload' = K!CopyInto(source, payload) /\ bpc' = "manifest"
                 /\ whole' = K!Holding(source, payload') /\ UNCHANGED facts
      BY <2>2, <2>3, SourceFacts, OverFacts DEF K!CopyInto
    <2>4. CASE payload' \in K!CopyCut(source, payload) /\ K!BuildFails
      BY <2>2, <2>4, <1>e, SourceFacts, CutFacts DEF K!BuildFails
    <2> QED BY <2>1, <2>3, <2>4
  <1>3. CASE K!WriteManifest
    <2>1. bpc = "manifest" /\ UNCHANGED <<payload, incident, sig, signed>>
      BY <1>3 DEF K!WriteManifest
    <2>2. CASE manifest' = payload /\ bpc' = "incident" /\ UNCHANGED <<facts, whole>>
      BY <2>1, <2>2
    <2>3. CASE manifest' \in {K!Part(payload, some) : some \in SUBSET DOMAIN payload}
                 /\ K!BuildFails
      <3>1. IsDirectory(manifest')
        BY <2>3, PartFacts
      <3> QED BY <2>1, <2>3, <3>1 DEF K!BuildFails, K!BuildEnds
    <2> QED BY <1>3, <2>2, <2>3 DEF K!WriteManifest
  <1>4. CASE K!WriteIncident
    <2>1. bpc = "incident" /\ UNCHANGED <<payload, manifest, sig, signed>>
      BY <1>4 DEF K!WriteIncident
    <2> QED BY <1>4, <2>1, <1>e DEF K!WriteIncident, K!BuildFails
  <1>5. CASE K!WriteSig
    <2>1. bpc = "sig" /\ UNCHANGED <<payload, manifest, incident>> /\ K!BuildEnds
      BY <1>5 DEF K!WriteSig, K!BuildFails
    <2>2. CASE sig' = incident
                 /\ signed' = signed \cup
                      {[incident |-> incident, payload |-> payload, whole |-> whole]}
      <3> DEFINE kit == [incident |-> incident, payload |-> payload, whole |-> whole]
      <3>1. payload = incident.manifest /\ whole
        BY <2>1 DEF K!Incident
      <3>2. kit.incident = incident /\ kit.payload = payload /\ kit.whole = whole
        OBVIOUS
      <3>3. signed' = signed \cup {kit} /\ sig' = incident
        BY <2>2
      <3> HIDE DEF kit
      <3>c. \E c \in Config : incident.path = Path[c] /\ incident.url = Url[c]
        BY <2>1 DEF K!Incident
      <3>4. \A s \in signed' :
              /\ s.whole /\ s.payload = s.incident.manifest
              /\ \E c \in Config : s.incident.path = Path[c] /\ s.incident.url = Url[c]
        BY <3>1, <3>2, <3>3, <3>c
      <3>5. \E s \in signed' : s.incident = sig'
        BY <3>2, <3>3
      <3> QED BY <2>1, <3>3, <3>4, <3>5 DEF K!BuildEnds
    <2>3. CASE sig' \in {sig, Torn} /\ UNCHANGED signed
      BY <2>1, <2>3, <1>e
    <2> QED BY <1>5, <2>2, <2>3 DEF K!WriteSig
  <1>6. CASE K!StickEdited
    <2>1. bpc = "idle" /\ UNCHANGED <<bpc, incident, sig, signed>>
      BY <1>6 DEF K!StickEdited, K!building
    <2>2. IsDirectory(payload') /\ Directory(payload')
      <3>1. CASE \E f \in {K!ClientYaml} \cup Tool : \E c \in K!Holds(f) \cup {Torn} :
                   payload' = K!Over([g \in {f} |-> c], payload)
        <4>0. PICK f \in {K!ClientYaml} \cup Tool : \E c \in K!Holds(f) \cup {Torn} :
                payload' = K!Over([g \in {f} |-> c], payload)
          BY <3>1
        <4>1. PICK c \in K!Holds(f) \cup {Torn} : payload' = K!Over([g \in {f} |-> c], payload)
          BY <4>0
        <4>2. Directory([g \in {f} |-> c])
          BY DEF Directory
        <4> QED BY <4>1, <4>2, OverFacts
      <3>2. CASE \E f \in DOMAIN payload : payload' = K!Part(payload, DOMAIN payload \ {f})
        BY <3>2, PartFacts
      <3> QED BY <1>6, <3>1, <3>2 DEF K!StickEdited
    <2>3. manifest' \in {manifest, payload'}
      BY <1>6 DEF K!StickEdited
    <2> QED BY <2>1, <2>2, <2>3
  <1> QED BY <1>1, <1>2, <1>3, <1>4, <1>5, <1>6 DEF K!Next, K!Build

\* A manifest that verifies is the payload.
LEMMA VerifiedIsSigned ==
  ASSUME StickInv, K!KitVerifies
  PROVE  \E s \in signed : s.incident = incident /\ s.payload = payload /\ s.whole
  <1>1. PICK s \in signed : s.incident = incident
    BY DEF StickInv, K!KitVerifies, K!Opens
  <1>2. payload = manifest
    BY DEF StickInv, K!KitVerifies, K!ManifestVerifies, K!Holding, IsDirectory
  <1> QED BY <1>1, <1>2 DEF StickInv, K!KitVerifies

-----------------------------------------------------------------------------
\* The host

BeforeService == {"incident", "sig", "quarantine", "payload", "service"}
IncidentThere == {"sig", "quarantine", "payload", "service", "path"}
SigThere      == {"quarantine", "payload", "service", "path"}
PayloadThere  == {"service", "path"}

HostTyped ==
  /\ spc \in Staging \cup {"idle"} /\ Directory(work)
  /\ service \in Config \cup {None} /\ (running => service # None)
  /\ locked \in BOOLEAN /\ running \in BOOLEAN /\ online \in BOOLEAN
  /\ ready \in BOOLEAN /\ recut \in BOOLEAN

\* What PREFLIGHT has found on the stick, which does not change before the run
\* ends, and how far it has been carried over.
Carried ==
  /\ spc # "idle" =>
       /\ ~online /\ ~ready
       /\ K!Opens(incident, sig) /\ sig = incident /\ CarriesCa(payload, incident.ca)
  /\ spc \in BeforeService => service = None
  /\ spc \in IncidentThere => wincident = incident
  /\ spc \in SigThere => wsig = sig
  /\ spc \in PayloadThere => K!Holding(payload, work)

\* What the working directory and the service hold was signed.
Known ==
  /\ wincident \in {None, Torn} \/ \E s \in signed : s.incident = wincident
  /\ \A rule \in egress : \E c \in Config : rule.url = Url[c]
  /\ wsig \in {None, Torn} \/ \E s \in signed : s.incident = wsig
  /\ service # None => \E s \in signed : wincident = s.incident /\ Ca[service] = s.incident.ca
  /\ online => /\ wincident # Torn /\ \E s \in signed : wincident = s.incident
               /\ CarriesCa(work, wincident.ca)

RunInv == AcceptedAsSigned /\ Carried /\ Known /\ StagedAsSigned /\ RecoveryOpens

HostInv == HostTyped /\ RunInv

\* Only signed grows when the host is left alone.
LEMMA KitStepKeeps ==
  ASSUME HostInv, KitStep, signed \subseteq signed'
  PROVE  HostInv'
  <1>1. spc = "idle" /\ ~online /\ UNCHANGED <<spc, ready, work, wincident, wsig, recut,
                                   egress, locked, service, running, online>>
    BY DEF KitStep, Quiet, runVars, workVars, hostVars
  <1> USE <1>1
  <1>2. HostTyped'
    BY DEF HostInv, HostTyped
  <1>3. (AcceptedAsSigned /\ Carried)'
    BY DEF AcceptedAsSigned, Carried, BeforeService, IncidentThere, SigThere, PayloadThere
  <1>4. Known'
    BY DEF HostInv, RunInv, Known
  <1>5. StagedAsSigned'
    BY DEF HostInv, RunInv, StagedAsSigned
  <1>6. RecoveryOpens'
    BY DEF HostInv, RunInv, RecoveryOpens, WorkdirOpens
  <1> QED BY <1>2, <1>3, <1>4, <1>5, <1>6 DEF HostInv, RunInv

LEMMA StageKeeps ==
  ASSUME HostInv, StickInv, Directory(payload), Stage
  PROVE  HostInv'
  <1> USE DEF HostInv, RunInv
  <1>0. UNCHANGED <<payload, incident, sig, signed, online>>
    BY DEF Stage, Preflight, CopyIncident, CopySig, Quarantine, CopyPayload, CheckPath,
           InstallService, StageEnds, Step, StepFails, AtHost, kitVars
  <1>s. ASSUME spc # "idle", AcceptedAsSigned
        PROVE  AcceptedAsSigned'
    BY <1>0, <1>s DEF AcceptedAsSigned
  <1>1. CASE Preflight
    <2>1. /\ spc = "idle" /\ ~online /\ K!KitVerifies /\ CarriesCa(payload, incident.ca)
          /\ service = None /\ spc' = "incident" /\ ~ready'  /\ ready' \in BOOLEAN
          /\ UNCHANGED <<work, wincident, wsig, recut, egress, locked, service, running>>
      BY <1>1 DEF Preflight, AtHost, Quiet, workVars, hostVars
    <2>2. AcceptedAsSigned'
      BY <1>0, <2>1, VerifiedIsSigned DEF AcceptedAsSigned
    <2>3. HostTyped'
      BY <1>0, <2>1 DEF HostTyped, Staging
    <2>4. Carried'
      BY <1>0, <2>1 DEF Carried, K!KitVerifies, CarriesCa, BeforeService, IncidentThere,
                        SigThere, PayloadThere
    <2>5. Known' /\ StagedAsSigned' /\ RecoveryOpens'
      BY <1>0, <2>1 DEF Known, StagedAsSigned, RecoveryOpens, WorkdirOpens, CarriesCa
    <2> QED BY <2>2, <2>3, <2>4, <2>5
  <1>2. CASE CopyIncident
    <2>1. /\ spc = "incident" /\ UNCHANGED <<ready, work, wsig, egress, locked, service, running>>
          /\ \/ spc' = "sig" /\ wincident' = incident /\ UNCHANGED recut
             \/ spc' = "idle" /\ wincident' = Torn /\ recut' = (recut \/ locked)
      BY <1>2 DEF CopyIncident, Step, StepFails, CutShort, hostVars
    <2>2. service = None /\ ~online /\ ~ready
      BY <2>1 DEF Carried, BeforeService
    <2>3. HostTyped'
      BY <1>0, <2>1 DEF HostTyped, Staging
    <2>4. Carried'
      BY <1>0, <2>1, <2>2 DEF Carried, CarriesCa, BeforeService, IncidentThere, SigThere,
                              PayloadThere
    <2>5. Known' /\ StagedAsSigned' /\ RecoveryOpens'
      BY <1>0, <2>1, <2>2 DEF Known, StagedAsSigned, RecoveryOpens, WorkdirOpens, Carried,
                              AcceptedAsSigned, K!Opens
    <2> QED BY <1>s, <2>1, <2>3, <2>4, <2>5
  <1>3. CASE CopySig
    <2>1. /\ spc = "sig" /\ UNCHANGED <<ready, work, wincident, egress, locked, service, running>>
          /\ \/ spc' = "quarantine" /\ wsig' = sig /\ recut' = FALSE
             \/ spc' = "idle" /\ wsig' = Torn /\ recut' = (recut \/ locked)
      BY <1>3 DEF CopySig, Step, StepFails, CutShort, hostVars
    <2>2. service = None /\ ~online /\ ~ready /\ wincident = incident
      BY <2>1 DEF Carried, BeforeService, IncidentThere
    <2>3. HostTyped'
      BY <1>0, <2>1 DEF HostTyped, Staging
    <2>4. Carried'
      BY <1>0, <2>1, <2>2 DEF Carried, CarriesCa, BeforeService, IncidentThere, SigThere,
                              PayloadThere
    <2>5. Known'
      BY <1>0, <2>1, <2>2 DEF Known, AcceptedAsSigned, Carried
    <2>6. StagedAsSigned' /\ RecoveryOpens'
      BY <1>0, <2>1, <2>2 DEF StagedAsSigned, RecoveryOpens, WorkdirOpens, Carried, K!Opens
    <2> QED BY <1>s, <2>1, <2>3, <2>4, <2>5, <2>6
  <1>4. CASE Quarantine
    <2>1. /\ spc = "quarantine"
          /\ UNCHANGED <<ready, work, wincident, wsig, recut, service, running>>
          /\ spc' \in {"payload", "idle"} /\ locked' \in {TRUE, FALSE, locked}
      BY <1>4 DEF Quarantine, Step, StepFails, workVars
    <2>e. \A rule \in egress' : \E c \in Config : rule.url = Url[c]
      <3>1. \E c \in Config : ServerRule.url = Url[c]
        BY <2>1 DEF AcceptedAsSigned, StickInv, ServerRule
      <3>2. egress' \subseteq egress \cup {ServerRule}
        BY <1>4 DEF Quarantine
      <3> QED BY <3>1, <3>2 DEF Known
    <2>2. service = None /\ ~online /\ ~ready /\ wincident = incident /\ wsig = sig
          /\ K!Opens(incident, sig)
      BY <2>1 DEF Carried, BeforeService, IncidentThere, SigThere
    <2>3. HostTyped'
      BY <1>0, <2>1 DEF HostTyped, Staging
    <2>4. Carried'
      BY <1>0, <2>1, <2>2 DEF Carried, CarriesCa, BeforeService, IncidentThere, SigThere,
                              PayloadThere
    <2>5. Known' /\ StagedAsSigned' /\ RecoveryOpens'
      BY <1>0, <2>1, <2>2, <2>e DEF Known, StagedAsSigned, RecoveryOpens, WorkdirOpens
    <2> QED BY <1>s, <2>1, <2>3, <2>4, <2>5
  <1>5. CASE CopyPayload
    <2>1. /\ spc = "payload"
          /\ UNCHANGED <<ready, wincident, wsig, recut, egress, locked, service, running>>
          /\ \/ spc' = "service" /\ work' = K!Over(payload, work)
             \/ spc' = "idle" /\ work' \in K!CopyCut(payload, work)
      BY <1>5 DEF CopyPayload, Step, StepFails, hostVars, K!CopyInto
    <2>2. service = None /\ ~online /\ ~ready /\ wincident = incident /\ wsig = sig
      BY <2>1 DEF Carried, BeforeService, IncidentThere, SigThere
    <2>3. HostTyped'
      <3>1. Directory(work')
        BY <2>1, OverFacts, CutFacts DEF HostTyped
      <3> QED BY <1>0, <2>1, <3>1 DEF HostTyped, Staging
    <2>4. Carried'
      <3>1. spc' = "service" => K!Holding(payload, work')
        BY <2>1, OverFacts
      <3>2. spc' = "service" => K!Holding(payload', work')
        BY <1>0, <3>1
      <3>3. spc' \in {"service", "idle"}
        BY <2>1
      <3> QED BY <1>0, <2>1, <2>2, <3>2, <3>3
              DEF Carried, CarriesCa, BeforeService, IncidentThere, SigThere, PayloadThere
    <2>5. Known' /\ StagedAsSigned' /\ RecoveryOpens'
      BY <1>0, <2>1, <2>2 DEF Known, StagedAsSigned, RecoveryOpens, WorkdirOpens
    <2> QED BY <1>s, <2>1, <2>3, <2>4, <2>5
  <1>6. CASE InstallService
    <2>1. /\ spc = "service" /\ UNCHANGED <<ready, work, wincident, wsig, recut, egress, locked>>
          /\ spc' \in {"path", "idle"} /\ service' = work[K!ClientYaml]
          /\ running' \in BOOLEAN
      BY <1>6 DEF InstallService, Step, StepFails, workVars
    <2>2. ~online /\ ~ready /\ wincident = incident /\ wsig = sig
          /\ K!Holding(payload, work) /\ CarriesCa(payload, incident.ca)
      BY <2>1 DEF Carried, IncidentThere, SigThere, PayloadThere
    <2>3. service' \in Config /\ Ca[service'] = incident.ca
      BY <2>1, <2>2 DEF CarriesCa, K!Holding
    <2>4. HostTyped'
      BY <1>0, <2>1, <2>3, DeploymentAssumption DEF HostTyped, Staging
    <2>5. Carried'
      BY <1>0, <2>1, <2>2 DEF Carried, CarriesCa, BeforeService, IncidentThere, SigThere,
                              PayloadThere, K!Holding
    <2>6. Known' /\ StagedAsSigned' /\ RecoveryOpens'
      BY <1>0, <2>1, <2>2, <2>3
      DEF Known, StagedAsSigned, RecoveryOpens, WorkdirOpens, AcceptedAsSigned
    <2> QED BY <1>s, <2>1, <2>4, <2>5, <2>6
  <1>7. CASE CheckPath
    <2>1. /\ spc = "path" /\ spc' = "idle" /\ ready' \in BOOLEAN
          /\ ready' => Path[service] = incident.path
          /\ UNCHANGED <<work, wincident, wsig, recut, egress, locked, service, running>>
      <3> DEFINE fits == service \in {c \in Config : Path[c] = incident.path}
      <3>1. ready' = fits
        BY <1>7 DEF CheckPath
      <3>2. fits => Path[service] = incident.path
        OBVIOUS
      <3>3. fits \in BOOLEAN
        OBVIOUS
      <3> HIDE DEF fits
      <3>4. ready' \in BOOLEAN /\ (ready' => Path[service] = incident.path)
        BY <3>1, <3>2, <3>3
      <3> QED BY <1>7, <3>4 DEF CheckPath, Step, workVars, hostVars
    <2>2. /\ ~online /\ wincident = incident /\ wsig = sig /\ sig = incident
          /\ K!Holding(payload, work)
      BY <2>1 DEF Carried, IncidentThere, SigThere, PayloadThere
    <2>3. PICK s \in signed : s.incident = incident /\ s.payload = payload
      BY <2>1 DEF AcceptedAsSigned
    <2>4. HostTyped'
      BY <1>0, <2>1 DEF HostTyped, Staging
    <2>5. Carried'
      BY <1>0, <2>1, <2>2 DEF Carried, CarriesCa, BeforeService, IncidentThere, SigThere,
                              PayloadThere
    <2>6. StagedAsSigned'
      BY <1>0, <2>1, <2>2, <2>3 DEF StagedAsSigned
    <2>7. Known' /\ RecoveryOpens'
      BY <1>0, <2>1, <2>2 DEF Known, RecoveryOpens, WorkdirOpens
    <2> QED BY <1>s, <2>1, <2>4, <2>5, <2>6, <2>7
  <1>8. CASE StageEnds
    <2>1. /\ spc # "idle" /\ spc' = "idle"
          /\ UNCHANGED <<ready, work, wincident, wsig, recut, egress, locked, service, running>>
      BY <1>8 DEF StageEnds, StepFails, workVars, hostVars
    <2>2. ~online /\ ~ready
      BY <2>1 DEF Carried
    <2>3. HostTyped'
      BY <1>0, <2>1 DEF HostTyped, Staging
    <2>4. Carried'
      BY <1>0, <2>1, <2>2 DEF Carried, BeforeService, IncidentThere, SigThere, PayloadThere
    <2>5. Known' /\ StagedAsSigned' /\ RecoveryOpens'
      BY <1>0, <2>1, <2>2 DEF Known, StagedAsSigned, RecoveryOpens, WorkdirOpens
    <2> QED BY <1>s, <2>1, <2>3, <2>4, <2>5
  <1> QED BY <1>1, <1>2, <1>3, <1>4, <1>5, <1>6, <1>7, <1>8 DEF Stage

\* A switch that is off or as it was.
LEMMA Switched ==
  ASSUME NEW old \in BOOLEAN, NEW new \in {FALSE, old}
  PROVE  new \in BOOLEAN /\ (new => old)
  <1>1. CASE new = FALSE
    BY <1>1
  <1>2. CASE new = old
    BY <1>2
  <1> QED BY <1>1, <1>2

LEMMA OnlineKeeps ==
  ASSUME HostInv, Connect \/ StartVelo \/ ConnectEnds \/ Teardown
  PROVE  HostInv'
  <1> USE DEF HostInv, RunInv
  <1>0. /\ spc = "idle" /\ UNCHANGED <<spc, payload, incident, sig, signed>>
        /\ UNCHANGED <<work, wincident, wsig>>
    BY DEF Connect, StartVelo, ConnectEnds, Teardown, AtHost, Quiet, kitVars, runVars,
           workVars, Carried
  <1>1. AcceptedAsSigned' /\ Carried'
    BY <1>0 DEF AcceptedAsSigned, Carried, BeforeService, IncidentThere, SigThere,
                PayloadThere
  <1>2. CASE Connect
    <2>1. /\ UNCHANGED <<ready, recut, egress, locked, service, running>> /\ online' = TRUE
          /\ K!Opens(wincident, wsig) /\ wsig = wincident /\ CarriesCa(work, wincident.ca)
      BY <1>2 DEF Connect, runVars, workVars, hostVars, WorkdirOpens
    <2>2. Known'
      BY <1>0, <2>1 DEF Known, CarriesCa, K!Opens
    <2> QED BY <1>0, <1>1, <2>1, <2>2
            DEF HostTyped, StagedAsSigned, RecoveryOpens, WorkdirOpens
  <1>3. CASE StartVelo
    <2>1. /\ running' = TRUE /\ service # None
          /\ UNCHANGED <<ready, recut, egress, locked, service, online>>
      BY <1>3 DEF StartVelo, runVars, workVars
    <2>2. HostTyped'
      BY <1>0, <2>1 DEF HostTyped
    <2>3. Known' /\ StagedAsSigned' /\ RecoveryOpens'
      BY <1>0, <2>1 DEF Known, StagedAsSigned, RecoveryOpens, WorkdirOpens, CarriesCa
    <2> QED BY <1>1, <2>2, <2>3
  <1>4. CASE ConnectEnds
    <2>1. /\ ~online' /\ online' \in BOOLEAN /\ running' \in {FALSE, running}
          /\ UNCHANGED <<ready, recut, egress, locked, service>>
      BY <1>4 DEF ConnectEnds, runVars, workVars
    <2>k. running' \in BOOLEAN /\ (running' => running)
      BY <2>1, Switched DEF HostTyped
    <2>2. HostTyped'
      BY <1>0, <2>1, <2>k DEF HostTyped
    <2>3. Known' /\ StagedAsSigned' /\ RecoveryOpens'
      BY <1>0, <2>1 DEF Known, StagedAsSigned, RecoveryOpens, WorkdirOpens
    <2> QED BY <1>1, <2>2, <2>3
  <1>5. CASE Teardown
    <2>1. /\ ~ready' /\ ready' \in BOOLEAN /\ UNCHANGED online /\ ~online
          /\ service' \in {service, None} /\ egress' \subseteq egress
      BY <1>5 DEF Teardown, AtHost, Quiet
    <2>2. running' \in BOOLEAN /\ (running' => running /\ service' = service)
      <3>1. running' \in {FALSE, running}
        BY <1>5 DEF Teardown
      <3>2. running' => service' = service
        BY <1>5 DEF Teardown
      <3> QED BY <3>1, <3>2, Switched DEF HostTyped
    <2>3. locked' \in BOOLEAN /\ (locked' => locked)
      <3>1. locked' \in {FALSE, locked}
        BY <1>5 DEF Teardown
      <3> QED BY <3>1, Switched DEF HostTyped
    <2>4. recut' \in BOOLEAN /\ (locked' /\ recut => recut')
      BY <1>5 DEF Teardown, HostTyped
    <2>5. HostTyped'
      BY <1>0, <2>1, <2>2, <2>3, <2>4 DEF HostTyped
    <2>6. Known' /\ StagedAsSigned'
      BY <1>0, <2>1 DEF Known, StagedAsSigned
    <2>7. RecoveryOpens'
      BY <1>0, <2>3, <2>4 DEF RecoveryOpens, WorkdirOpens
    <2> QED BY <1>1, <2>5, <2>6, <2>7
  <1> QED BY <1>2, <1>3, <1>4, <1>5

-----------------------------------------------------------------------------
\* Paths

\* What Resolve computes is a recursion over the segments.  That it has a value,
\* and where that value lies, follows from the least segment where it would not.
LEMMA LeastCounterexample ==
  ASSUME NEW T, T \subseteq Nat, T # {}
  PROVE  \E n \in T : \A k \in T : n <= k
  <1>1. IsWellFoundedOn(OpToRel(<, Nat), Nat)
    BY NatLessThanWellFounded
  <1>2. PICK n \in T : \A k \in T : ~(<<k, n>> \in OpToRel(<, Nat))
    BY <1>1, WFMin
  <1>3. \A k \in T : ~(k < n)
    BY <1>2 DEF OpToRel
  <1> QED BY <1>3

\* The way along the first segments of a path.
Walk(path, last, at) ==
  at = [n \in 0..last |-> IF n = 0 THEN << >> ELSE Enter(at[n - 1], path[n])]

LEMMA WalkExists ==
  ASSUME NEW path \in Seq(STRING)
  PROVE  \A last \in 0..Len(path) : \E at : Walk(path, last, at)
  <1> DEFINE Exists(last) == \E at : Walk(path, last, at)
             T == {last \in 0..Len(path) : ~Exists(last)}
  <1>0. Len(path) \in Nat /\ T \subseteq Nat
    OBVIOUS
  <1>1. Exists(0)
    <2>1. Walk(path, 0, [n \in 0..0 |-> << >>])
      BY DEF Walk
    <2> QED BY <2>1
  <1>2. ASSUME NEW last \in 1..Len(path), Exists(last - 1)
        PROVE  Exists(last)
    <2>1. PICK at : Walk(path, last - 1, at)
      BY <1>2
    <2> DEFINE further ==
          [n \in 0..last |-> IF n = last THEN Enter(at[last - 1], path[last]) ELSE at[n]]
    <2>2. ASSUME NEW n \in 0..last
          PROVE  further[n] = IF n = 0 THEN << >> ELSE Enter(further[n - 1], path[n])
      <3>1. CASE n = last
        BY <1>0, <3>1
      <3>2. CASE n # last
        <4>1. n \in 0..(last - 1) /\ (n # 0 => n - 1 \in 0..last /\ n - 1 # last)
          BY <1>0, <3>2
        <4>2. at[n] = IF n = 0 THEN << >> ELSE Enter(at[n - 1], path[n])
          BY <2>1, <4>1 DEF Walk
        <4> QED BY <3>2, <4>1, <4>2
      <3> QED BY <3>1, <3>2
    <2>3. further = [n \in 0..last |-> further[n]]
      OBVIOUS
    <2> HIDE DEF further
    <2>4. Walk(path, last, further)
      BY <2>2, <2>3 DEF Walk
    <2> QED BY <2>4
  <1> HIDE DEF Exists
  <1>3. ASSUME T # {} PROVE FALSE
    <2>1. PICK last \in T : \A k \in T : last <= k
      BY <1>0, <1>3, LeastCounterexample
    <2>2. last \in 1..Len(path)
      BY <1>0, <1>1, <2>1
    <2>3. last - 1 \in 0..Len(path) /\ last - 1 \notin T
      BY <1>0, <2>1, <2>2
    <2> QED BY <1>2, <2>1, <2>2, <2>3
  <1>4. \A last \in 0..Len(path) : Exists(last)
    BY <1>3
  <1> QED BY <1>4 DEF Exists

LEMMA ResolveWalks ==
  ASSUME NEW path \in Seq(STRING)
  PROVE  \E at : Walk(path, Len(path), at) /\ Resolve(path) = at[Len(path)]
  <1> DEFINE walk == CHOOSE at : Walk(path, Len(path), at)
  <1>1. Walk(path, Len(path), walk)
    <2>1. Len(path) \in 0..Len(path)
      OBVIOUS
    <2> QED BY <2>1, WalkExists
  <1>2. Resolve(path) = walk[Len(path)]
    BY DEF Resolve, Walk
  <1> QED BY <1>1, <1>2

\* What installDir has let through stays two directories below the drive: ".."
\* would lead up, and an empty segment nowhere, but there are none up to there.
LEMMA StaysBelow ==
  ASSUME NEW dir \in Seq(STRING), K!TwoBelowDrive(dir), ~K!HasDotSegment(dir)
  PROVE  Len(Resolve(dir)) >= 3
  <1>1. PICK at : Walk(dir, Len(dir), at) /\ Resolve(dir) = at[Len(dir)]
    BY ResolveWalks
  <1>2. /\ Len(dir) \in Nat /\ Len(dir) >= 3
        /\ \A n \in 1..Len(dir) : dir[n] \in STRING \ {".", ".."}
        /\ \A n \in 1..3 : dir[n] # K!Unnamed
    <2>1. "C:" # K!Unnamed
      BY Zenon DEF K!Unnamed
    <2> QED BY <2>1 DEF K!TwoBelowDrive, K!HasDotSegment, K!Drive
  <1> DEFINE Far(n) == at[n] \in Seq(STRING) /\ (Len(at[n]) >= n \/ Len(at[n]) >= 3)
             T == {n \in 0..Len(dir) : ~Far(n)}
  <1>0. T \subseteq Nat
    BY <1>2
  <1>3. Far(0)
    <2>1. at[0] = << >>
      BY <1>1, <1>2 DEF Walk
    <2> QED BY <2>1
  <1>4. ASSUME NEW n \in 1..Len(dir), Far(n - 1)
        PROVE  Far(n)
    <2>1. at[n] = Enter(at[n - 1], dir[n])
      BY <1>1, <1>2 DEF Walk
    <2>2. at[n - 1] \in Seq(STRING) /\ Len(at[n - 1]) \in Nat
      BY <1>4
    <2>3. dir[n] \in STRING \ {".", ".."}
      BY <1>2
    <2>4. CASE dir[n] = K!Unnamed
      <3>1. n > 3
        BY <1>2, <2>4
      <3>2. at[n] = at[n - 1]
        BY <2>1, <2>3, <2>4 DEF Enter
      <3> QED BY <1>4, <2>2, <3>1, <3>2
    <2>5. CASE dir[n] # K!Unnamed
      <3>1. at[n] = Append(at[n - 1], dir[n])
        BY <2>1, <2>3, <2>5 DEF Enter
      <3>2. at[n] \in Seq(STRING) /\ Len(at[n]) = Len(at[n - 1]) + 1
        BY <2>2, <2>3, <3>1
      <3> QED BY <1>4, <2>2, <3>2
    <2> QED BY <2>4, <2>5
  <1> HIDE DEF Far
  <1>5. ASSUME T # {} PROVE FALSE
    <2>1. PICK n \in T : \A k \in T : n <= k
      BY <1>0, <1>5, LeastCounterexample
    <2>2. n \in 1..Len(dir) /\ ~Far(n)
      BY <1>2, <1>3, <2>1
    <2>3. n - 1 \in 0..Len(dir) /\ ~(n <= n - 1)
      BY <1>2, <2>2
    <2>4. Far(n - 1)
      BY <2>1, <2>3
    <2> QED BY <1>4, <2>2, <2>4
  <1>6. Far(Len(dir))
    BY <1>2, <1>5
  <1> QED BY <1>1, <1>2, <1>6 DEF Far

-----------------------------------------------------------------------------

Inv == StickTyped /\ StickInv /\ HostInv

LEMMA InitInv == Init => Inv
  <1> SUFFICES ASSUME Init PROVE Inv
    OBVIOUS
  <1>1. /\ bpc = "idle" /\ payload = << >> /\ manifest = None /\ sig = None /\ signed = {}
        /\ wincident = None /\ egress = {}
        /\ spc = "idle" /\ ~ready /\ ready \in BOOLEAN /\ work = << >> /\ wsig = None
        /\ ~locked /\ locked \in BOOLEAN /\ ~recut /\ recut \in BOOLEAN
        /\ service = None /\ ~running /\ running \in BOOLEAN
        /\ ~online /\ online \in BOOLEAN
    BY DEF Init, K!Init
  <1>2. IsDirectory(<< >>) /\ Directory(<< >>)
    BY DEF IsDirectory, Directory
  <1>3. StickTyped /\ StickInv
    BY <1>1, <1>2 DEF StickTyped, StickInv, K!Building
  <1>4. HostTyped
    BY <1>1, <1>2 DEF HostTyped, Staging
  <1>5. RunInv
    BY <1>1 DEF RunInv, AcceptedAsSigned, Carried, Known, StagedAsSigned, RecoveryOpens,
                BeforeService, IncidentThere, SigThere, PayloadThere
  <1> QED BY <1>3, <1>4, <1>5 DEF Inv, HostInv

LEMMA NextInv == Inv /\ [Next]_vars => Inv'
  <1> SUFFICES ASSUME Inv, [Next]_vars PROVE Inv'
    OBVIOUS
  <1> USE DEF Inv
  <1>1. CASE KitStep
    BY <1>1, StickSteps, KitStepKeeps DEF KitStep
  <1>2. ASSUME UNCHANGED kitVars
        PROVE  StickTyped' /\ StickInv'
    BY <1>2 DEF kitVars, StickTyped, StickInv
  <1>3. CASE Stage
    <2>1. UNCHANGED kitVars
      BY <1>3 DEF Stage, Preflight, CopyIncident, CopySig, Quarantine, CopyPayload,
                  CheckPath, InstallService, StageEnds, Step, StepFails, AtHost
    <2> QED BY <1>2, <1>3, <2>1, StageKeeps DEF StickTyped
  <1>4. CASE Connect \/ StartVelo \/ ConnectEnds \/ Teardown
    <2>1. UNCHANGED kitVars
      BY <1>4 DEF Connect, StartVelo, ConnectEnds, Teardown, AtHost
    <2> QED BY <1>2, <1>4, <2>1, OnlineKeeps
  <1>5. CASE UNCHANGED vars
    <2>1. StickTyped' /\ StickInv'
      BY <1>2, <1>5 DEF vars
    <2>2. HostInv'
      BY <1>5
      DEF vars, kitVars, runVars, workVars, hostVars, HostInv, HostTyped, RunInv,
          AcceptedAsSigned, Carried, CarriesCa, Known, StagedAsSigned, RecoveryOpens,
          WorkdirOpens
    <2> QED BY <2>1, <2>2
  <1> QED BY <1>1, <1>3, <1>4, <1>5 DEF Next

LEMMA AlwaysInv == Spec => []Inv
  BY InitInv, NextInv, PTL DEF Spec

\* What Custody sees changes with these four.
LEMMA SeenUnchanged ==
  UNCHANGED <<signed, wincident, service, running>> => UNCHANGED Promise!vars
  BY DEF Promise!vars

LEMMA InitKeeps == Init => Promise!Init
  <1> SUFFICES ASSUME Init PROVE Promise!Init
    OBVIOUS
  <1>1. signed = {} /\ wincident = None /\ service = None /\ ~running
    BY DEF Init, K!Init
  <1>2. {s.incident : s \in signed} = {}
    BY <1>1
  <1>3. Ca[service] = None \/ service = None
    BY <1>1
  <1> QED BY <1>1, <1>2, <1>3 DEF Promise!Init

LEMMA NextKeeps == Inv /\ [Next]_vars => [Promise!Next]_(Promise!vars)
  <1> SUFFICES ASSUME Inv, [Next]_vars PROVE [Promise!Next]_(Promise!vars)
    OBVIOUS
  <1> DEFINE issued == {s.incident : s \in signed}
  <1>0. HostTyped /\ AcceptedAsSigned /\ Carried /\ Known
    BY DEF Inv, HostInv, RunInv
  <1>1. CASE KitStep
    <2>1. signed \subseteq signed' /\ UNCHANGED <<wincident, service, running>>
      BY <1>1, StickSteps DEF KitStep, workVars, hostVars, Inv
    <2>2. issued \subseteq issued'
      BY <2>1
    <2> QED BY <2>1, <2>2 DEF Promise!Next, Promise!Issue
  <1>2. CASE CopyIncident
    <2>1. /\ spc = "incident" /\ UNCHANGED <<signed, service, running>>
          /\ wincident' \in {incident, Torn}
      BY <1>2 DEF CopyIncident, Step, StepFails, kitVars, hostVars
    <2>2. service = None /\ incident \in issued
      BY <1>0, <2>1 DEF Carried, BeforeService, AcceptedAsSigned
    <2>3. (IF wincident' = Torn THEN None ELSE wincident') \in issued \cup {None}
      BY <2>1, <2>2
    <2> QED BY <2>1, <2>2, <2>3 DEF Promise!Next, Promise!Adopt
  <1>3. CASE InstallService
    <2>1. /\ spc = "service" /\ UNCHANGED <<signed, wincident>>
          /\ service' = work[K!ClientYaml] /\ running' \in BOOLEAN
      BY <1>3 DEF InstallService, Step, StepFails, kitVars, workVars
    <2>2. /\ service = None /\ ~running
          /\ wincident = incident /\ wincident # Torn /\ wincident \in issued
          /\ K!Holding(payload, work) /\ CarriesCa(payload, incident.ca)
      BY <1>0, <2>1
      DEF Carried, BeforeService, IncidentThere, PayloadThere, AcceptedAsSigned,
          HostTyped, K!Opens
    <2>3. service' # None /\ Ca[service'] = wincident.ca
      BY <2>1, <2>2, DeploymentAssumption DEF CarriesCa, K!Holding
    <2> QED BY <2>1, <2>2, <2>3 DEF Promise!Next, Promise!Register
  <1>4. CASE StartVelo
    <2>1. /\ UNCHANGED <<signed, wincident, service>> /\ running' = TRUE
          /\ online /\ service # None
      BY <1>4 DEF StartVelo, kitVars, workVars
    <2>2. /\ wincident # Torn /\ wincident \in issued
          /\ Ca[service] = wincident.ca
      BY <1>0, <2>1 DEF Known
    <2> QED BY <2>1, <2>2 DEF Promise!Next, Promise!Start
  <1>5. CASE ConnectEnds
    <2>1. UNCHANGED <<signed, wincident, service>> /\ running' \in {FALSE, running}
      BY <1>5 DEF ConnectEnds, kitVars, workVars
    <2>2. CASE running' = running
      BY <2>1, <2>2, SeenUnchanged
    <2>3. CASE running' = FALSE
      BY <2>1, <2>3 DEF Promise!Next, Promise!Stop
    <2> QED BY <2>1, <2>2, <2>3
  <1>6. CASE Teardown
    <2>1. UNCHANGED <<signed, wincident>> /\ running' \in {FALSE, running}
          /\ service' \in {service, None} /\ (running' => service' = service)
      BY <1>6 DEF Teardown, AtHost, kitVars
    <2>2. CASE running'
      <3>1. running' = running /\ service' = service
        BY <1>0, <2>1, <2>2 DEF HostTyped
      <3> QED BY <2>1, <3>1, SeenUnchanged
    <2>3. CASE ~running'
      <3>0. running' = FALSE
        BY <1>0, <2>1, <2>3 DEF HostTyped
      <3>1. CASE service' = None
        BY <2>1, <3>0, <3>1 DEF Promise!Next, Promise!Remove
      <3>2. CASE service' = service
        BY <2>1, <3>0, <3>2 DEF Promise!Next, Promise!Stop
      <3> QED BY <2>1, <3>1, <3>2
    <2> QED BY <2>2, <2>3
  <1>7. CASE Preflight \/ CopySig \/ Quarantine \/ CopyPayload \/ CheckPath \/ StageEnds
             \/ Connect \/ UNCHANGED vars
    <2>1. UNCHANGED <<signed, wincident, service, running>>
      BY <1>7
      DEF Preflight, CopySig, Quarantine, CopyPayload, CheckPath, StageEnds, Connect,
          AtHost, Step, StepFails, kitVars, workVars, hostVars, vars
    <2> QED BY <2>1, SeenUnchanged
  <1> QED BY <1>1, <1>2, <1>3, <1>4, <1>5, <1>6, <1>7 DEF Next, Stage

\* The whole way of the kits, from any number of builds over aborted, repeated and
\* torn down deployments, keeps the promise of Custody: the host never exchanges
\* its incident under a registered service, nor starts one of another incident.
THEOREM CustodyKept == Spec => Keeps
  BY AlwaysInv, InitKeeps, NextKeeps, PTL DEF Spec, Keeps, Promise!Spec

\* The directories and the two sides' processes keep their types.
THEOREM TypeCorrect == Spec => []TypeOK
  <1>1. Inv => TypeOK
    BY DEF Inv, StickTyped, HostInv, HostTyped, TypeOK
  <1> QED BY <1>1, AlwaysInv, PTL

\* Whatever is built, interrupted, edited and rebuilt on the stick: PREFLIGHT
\* accepts only what one build signed, complete.
THEOREM OnlySignedAccepted == Spec => []AcceptedAsSigned
  <1>1. Inv => AcceptedAsSigned
    BY DEF Inv, HostInv, RunInv
  <1> QED BY <1>1, AlwaysInv, PTL

\* READY stands for the signed payload, whole, and for a service in the place
\* the firewall admits, over any number of aborted runs and kits before.
THEOREM ReadyIsSigned == Spec => []StagedAsSigned
  <1>1. Inv => StagedAsSigned
    BY DEF Inv, HostInv, RunInv
  <1> QED BY <1>1, AlwaysInv, PTL

\* connect trusts, and Velociraptor runs with, the CA of a signed incident only.
THEOREM OnlySignedServer == Spec => []ServerIsSigned
  <1>1. Inv => ServerIsSigned
    BY DEF Inv, HostInv, HostTyped, RunInv, Known, CarriesCa, ServerIsSigned
  <1> QED BY <1>1, AlwaysInv, PTL

\* A locked host can be opened by teardown and breakglass, but for a rerun that
\* was cut short over its files.
THEOREM RecoveryPossible == Spec => []RecoveryOpens
  <1>1. Inv => RecoveryOpens
    BY DEF Inv, HostInv, RunInv
  <1> QED BY <1>1, AlwaysInv, PTL

\* Whatever was built, edited and copied in part: the directory that teardown
\* deletes is that of a signed install path, two directories below its drive
\* however Windows resolves it.
THEOREM DeletionBelowRoot == Spec => []DeletionContained
  <1>1. Inv => DeletionContained
    <2> SUFFICES ASSUME Inv, WorkdirOpens, InstallDir(wincident.path) # << >>
                 PROVE  /\ Len(Resolve(InstallDir(wincident.path))) >= 3
                        /\ \E s \in signed :
                             Front(s.incident.path) = InstallDir(wincident.path)
      BY DEF DeletionContained
    <2> DEFINE dir == Front(wincident.path)
    <2>1. PICK s \in signed : s.incident = wincident
      BY DEF Inv, HostInv, RunInv, Known, WorkdirOpens, K!Opens
    <2>2. InstallDir(wincident.path) = dir /\ K!TwoBelowDrive(dir) /\ ~K!HasDotSegment(dir)
      BY DEF InstallDir
    <2>3. wincident.path \in Seq(STRING)
      BY <2>1, DeploymentAssumption DEF Inv, StickInv
    <2>4. dir \in Seq(STRING)
      BY <2>3 DEF Front
    <2> QED BY <2>1, <2>2, <2>4, StaysBelow
  <1> QED BY <1>1, AlwaysInv, PTL

\* As long as every kit that is built is for one server, a locked host reaches
\* no other, whatever was aborted, rolled back in part and staged again.
THEOREM OneServerReached ==
  ASSUME \A c, d \in Config : Url[c] = Url[d]
  PROVE  Spec => []OneDestination
  <1>1. Inv => OneDestination
    <2> SUFFICES ASSUME Inv PROVE Cardinality({rule.url : rule \in egress}) <= 1
      BY DEF OneDestination
    <2> DEFINE urls == {rule.url : rule \in egress}
    <2>1. urls = {} \/ \E url : urls = {url}
      <3>1. \A p, q \in egress : p.url = q.url
        BY DEF Inv, HostInv, RunInv, Known
      <3>2. ASSUME NEW p \in egress PROVE urls = {p.url}
        BY <3>1
      <3> QED BY <3>2
    <2>2. ASSUME urls = {} PROVE Cardinality(urls) = 0
      BY <2>2, FS_EmptySet
    <2>3. ASSUME NEW url, urls = {url} PROVE Cardinality(urls) = 1
      BY <2>3, FS_Singleton
    <2> HIDE DEF urls
    <2>4. Cardinality(urls) <= 1
      BY <2>1, <2>2, <2>3
    <2> QED BY <2>4 DEF urls
  <1> QED BY <1>1, AlwaysInv, PTL

=============================================================================
