--------------------------------- MODULE Kit ---------------------------------
(***************************************************************************)
(* The responder's side: internal/build assembles a kit on a stick, step   *)
(* by step, over whatever an earlier build or an edit has left there.  A   *)
(* build may fail or be killed between its steps and inside a copy, and    *)
(* the payload it copies from may change under it.                         *)
(*                                                                         *)
(* A directory is a function from the files in it to their contents.  A    *)
(* hash is what it was computed over: payload/manifest.sha256 is the       *)
(* directory it lists, and the manifest hash in incident.json is that      *)
(* manifest.  A signature is the incident it was made for; there is one    *)
(* responder key, the one embedded in dfirmedic.exe.                       *)
(***************************************************************************)
EXTENDS Naturals, Sequences, FiniteSets

CONSTANTS
  Config,     \* the contents velociraptor.client.yaml may have
  Url,        \* [Config -> server URLs]: server_urls
  Ca,         \* [Config -> CA certificates]: Client.ca_certificate
  Path,       \* [Config -> paths]: windows_installer.install_path
  Tool,       \* the other files a payload may have
  Version,    \* ... and their contents
  None,       \* a file that is not there
  Torn,       \* a file that was cut short, or damaged
  MaxSigned,  \* bound: no build starts once so many kits have been signed
  MaxFaults   \* bound: so many edits of a kit and runs that end early

ClientYaml == "velociraptor.client.yaml"

Holds(f) == IF f = ClientYaml THEN Config ELSE Version
\* What the responder prepares: a client config, and tools as they come.
Source ==
  {dir \in UNION {[{ClientYaml} \cup t -> Config \cup Version] : t \in SUBSET Tool} :
     \A f \in DOMAIN dir : dir[f] \in Holds(f)}

VARIABLES
  bpc,       \* where the build process is; "idle" when there is none
  facts,     \* clientConfigFacts: the client config it has read
  payload,   \* stick: the files under payload/ but for the manifest
  manifest,  \* stick: payload/manifest.sha256
  incident,  \* stick: incident.json
  sig,       \* stick: incident.json.sig
  whole,     \* history: the stick has all that this build was given
  signed,    \* history: what was signed
  faults     \* how many edits and early ends there were

building == <<bpc, facts, whole>>
stick == <<payload, manifest, incident, sig>>
vars == <<building, stick, signed, faults>>

Building == {"copy", "manifest", "incident", "sig"}

-----------------------------------------------------------------------------
\* Directories

Over(new, old) ==
  [f \in DOMAIN new \cup DOMAIN old |-> IF f \in DOMAIN new THEN new[f] ELSE old[f]]

\* Every file of one directory is in the other as it is.
Holding(files, dir) == \A f \in DOMAIN files : f \in DOMAIN dir /\ dir[f] = files[f]

Part(dir, files) == [f \in files |-> dir[f]]

\* Mutant: a file that is already there is not copied again.
OverMissing(new, old) ==
  [f \in DOMAIN new \cup DOMAIN old |-> IF f \in DOMAIN old THEN old[f] ELSE new[f]]

\* Both copyTree and copyDir merge a directory into what is there.
CopyInto(new, old) == Over(new, old)

\* A copy that ended early: some files are there, one of them cut short.
CopyCut(new, old) ==
  {Over([f \in files |-> IF f = cut THEN Torn ELSE new[f]], old) :
     files \in SUBSET DOMAIN new, cut \in DOMAIN new \cup {None}}

\* Segments of a Windows path.  config.Validate wants <drive>:\<dir>\<file>.
Drive == {"C:"}
Unnamed == ""
HasDotSegment(path) == \E i \in DOMAIN path : path[i] \in {".", ".."}
TwoBelowDrive(path) ==
  Len(path) >= 3 /\ path[1] \in Drive /\ path[2] # Unnamed /\ path[3] # Unnamed
ValidPath(path) == TwoBelowDrive(path) /\ ~HasDotSegment(path)

-----------------------------------------------------------------------------
\* What a reader of the stick checks

\* manifest.Verify: every listed file has its hash, and no other file is there.
ManifestVerifies == Holding(manifest, payload) /\ DOMAIN payload \subseteq DOMAIN manifest

\* config.Load and sign.ReadSig: the files are there and parse.
Opens(inc_, sig_) == {inc_, sig_} \cap {None, Torn} = {}

\* build.Verify, and E11, E12, E17 and E13 of PREFLIGHT.
KitVerifies ==
  /\ Opens(incident, sig) /\ sig = incident
  /\ ValidPath(incident.path)
  /\ manifest # None /\ incident.manifest = manifest
  /\ ManifestVerifies

-----------------------------------------------------------------------------

Init ==
  /\ bpc = "idle" /\ facts = None /\ whole = FALSE
  /\ payload = << >> /\ manifest = None /\ incident = None /\ sig = None
  /\ signed = {} /\ faults = 0

Fault == faults < MaxFaults /\ faults' = faults + 1

BuildEnds == bpc' = "idle" /\ facts' = None /\ whole' = FALSE
\* An error, or the process is killed.
BuildFails == BuildEnds /\ Fault

\* Up to MkdirAll nothing is written.  --server-url has to be listed in the
\* client config, so the server of the incident is the config's.
BuildStart ==
  /\ bpc = "idle" /\ Cardinality(signed) < MaxSigned
  /\ bpc' = "copy" /\ facts' \in Config
  /\ UNCHANGED <<whole, stick, signed, faults>>

\* The source is read a second time, and may have changed since: to another
\* server, a newer or a withdrawn tool.  What the stick has besides it stays.
CopyTree ==
  /\ bpc = "copy"
  /\ \E source \in Source :
       \/ /\ payload' = CopyInto(source, payload)
          /\ bpc' = "manifest" /\ whole' = Holding(source, payload')
          /\ UNCHANGED <<facts, faults>>
       \/ payload' \in CopyCut(source, payload) /\ BuildFails
  /\ UNCHANGED <<manifest, incident, sig, signed>>

\* manifest.Write lists what is on the stick.
WriteManifest ==
  /\ bpc = "manifest"
  /\ \/ /\ manifest' = payload
        /\ bpc' = "incident" /\ UNCHANGED <<facts, whole, faults>>
     \/ /\ manifest' \in {Part(payload, some) : some \in SUBSET DOMAIN payload}
        /\ BuildFails
  /\ UNCHANGED <<payload, incident, sig, signed>>

Incident(config, hash) ==
  [url |-> Url[config], ca |-> Ca[config], path |-> Path[config], manifest |-> hash]

\* The manifest is hashed, the incident validated, the orchestrator and the
\* field card are copied, and incident.json is written.
WriteIncident ==
  /\ bpc = "incident"
  /\ \/ /\ ValidPath(Path[facts])
        /\ incident' = Incident(facts, manifest)
        /\ bpc' = "sig" /\ UNCHANGED <<facts, whole, faults>>
     \/ incident' \in {incident, Torn} /\ BuildFails
  /\ UNCHANGED <<payload, manifest, sig, signed>>

\* The signature completes the kit; the verification after it changes nothing.
WriteSig ==
  /\ bpc = "sig"
  /\ \/ /\ sig' = incident
        /\ signed' = signed \cup
             {[incident |-> incident, payload |-> payload, whole |-> whole]}
        /\ BuildEnds /\ UNCHANGED faults
     \/ sig' \in {sig, Torn} /\ BuildFails /\ UNCHANGED signed
  /\ UNCHANGED <<payload, manifest, incident>>

\* A file on the stick is replaced, added, damaged or removed, and the manifest
\* is made anew or not.
StickEdited ==
  /\ bpc = "idle" /\ Fault
  /\ \/ \E f \in {ClientYaml} \cup Tool : \E c \in Holds(f) \cup {Torn} :
          payload' = Over([g \in {f} |-> c], payload)
     \/ \E f \in DOMAIN payload : payload' = Part(payload, DOMAIN payload \ {f})
  /\ manifest' \in {manifest, payload'}
  /\ UNCHANGED <<building, incident, sig, signed>>

Build == BuildStart \/ CopyTree \/ WriteManifest \/ WriteIncident \/ WriteSig

Next == Build \/ StickEdited

=============================================================================
