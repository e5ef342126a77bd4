------------------------------ MODULE Connect ------------------------------
(***************************************************************************)
(* The online half of the workflow, internal/connect: wait for a link,     *)
(* verify the server with the pinned-CA probe, start Velociraptor, watch   *)
(* the probe, and fail closed when the server is not or no longer there.   *)
(*                                                                         *)
(* One module instance is one host.  Its connect process is started by the *)
(* hand-off from stage, by an operator, or by the startup task after a     *)
(* reboot; the cable, the server and Ctrl-C change at any moment.  Time    *)
(* passes in Sleep, in a probe and in Velociraptor's start, and is kept as *)
(* the differences the code compares: Now - CONNECT and Now - lastOK.      *)
(***************************************************************************)
EXTENDS Naturals, FiniteSets

CONSTANTS
  Adapter,        \* the physical network adapters of the host
  Poll,           \* Deps.Poll, the pause between two looks
  Late,           \* by how much a timer may fire late
  ProbeTime,      \* probe.TLS.Timeout, the longest a probe takes
  StartTime,      \* the longest a start of the service takes
  TunnelTimeout,  \* Watchdog.TunnelTimeoutSec
  Grace,          \* Watchdog.HeartbeatGraceSec
  Faults,         \* what may fail in this instance, among FaultKind
  Crashes         \* may the process be killed and the host rebooted?

FaultKind == {"query", "audit", "save", "start", "stop", "list", "disable"}

ASSUME ConnectAssumption ==
  /\ Poll \in Nat \ {0}
  /\ Late \in Nat /\ ProbeTime \in Nat /\ StartTime \in Nat
  /\ TunnelTimeout \in Nat /\ Grace \in Nat
  /\ Faults \subseteq FaultKind
  /\ Crashes \in BOOLEAN
  /\ Adapter \cap FaultKind = {}

VARIABLES
  pc,         \* where the connect process is; "idle" when there is none
  outcome,    \* why the last run ended, or the reason of a trip under way
  cancelled,  \* the context of the process was cancelled by Ctrl-C
  waited,     \* Now - (deadline - TunnelTimeout), while probing for the server
  age,        \* Now - lastOK, while watching
  stale,      \* history: the time since the server was last verified
  status,     \* the state of each adapter
  server,     \* does our server answer on server_ip:port?
  velo,       \* the Velociraptor service
  todo,       \* FailClosed: the adapters not yet tried
  listed,     \* FailClosed: the adapters it found
  disabled,   \* FailClosed: the adapters it disabled
  errs,       \* history: what failed in FailClosed
  man,        \* Man.DisabledAdapters in the memory of the process
  saved,      \* disabled_adapters in manifest.json
  tripped     \* history: the adapters the watchdog has disabled

process == <<pc, outcome, cancelled>>
timers  == <<waited, age, stale>>
closing == <<todo, listed, disabled, errs>>
record  == <<man, saved, tripped>>
vars == <<process, timers, status, server, velo, closing, record>>

-----------------------------------------------------------------------------

Status   == {"up", "down", "disabled", "absent"}
Service  == {"absent", "stopped", "running"}
Trip     == {"E50", "E51", "E52"}
Outcome  == {"none", "error", "quit", "killed"} \cup Trip
Probing  == {"probe", "probeSleep"}
Watching == {"beatSleep", "beat"}
Closing  == {"stop", "list", "disable"}
Place    == {"idle", "link", "linkSleep", "phase", "start"}
              \cup Probing \cup Watching \cup Closing

LinkUp == \E a \in Adapter : status[a] = "up"

\* A probe succeeds when our server completes the handshake over a live link.
Reachable == server /\ LinkUp /\ ~cancelled

\* What stage leaves is a stopped service; after a teardown that could not
\* delete the startup task there is none.
Init ==
  /\ pc = "idle" /\ outcome = "none" /\ cancelled = FALSE
  /\ waited = 0 /\ age = 0 /\ stale = 0
  /\ status \in [Adapter -> {"down", "absent"}]
  /\ server \in BOOLEAN
  /\ velo \in {"stopped", "absent"}
  /\ todo = {} /\ listed = {} /\ disabled = {} /\ errs = {}
  /\ man = {} /\ saved = {} /\ tripped = {}

Goto(place) == pc' = place /\ UNCHANGED <<outcome, cancelled>>

ResetTimers == waited' = 0 /\ age' = 0 /\ stale' = 0

\* Run returns (or the process dies): its memory is gone.
Leave(why) ==
  /\ pc' = "idle" /\ outcome' = why /\ cancelled' = FALSE
  /\ ResetTimers

\* Deps.phase and FailClosed save the whole manifest and ignore the error.
\* Save truncates the file before it writes; a manifest cut short does not
\* parse, and openHost goes on with an empty one.
Save(names) == saved' = names \/ ("save" \in Faults /\ saved' \in {saved, {}})

\* The process dies, possibly in the middle of a save.
Saving == pc \in {"phase", "start"} \/ (pc = "disable" /\ todo = {})
CutShort == UNCHANGED saved \/ (Saving /\ saved' = {})

-----------------------------------------------------------------------------
\* WaitLinkUp

Launch ==
  /\ pc = "idle"
  /\ pc' = "link" /\ outcome' = "none" /\ cancelled' = FALSE
  /\ man' = saved
  /\ todo' = {} /\ listed' = {} /\ disabled' = {} /\ errs' = {}
  /\ UNCHANGED <<timers, status, server, velo, saved, tripped>>

\* A query that fails, one that the cancelled context does not even start,
\* and a link_up that cannot be recorded end the run.
LinkFails ==
  /\ pc = "link"
  /\ cancelled \/ "query" \in Faults \/ (LinkUp /\ "audit" \in Faults)
  /\ Leave("error")
  /\ UNCHANGED <<status, server, velo, closing, record>>

LinkFound ==
  /\ pc = "link" /\ ~cancelled
  /\ IF LinkUp THEN Goto("phase") ELSE Goto("linkSleep")
  /\ UNCHANGED <<timers, status, server, velo, closing, record>>

LinkSleep ==
  /\ pc = "linkSleep"
  /\ IF cancelled THEN Leave("error") ELSE Goto("link") /\ UNCHANGED timers
  /\ UNCHANGED <<status, server, velo, closing, record>>

\* phase("CONNECT") saves the manifest before it writes the log.
PhaseConnect ==
  /\ pc = "phase"
  /\ Save(man)
  /\ \/ Goto("probe")
     \/ "audit" \in Faults /\ Leave("error")
  /\ UNCHANGED <<timers, status, server, velo, closing, man, tripped>>

-----------------------------------------------------------------------------
\* Run: verification and start

FailClosed(reason) ==
  pc' = "stop" /\ outcome' = reason /\ UNCHANGED cancelled

\* Mutant: the loop no longer compares Now with the deadline.
ProbeForever ==
  /\ pc = "probe"
  /\ \E t \in 0..ProbeTime :
       /\ waited' = waited + t /\ waited' <= 3 * (TunnelTimeout + Poll)
       /\ IF Reachable THEN Goto("start") ELSE Goto("probeSleep")
  /\ UNCHANGED <<age, stale, status, server, velo, closing, record>>

\* Mutant: at the deadline the loop is left as if the server had answered.
ProbeThenStart ==
  /\ pc = "probe"
  /\ \E t \in 0..ProbeTime :
       /\ waited' = waited + t
       /\ IF Reachable \/ waited' >= TunnelTimeout THEN Goto("start")
          ELSE Goto("probeSleep")
  /\ UNCHANGED <<age, stale, status, server, velo, closing, record>>

\* Mutant: the deadline is computed inside the loop.
ProbeMovesDeadline ==
  /\ pc = "probe"
  /\ \E t \in 0..ProbeTime :
       /\ waited' = t
       /\ IF Reachable THEN Goto("start")
          ELSE IF waited' >= TunnelTimeout THEN FailClosed("E50")
          ELSE Goto("probeSleep")
  /\ UNCHANGED <<age, stale, status, server, velo, closing, record>>

ProbeServer ==
  /\ pc = "probe"
  /\ \E t \in 0..ProbeTime :
       /\ waited' = waited + t
       /\ IF Reachable THEN Goto("start")
          ELSE IF waited' >= TunnelTimeout THEN FailClosed("E50")
          ELSE Goto("probeSleep")
  /\ UNCHANGED <<age, stale, status, server, velo, closing, record>>

ProbeSleep ==
  /\ pc = "probeSleep"
  /\ \/ cancelled /\ Leave("error")
     \/ /\ ~cancelled /\ Goto("probe")
        /\ \E t \in Poll..(Poll + Late) : waited' = waited + t
        /\ UNCHANGED <<age, stale>>
  /\ UNCHANGED <<status, server, velo, closing, record>>

\* lastOK is set once Velociraptor runs; the server was verified before that.
\* phase("CONNECTED") is best-effort.
StartVelo ==
  /\ pc = "start" /\ ~cancelled /\ velo = "stopped"
  /\ velo' = "running"
  /\ \E t \in 0..StartTime : stale' = t
  /\ age' = 0 /\ waited' = 0
  /\ Goto("beatSleep")
  /\ Save(man)
  /\ UNCHANGED <<status, server, closing, man, tripped>>

\* sc start fails on a service that is absent or already running, when the
\* context is cancelled, or by itself - possibly after the service came up.
StartFails ==
  /\ pc = "start"
  /\ \/ (cancelled \/ velo # "stopped") /\ UNCHANGED velo
     \/ "start" \in Faults /\ velo' \in {velo, IF velo = "absent" THEN velo ELSE "running"}
  /\ FailClosed("E52")
  /\ UNCHANGED <<timers, status, server, closing, record>>

-----------------------------------------------------------------------------
\* Run: the heartbeat watchdog

BeatSleep ==
  /\ pc = "beatSleep"
  /\ \/ cancelled /\ Leave("quit")
     \/ /\ ~cancelled /\ Goto("beat")
        /\ \E t \in Poll..(Poll + Late) : age' = age + t /\ stale' = stale + t
        /\ UNCHANGED waited
  /\ UNCHANGED <<status, server, velo, closing, record>>

\* Mutant: lastOK is set before the result of the probe is looked at; only
\* the grace period is measured again, the truth (stale) goes on.
BeatRefreshesFirst ==
  /\ pc = "beat"
  /\ \E t \in 0..ProbeTime :
       IF Reachable
       THEN Goto("beatSleep") /\ age' = 0 /\ stale' = 0
       ELSE /\ age' = t /\ stale' = stale + t
            /\ stale' <= 2 * (StartTime + Grace + Poll + Late + ProbeTime)
            /\ IF age' > Grace THEN FailClosed("E51") ELSE Goto("beatSleep")
  /\ UNCHANGED <<waited, status, server, velo, closing, record>>

\* Mutant: the first failed probe trips, whatever the grace period.
BeatTripsAtOnce ==
  /\ pc = "beat"
  /\ \E t \in 0..ProbeTime :
       IF Reachable
       THEN Goto("beatSleep") /\ age' = 0 /\ stale' = 0
       ELSE age' = age + t /\ stale' = stale + t /\ FailClosed("E51")
  /\ UNCHANGED <<waited, status, server, velo, closing, record>>

\* Mutant: the watchdog takes every probe for a success.
BeatBlind ==
  /\ pc = "beat"
  /\ Goto("beatSleep") /\ age' = 0 /\ stale' = 0
  /\ UNCHANGED <<waited, status, server, velo, closing, record>>

Beat ==
  /\ pc = "beat"
  /\ \E t \in 0..ProbeTime :
       IF Reachable
       THEN Goto("beatSleep") /\ age' = 0 /\ stale' = 0
       ELSE /\ age' = age + t /\ stale' = stale + t
            /\ IF age' > Grace THEN FailClosed("E51") ELSE Goto("beatSleep")
  /\ UNCHANGED <<waited, status, server, velo, closing, record>>

-----------------------------------------------------------------------------
\* FailClosed, on a context of its own: a Ctrl-C does not stop it.

StopVelo ==
  /\ pc = "stop"
  /\ \/ /\ velo # "absent"
        /\ velo' = "stopped" /\ UNCHANGED errs
     \/ /\ velo = "absent" \/ "stop" \in Faults
        /\ errs' = errs \cup {"stop"} /\ UNCHANGED velo
  /\ Goto("list")
  /\ UNCHANGED <<timers, status, server, todo, listed, disabled, record>>

Present == {a \in Adapter : status[a] # "absent"}

\* Mutant: every adapter ever seen is tried, also the absent ones.
ListEveryAdapter ==
  /\ pc = "list"
  /\ listed' = Present /\ todo' = Adapter /\ UNCHANGED errs
  /\ Goto("disable")
  /\ UNCHANGED <<timers, status, server, velo, disabled, record>>

ListAdapters ==
  /\ pc = "list"
  /\ \/ listed' = Present /\ UNCHANGED errs
     \/ "list" \in Faults /\ listed' = {} /\ errs' = errs \cup {"list"}
  /\ todo' = listed'
  /\ Goto("disable")
  /\ UNCHANGED <<timers, status, server, velo, disabled, record>>

\* Mutant: the loop stops at the first adapter that cannot be disabled.
DisableUntilError(a) ==
  /\ pc = "disable" /\ a \in todo
  /\ \/ /\ todo' = todo \ {a}
        /\ status' = [status EXCEPT ![a] = "disabled"]
        /\ disabled' = disabled \cup {a} /\ tripped' = tripped \cup {a}
        /\ UNCHANGED errs
     \/ /\ "disable" \in Faults
        /\ todo' = {} /\ errs' = errs \cup {a}
        /\ UNCHANGED <<status, disabled, tripped>>
  /\ UNCHANGED <<process, timers, server, velo, listed, man, saved>>

DisableOne(a) ==
  /\ pc = "disable" /\ a \in todo
  /\ todo' = todo \ {a}
  /\ \/ /\ status' = [status EXCEPT ![a] = "disabled"]
        /\ disabled' = disabled \cup {a}
        /\ tripped' = tripped \cup {a}
        /\ UNCHANGED errs
     \/ /\ "disable" \in Faults
        /\ errs' = errs \cup {a}
        /\ UNCHANGED <<status, disabled, tripped>>
  /\ UNCHANGED <<process, timers, server, velo, listed, man, saved>>

\* Man.DisabledAdapters is replaced, then phase("FAILED") saves it.
RecordTrip ==
  /\ pc = "disable" /\ todo = {}
  /\ man' = disabled
  /\ Save(disabled)
  /\ Leave(outcome)
  /\ UNCHANGED <<status, server, velo, closing, tripped>>

-----------------------------------------------------------------------------
\* The host around the process

Plug(a) ==
  /\ status[a] \in {"absent", "up", "down"}
  /\ \E s \in {"up", "down"} : status' = [status EXCEPT ![a] = s]
  /\ UNCHANGED <<process, timers, server, velo, closing, record>>

ServerChanges ==
  /\ server' = ~server
  /\ UNCHANGED <<process, timers, status, velo, closing, record>>

CtrlC ==
  /\ pc # "idle" /\ ~cancelled
  /\ cancelled' = TRUE
  /\ UNCHANGED <<pc, outcome, timers, status, server, velo, closing, record>>

Kill ==
  /\ Crashes /\ pc # "idle"
  /\ Leave("killed") /\ CutShort
  /\ UNCHANGED <<status, server, velo, closing, man, tripped>>

\* Velociraptor is demand-start; the startup task runs connect.
Reboot ==
  /\ Crashes
  /\ pc' = "link" /\ outcome' = "none" /\ cancelled' = FALSE
  /\ ResetTimers
  /\ velo' = IF velo = "absent" THEN velo ELSE "stopped"
  /\ CutShort /\ man' = saved'
  /\ todo' = {} /\ listed' = {} /\ disabled' = {} /\ errs' = {}
  /\ UNCHANGED <<status, server, tripped>>

-----------------------------------------------------------------------------

Step ==
  \/ LinkFails \/ LinkFound \/ LinkSleep \/ PhaseConnect
  \/ ProbeServer \/ ProbeSleep \/ StartVelo \/ StartFails
  \/ BeatSleep \/ Beat
  \/ StopVelo \/ ListAdapters \/ RecordTrip
  \/ \E a \in Adapter : DisableOne(a)

Environment ==
  \/ Launch \/ ServerChanges \/ CtrlC \/ Kill \/ Reboot
  \/ \E a \in Adapter : Plug(a)

Next == Step \/ Environment

\* The process is scheduled; nothing is promised about cable, server and user.
Spec == Init /\ [][Next]_vars /\ WF_vars(Step)

-----------------------------------------------------------------------------

TypeOK ==
  /\ pc \in Place /\ outcome \in Outcome /\ cancelled \in BOOLEAN
  /\ waited \in Nat /\ age \in Nat /\ stale \in Nat
  /\ status \in [Adapter -> Status]
  /\ server \in BOOLEAN
  /\ velo \in Service
  /\ todo \subseteq listed /\ listed \subseteq Adapter /\ disabled \subseteq Adapter
  /\ errs \subseteq Adapter \cup {"stop", "list"}
  /\ man \subseteq Adapter /\ saved \subseteq Adapter /\ tripped \subseteq Adapter

\* The E50 verdict is never later than one sleep and one probe after the
\* tunnel timeout: a probe that began in time is the last one that may overrun.
VerifyBounded == waited < TunnelTimeout + Poll + Late + ProbeTime

\* While a process watches, Velociraptor never runs longer on an unverified
\* server than the start it was verified for, the grace period, one sleep and
\* one probe - although lastOK is set after the start, not at verification.
StalenessBounded ==
  pc \in Watching \/ outcome = "E51" =>
    stale <= StartTime + Grace + Poll + Late + ProbeTime

\* No trip comes early: E50 only after the whole tunnel timeout, E51 only when
\* the server has been unverified for longer than the whole grace period.
NoEarlyTrip ==
  /\ pc \in Closing /\ outcome = "E50" => waited >= TunnelTimeout
  /\ pc \in Closing /\ outcome = "E51" => stale > Grace

\* What a completed trip leaves running or connected is what it failed on: the
\* service only if its stop failed, an adapter only if its own disable failed,
\* the listing failed or it was plugged in after the listing.  One adapter's
\* failure never spares another.
Contained ==
  pc = "idle" /\ outcome \in Trip =>
    /\ velo = "running" => "stop" \in errs
    /\ \A a \in Adapter : status[a] \in {"up", "down"} =>
         a \in errs \/ "list" \in errs \/ a \notin listed

\* Once a link was found the run comes to a verdict: it watches a verified
\* server, or it has ended (or the host was rebooted and looks for a link).
VerdictReached ==
  pc \in Probing ~> pc \in Watching \cup {"idle", "link"}

\* A server that stays away ends the watch and the trip that follows.
LossEndsWatch ==
  (pc \in Watching /\ ~server) ~> (server \/ pc \in {"idle", "link"})

-----------------------------------------------------------------------------

\* The modes of the abstract watchdog: a run is off until the probe succeeds.
Mode ==
  CASE pc = "start" -> "verified"
    [] pc \in Watching -> "watching"
    [] pc = "stop" -> "tripping"
    [] pc \in {"list", "disable"} -> "tripped"
    [] OTHER -> "off"

Promise == INSTANCE Watchdog WITH
  Startup <- StartTime, Patience <- Grace,
  Limit <- StartTime + Grace + Poll + Late + ProbeTime,
  mode <- Mode, reach <- Reachable, silence <- stale, running <- velo = "running"

\* Connect does nothing that the watchdog does not promise: no start without a
\* server that was reached, no watch prolonged or ended but for what the probe
\* said - with timers that fire late, cancelled contexts and reboots.
Implements == Promise!Spec

=============================================================================
