------------------------------ MODULE AuditLog ------------------------------
(***************************************************************************)
(* The hash-chained evidence log of internal/audit: audit.jsonl on disk,   *)
(* and one Log value (f, seq, last) in every dfirmedic process that has    *)
(* the file open.  stage, connect, teardown and breakglass are separate    *)
(* processes, each opens the file of the same working directory, and each  *)
(* trusts its own seq and last from then on: Open reads the chain once.    *)
(*                                                                         *)
(* A digest is modelled by what it digests, so it is free of collisions    *)
(* and computeHash is Digest.  Timestamps and JSON are part of the body.   *)
(***************************************************************************)
EXTENDS Naturals, Sequences

CONSTANTS
  Process,   \* the dfirmedic processes that may open the log
  Body,      \* what an entry records (event, data, timestamp)
  Shared,    \* may two processes have the log open at once?
  Faults,    \* the disk faults of this instance, among FaultKind
  MaxWrites  \* bound on the writes that leave something in the file

FaultKind == {"torn", "sync"}

ASSUME AuditAssumption ==
  /\ Shared \in BOOLEAN
  /\ Faults \subseteq FaultKind
  /\ MaxWrites \in Nat

VARIABLES
  file,      \* what each write left in audit.jsonl, in the order of the file
  synced,    \* how many of them are on stable storage
  log,       \* the Log value of each process
  acked,     \* history: the hashes of the entries whose Record returned nil
  early,     \* history: those of them from before any trouble
  troubled,  \* history: a disk fault has occurred, or two processes had the log
  refused    \* history: the processes whose last Open was refused

vars == <<file, synced, log, acked, early, troubled, refused>>

-----------------------------------------------------------------------------

Hash == Seq(Nat \X Body)
Genesis == <<>>
Digest(seq, body, prev) == Append(prev, <<seq, body>>)

NoBody == "unparsable"

\* A write leaves a whole line, all of it but the newline, or less than that.
Form == {"line", "unended", "fragment"}

Entry == [form : Form, seq : Nat, body : Body \cup {NoBody},
          prev : Hash, hash : Hash]

NewEntry(seq, body, prev) ==
  [form |-> "line", seq |-> seq, body |-> body, prev |-> prev,
   hash |-> Digest(seq, body, prev)]

Fragment ==
  [form |-> "fragment", seq |-> 0, body |-> NoBody, prev |-> Genesis,
   hash |-> Genesis]

\* What may be left of an entry that is cut short.
CutShort(entry) ==
  {Fragment} \cup
    (IF entry.form = "line" THEN {[entry EXCEPT !.form = "unended"]} ELSE {})

HashBefore(f, i) == IF i = 1 THEN Genesis ELSE f[i - 1].hash

\* bufio.Scanner takes a last line without its newline for a line; before any
\* other text it is not one: what is written next goes on in the same line,
\* and that does not parse.
WholeLine(f, i) == f[i].form = "line" \/ (f[i].form = "unended" /\ i = Len(f))

\* Mutant: walk does not recompute the hash of a line.
LineUnhashed(f, i) ==
  /\ WholeLine(f, i)
  /\ f[i].seq = i
  /\ f[i].prev = HashBefore(f, i)

LineOK(f, i) ==
  /\ WholeLine(f, i)
  /\ f[i].seq = i
  /\ f[i].prev = HashBefore(f, i)
  /\ f[i].hash = Digest(f[i].seq, f[i].body, f[i].prev)

\* walk accepts the file; it then returns Len(f) and LastHash(f).
Verifies(f) == \A i \in 1..Len(f) : LineOK(f, i)
LastHash(f) == HashBefore(f, Len(f) + 1)

-----------------------------------------------------------------------------

\* "written": the line of the current Record is in the file, not yet synced.
State == {"closed", "idle", "written"}

Log == [at : State, seq : Nat, last : Hash, next : Hash]

Opened(seq, last) == [at |-> "idle", seq |-> seq, last |-> last, next |-> last]
Closed == [at |-> "closed", seq |-> 0, last |-> Genesis, next |-> Genesis]

Init ==
  /\ file = <<>>
  /\ synced = 0
  /\ log = [p \in Process |-> Closed]
  /\ acked = {} /\ early = {}
  /\ troubled = FALSE
  /\ refused = {}

AllClosed == \A p \in Process : log[p].at = "closed"

\* Mutant: Open takes the sequence number from walk but not the last hash.
OpenForgetful(p) ==
  /\ log[p].at = "closed"
  /\ Shared \/ AllClosed
  /\ Verifies(file)
  /\ log' = [log EXCEPT ![p] = Opened(Len(file), Genesis)]
  /\ troubled' = (troubled \/ ~AllClosed)
  /\ UNCHANGED <<file, synced, acked, early, refused>>

\* Mutant: Open starts over when the file does not verify.
OpenAfresh(p) ==
  /\ log[p].at = "closed"
  /\ Shared \/ AllClosed
  /\ file' = IF Verifies(file) THEN file ELSE <<>>
  /\ synced' = IF Verifies(file) THEN synced ELSE 0
  /\ log' = [log EXCEPT ![p] = Opened(Len(file'), LastHash(file'))]
  /\ troubled' = (troubled \/ ~AllClosed)
  /\ UNCHANGED <<acked, early, refused>>

Open(p) ==
  /\ log[p].at = "closed"
  /\ Shared \/ AllClosed
  /\ IF Verifies(file)
     THEN /\ log' = [log EXCEPT ![p] = Opened(Len(file), LastHash(file))]
          /\ refused' = refused \ {p}
     ELSE /\ refused' = refused \cup {p}
          /\ UNCHANGED log
  /\ troubled' = (troubled \/ ~AllClosed)
  /\ UNCHANGED <<file, synced, acked, early>>

EntryOf(p, body) == NewEntry(log[p].seq + 1, body, log[p].last)

\* Record, up to the return of f.Write.  O_APPEND: the bytes go after whatever
\* the file ends in.  A write that fails without leaving a byte behind changes
\* nothing and is a stuttering step.
Write(p, body) ==
  /\ log[p].at = "idle"
  /\ Len(file) < MaxWrites
  /\ file' = Append(file, EntryOf(p, body))
  /\ log' = [log EXCEPT ![p].at = "written", ![p].next = EntryOf(p, body).hash]
  /\ UNCHANGED <<synced, acked, early, troubled, refused>>

\* f.Write returns an error after some of the bytes, perhaps all but the newline.
WriteFails(p, body) ==
  /\ "torn" \in Faults
  /\ log[p].at = "idle"
  /\ Len(file) < MaxWrites
  /\ \E left \in CutShort(EntryOf(p, body)) : file' = Append(file, left)
  /\ troubled' = TRUE
  /\ UNCHANGED <<synced, log, acked, early, refused>>

Acknowledge(h) ==
  /\ acked' = acked \cup {h}
  /\ early' = IF troubled THEN early ELSE early \cup {h}

\* Mutant: Record counts its entry once for the write and once for the sync.
SyncCountsTwice(p) ==
  /\ log[p].at = "written"
  /\ synced' = Len(file)
  /\ log' = [log EXCEPT ![p] = Opened(log[p].seq + 2, log[p].next)]
  /\ Acknowledge(log[p].next)
  /\ UNCHANGED <<file, troubled, refused>>

\* Mutant: Record returns without the f.Sync.
SyncSkipped(p) ==
  /\ log[p].at = "written"
  /\ log' = [log EXCEPT ![p] = Opened(log[p].seq + 1, log[p].next)]
  /\ Acknowledge(log[p].next)
  /\ UNCHANGED <<file, synced, troubled, refused>>

\* Record, from f.Sync to its return.
Sync(p) ==
  /\ log[p].at = "written"
  /\ synced' = Len(file)
  /\ log' = [log EXCEPT ![p] = Opened(log[p].seq + 1, log[p].next)]
  /\ Acknowledge(log[p].next)
  /\ UNCHANGED <<file, troubled, refused>>

\* Record returns the error of f.Sync before it advances seq and last, and
\* every caller that is not a phase ignores it and goes on recording.
SyncFails(p) ==
  /\ "sync" \in Faults
  /\ log[p].at = "written"
  /\ log' = [log EXCEPT ![p] = Opened(log[p].seq, log[p].last)]
  /\ troubled' = TRUE
  /\ UNCHANGED <<file, synced, acked, early, refused>>

\* Close, a return from main, or the process killed at any point.
Exit(p) ==
  /\ log[p].at # "closed"
  /\ log' = [log EXCEPT ![p] = Closed]
  /\ UNCHANGED <<file, synced, acked, early, troubled, refused>>

\* What was synced survives; of the rest, any prefix does, and with torn writes
\* it may end anywhere in a line.  What survived is on the disk.
PowerLoss ==
  /\ \E n \in synced..Len(file) :
       \/ file' = SubSeq(file, 1, n) /\ UNCHANGED troubled
       \/ /\ "torn" \in Faults /\ n < Len(file)
          /\ \E left \in CutShort(file[n + 1]) :
               file' = Append(SubSeq(file, 1, n), left)
          /\ troubled' = TRUE
  /\ synced' = Len(file')
  /\ log' = [p \in Process |-> Closed]
  /\ UNCHANGED <<acked, early, refused>>

Next ==
  \/ \E p \in Process :
       \/ Open(p) \/ Sync(p) \/ SyncFails(p) \/ Exit(p)
       \/ \E body \in Body : Write(p, body) \/ WriteFails(p, body)
  \/ PowerLoss

Spec == Init /\ [][Next]_vars

-----------------------------------------------------------------------------

\* The types of the state; what is synced is in the file, and no process counts
\* more entries than there are writes in the file (Record's seq + 1).
TypeOK ==
  /\ file \in Seq(Entry) /\ Len(file) <= MaxWrites
  /\ synced \in 0..Len(file)
  /\ log \in [Process -> Log]
  /\ \A p \in Process : log[p].seq <= Len(file)
  /\ acked \subseteq Hash /\ early \subseteq acked
  /\ troubled \in BOOLEAN
  /\ refused \subseteq Process

\* audit.jsonl verifies at every moment, whatever processes died, whatever
\* power was lost and however often the log was reopened: the next Open, and
\* the responder's VerifyChain, accept it.
ChainVerifies == Verifies(file)

\* ... which holds up to the first disk fault, or until two processes had the
\* log open at once.
ChainSound == ~troubled => ChainVerifies

\* The first n writes are the first n lines of the file, and they verify.
Evidence(f, n) == Verifies(SubSeq(f, 1, n)) /\ (n > 0 => f[n].form = "line")

\* An entry whose Record returned nil before the first trouble is on stable
\* storage at the place its seq names, and the chain up to it verifies, for ever:
\* no crash, no later fault and no later writer displaces or spoils it.
AckedSurvive ==
  \A h \in early : \E i \in 1..synced :
    Evidence(file, i) /\ file[i].hash = h /\ Len(h) = i

Without(f, i) == SubSeq(f, 1, i - 1) \o SubSeq(f, i + 1, Len(f))
Altered(f, i, body) == [f EXCEPT ![i].body = body]
Swapped(f, i, j) == [f EXCEPT ![i] = f[j], ![j] = f[i]]

\* Damage to a log that verifies is noticed by walk: a line lost before the
\* last one, a line whose content changed, two lines exchanged.
DamageDetected ==
  Verifies(file) =>
    \A i \in 1..Len(file) :
      /\ i < Len(file) => ~Verifies(Without(file, i))
      /\ \A body \in Body \ {file[i].body} : ~Verifies(Altered(file, i, body))
      /\ \A j \in 1..Len(file) \ {i} : ~Verifies(Swapped(file, i, j))

\* Whatever fails, and however many processes share the file, the synced lines
\* up to the first bad one stay as they are: "Nothing in this package is ever
\* overwritten".  A last line without its newline is not among them, although
\* walk accepts it: the next Record goes on in that line and spoils it.
EvidenceKept ==
  [][\A n \in 0..synced : Evidence(file, n) =>
       n <= Len(file') /\ SubSeq(file', 1, n) = SubSeq(file, 1, n)]_vars

\* A process that wants the working directory gets its log: openHost makes a
\* refused Open fatal, for teardown and breakglass as for connect.
RecoveryOpens == refused = {}

=============================================================================
