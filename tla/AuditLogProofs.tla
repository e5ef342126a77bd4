--------------------------- MODULE AuditLogProofs ---------------------------
(***************************************************************************)
(* What holds of AuditLog for every set of processes, every set of bodies, *)
(* every bound on the file and all disk faults: its types, the permanence  *)
(* of synced evidence, the integrity of the chain up to the first trouble  *)
(* and of what was acknowledged by then, and the detection of damage.      *)
(***************************************************************************)
EXTENDS AuditLog, SequenceTheorems, TLAPS

\* A process never counts more entries than there are writes in the file.
Counted ==
  \A p \in Process :
    /\ log[p].at = "idle" => log[p].seq <= Len(file)
    /\ log[p].at = "written" => log[p].seq + 1 <= Len(file)
    /\ log[p].at = "closed" => log[p].seq = 0

TypeInv == TypeOK /\ Counted

-----------------------------------------------------------------------------

LEMMA DigestType ==
  ASSUME NEW s \in Nat, NEW b \in Body, NEW h \in Hash
  PROVE  /\ Digest(s, b, h) \in Hash
         /\ Len(Digest(s, b, h)) = Len(h) + 1
  BY DEF Digest, Hash

LEMMA GenesisType == Genesis \in Hash /\ Len(Genesis) = 0
  BY DEF Genesis, Hash

LEMMA EntryOfType ==
  ASSUME NEW p \in Process, NEW b \in Body, log[p] \in Log
  PROVE  /\ EntryOf(p, b) \in Entry
         /\ EntryOf(p, b).form = "line" /\ EntryOf(p, b).hash \in Hash
         /\ EntryOf(p, b).hash =
              Digest(EntryOf(p, b).seq, EntryOf(p, b).body, EntryOf(p, b).prev)
  <1>1. log[p].seq + 1 \in Nat /\ log[p].last \in Hash
    BY DEF Log
  <1> QED BY <1>1, DigestType DEF EntryOf, NewEntry, Entry, Form

LEMMA CutShortType ==
  ASSUME NEW e \in Entry, NEW c \in CutShort(e)
  PROVE  c \in Entry
  BY GenesisType DEF CutShort, Fragment, Entry, Form

LEMMA PrefixFacts ==
  ASSUME NEW f \in Seq(Entry), NEW n \in 0..Len(f)
  PROVE  /\ SubSeq(f, 1, n) \in Seq(Entry)
         /\ Len(SubSeq(f, 1, n)) = n
         /\ \A i \in 1..n : SubSeq(f, 1, n)[i] = f[i]
  <1>1. \A i \in 1..n : f[i] \in Entry
    BY ElementOfSeq
  <1>2. /\ SubSeq(f, 1, n) \in Seq(Entry)
        /\ Len(SubSeq(f, 1, n)) = IF 1 <= n THEN n - 1 + 1 ELSE 0
        /\ \A i \in 1..(n - 1 + 1) : SubSeq(f, 1, n)[i] = f[1 + i - 1]
    BY <1>1, SubSeqProperties
  <1> QED BY <1>2
LEMMA LastHashType ==
  ASSUME NEW f \in Seq(Entry)
  PROVE  LastHash(f) \in Hash
  <1>1. Len(f) \in Nat /\ \A i \in 1..Len(f) : f[i] \in Entry
    BY LenProperties, ElementOfSeq
  <1>2. CASE Len(f) = 0
    BY <1>2, GenesisType DEF LastHash, HashBefore
  <1>3. CASE Len(f) # 0
    <2>1. f[Len(f)] \in Entry
      BY <1>1, <1>3
    <2>2. LastHash(f) = f[Len(f)].hash
      BY <1>1, <1>3 DEF LastHash, HashBefore
    <2> QED BY <2>1, <2>2 DEF Entry
  <1> QED BY <1>2, <1>3


-----------------------------------------------------------------------------

LEMMA InitTypeInv == Init => TypeInv
  <1> SUFFICES ASSUME Init PROVE TypeInv
    OBVIOUS
  <1>1. file \in Seq(Entry) /\ Len(file) = 0
    BY EmptySeq DEF Init
  <1>2. log \in [Process -> Log]
    BY GenesisType DEF Init, Closed, Log, State
  <1>3. /\ Len(file) <= MaxWrites /\ synced \in 0..Len(file)
        /\ \A p \in Process : log[p].seq <= Len(file)
    BY <1>1, AuditAssumption DEF Init, Closed
  <1>4. /\ acked \subseteq Hash /\ early \subseteq acked
        /\ troubled \in BOOLEAN /\ refused \subseteq Process
    BY DEF Init
  <1>5. Counted
    BY DEF Init, Counted, Closed
  <1> QED BY <1>1, <1>2, <1>3, <1>4, <1>5 DEF TypeInv, TypeOK

\* One more write in the file keeps the types, whoever it is of.
LEMMA AppendTypes ==
  ASSUME TypeInv, Len(file) < MaxWrites, NEW e \in Entry, file' = Append(file, e)
  PROVE  /\ file' \in Seq(Entry) /\ Len(file') = Len(file) + 1
         /\ Len(file') <= MaxWrites /\ synced \in 0..Len(file')
         /\ \A p \in Process : log[p].seq <= Len(file')
  <1>1. file \in Seq(Entry) /\ Len(file) \in Nat
    BY LenProperties DEF TypeInv, TypeOK
  <1>2. file' \in Seq(Entry) /\ Len(file') = Len(file) + 1
    BY <1>1, AppendProperties
  <1>3. \A p \in Process : log[p].seq \in Nat
    BY DEF TypeInv, TypeOK, Log
  <1> QED BY <1>1, <1>2, <1>3, AuditAssumption DEF TypeInv, TypeOK

LEMMA NextTypeInv == TypeInv /\ [Next]_vars => TypeInv'
  <1> SUFFICES ASSUME TypeInv, [Next]_vars PROVE TypeInv'
    OBVIOUS
  <1>0. /\ file \in Seq(Entry) /\ Len(file) \in Nat /\ Len(file) <= MaxWrites
        /\ synced \in 0..Len(file) /\ log \in [Process -> Log]
        /\ acked \subseteq Hash /\ early \subseteq acked /\ troubled \in BOOLEAN
        /\ refused \subseteq Process
        /\ \A p \in Process : log[p].seq <= Len(file)
    BY LenProperties DEF TypeInv, TypeOK
  <1>1. ASSUME NEW p \in Process, Open(p) PROVE TypeInv'
    <2>1. Opened(Len(file), LastHash(file)) \in Log
      BY <1>0, LastHashType DEF Opened, Log, State
    <2>2. \/ log' = [log EXCEPT ![p] = Opened(Len(file), LastHash(file))]
          \/ log' = log
      BY <1>1 DEF Open
    <2>3. log' \in [Process -> Log] /\ \A q \in Process : log'[q] = log[q] \/
                             log'[q] = Opened(Len(file), LastHash(file))
      BY <1>0, <2>1, <2>2
    <2>4. UNCHANGED <<file, synced, acked, early>> /\ refused' \subseteq Process
          /\ troubled' \in BOOLEAN
      BY <1>0, <1>1 DEF Open, AllClosed
    <2>5. Counted' /\ \A q \in Process : log'[q].seq <= Len(file')
      BY <1>0, <2>3, <2>4 DEF TypeInv, Counted, Opened
    <2> QED BY <1>0, <2>3, <2>4, <2>5 DEF TypeInv, TypeOK
  <1>2. ASSUME NEW p \in Process, NEW body \in Body, Write(p, body)
        PROVE  TypeInv'
    <2>1. log[p] \in Log /\ log[p].seq \in Nat
      BY <1>0 DEF Log
    <2>2. /\ file' = Append(file, EntryOf(p, body)) /\ Len(file) < MaxWrites
          /\ log[p].at = "idle"
          /\ log' = [log EXCEPT ![p].at = "written", ![p].next = EntryOf(p, body).hash]
          /\ UNCHANGED <<synced, acked, early, troubled, refused>>
      BY <1>2 DEF Write
    <2>3. /\ file' \in Seq(Entry) /\ Len(file') = Len(file) + 1
          /\ Len(file') <= MaxWrites /\ synced \in 0..Len(file')
          /\ \A q \in Process : log[q].seq <= Len(file')
      BY <2>1, <2>2, EntryOfType, AppendTypes
    <2>4. log' \in [Process -> Log]
      BY <1>0, <2>1, <2>2, EntryOfType DEF Log, State
    <2>5. /\ log'[p].at = "written" /\ log'[p].seq = log[p].seq
          /\ \A q \in Process \ {p} : log'[q] = log[q]
      BY <1>0, <2>1, <2>2 DEF Log
    <2>6. \A q \in Process : log[q].seq \in Nat
      BY <1>0 DEF Log
    <2>7. Counted'
      BY <1>0, <2>2, <2>3, <2>5, <2>6 DEF TypeInv, Counted
    <2>8. \A q \in Process : log'[q].seq <= Len(file')
      BY <2>3, <2>5
    <2> QED BY <1>0, <2>2, <2>3, <2>4, <2>7, <2>8 DEF TypeInv, TypeOK
  <1>3. ASSUME NEW p \in Process, NEW body \in Body, WriteFails(p, body)
        PROVE  TypeInv'
    <2>1. log[p] \in Log
      BY <1>0
    <2>2. PICK left \in CutShort(EntryOf(p, body)) : file' = Append(file, left)
      BY <1>3 DEF WriteFails
    <2>3. left \in Entry
      BY <2>1, EntryOfType, CutShortType
    <2>4. /\ Len(file) < MaxWrites /\ troubled' = TRUE
          /\ UNCHANGED <<synced, log, acked, early, refused>>
      BY <1>3 DEF WriteFails
    <2>5. /\ file' \in Seq(Entry) /\ Len(file') = Len(file) + 1
          /\ Len(file') <= MaxWrites /\ synced \in 0..Len(file')
          /\ \A q \in Process : log[q].seq <= Len(file')
      BY <2>2, <2>3, <2>4, AppendTypes
    <2>6. \A q \in Process : log[q].seq \in Nat
      BY <1>0 DEF Log
    <2>7. Counted'
      BY <1>0, <2>4, <2>5, <2>6 DEF TypeInv, Counted
    <2> QED BY <1>0, <2>4, <2>5, <2>7 DEF TypeInv, TypeOK
  <1>4. ASSUME NEW p \in Process, Sync(p) PROVE TypeInv'
    <2>1. log[p] \in Log /\ log[p].seq \in Nat /\ log[p].next \in Hash
      BY <1>0 DEF Log
    <2>2. /\ log[p].at = "written" /\ synced' = Len(file)
          /\ log' = [log EXCEPT ![p] = Opened(log[p].seq + 1, log[p].next)]
          /\ UNCHANGED <<file, troubled, refused>>
      BY <1>4 DEF Sync
    <2>3. acked' \subseteq Hash /\ early' \subseteq acked'
      BY <1>0, <1>4, <2>1 DEF Sync, Acknowledge
    <2>4. log' \in [Process -> Log]
      <3>1. Opened(log[p].seq + 1, log[p].next) \in Log
        BY <2>1 DEF Opened, Log, State
      <3> QED BY <1>0, <2>2, <3>1
    <2>5. /\ log'[p].at = "idle" /\ log'[p].seq = log[p].seq + 1
          /\ \A q \in Process \ {p} : log'[q] = log[q]
      BY <1>0, <2>2 DEF Opened
    <2>6. log[p].seq + 1 <= Len(file)
      BY <2>2 DEF TypeInv, Counted
    <2>7. Counted' /\ \A q \in Process : log'[q].seq <= Len(file')
      BY <1>0, <2>2, <2>5, <2>6 DEF TypeInv, Counted
    <2> QED BY <1>0, <2>2, <2>3, <2>4, <2>7 DEF TypeInv, TypeOK
  <1>5. ASSUME NEW p \in Process, SyncFails(p) PROVE TypeInv'
    <2>1. log[p] \in Log /\ log[p].seq \in Nat /\ log[p].last \in Hash
      BY <1>0 DEF Log
    <2>2. /\ log[p].at = "written" /\ troubled' = TRUE
          /\ log' = [log EXCEPT ![p] = Opened(log[p].seq, log[p].last)]
          /\ UNCHANGED <<file, synced, acked, early, refused>>
      BY <1>5 DEF SyncFails
    <2>3. log' \in [Process -> Log]
      <3>1. Opened(log[p].seq, log[p].last) \in Log
        BY <2>1 DEF Opened, Log, State
      <3> QED BY <1>0, <2>2, <3>1
    <2>4. /\ log'[p].at = "idle" /\ log'[p].seq = log[p].seq
          /\ \A q \in Process \ {p} : log'[q] = log[q]
      BY <1>0, <2>2 DEF Opened
    <2>5. Counted' /\ \A q \in Process : log'[q].seq <= Len(file')
      BY <1>0, <2>2, <2>4 DEF TypeInv, Counted
    <2> QED BY <1>0, <2>2, <2>3, <2>5 DEF TypeInv, TypeOK
  <1>6. ASSUME NEW p \in Process, Exit(p) PROVE TypeInv'
    <2>1. /\ log' = [log EXCEPT ![p] = Closed]
          /\ UNCHANGED <<file, synced, acked, early, troubled, refused>>
      BY <1>6 DEF Exit
    <2>2. Closed \in Log /\ Closed.at = "closed" /\ Closed.seq = 0
      BY GenesisType DEF Closed, Log, State
    <2>3. log' \in [Process -> Log]
      BY <1>0, <2>1, <2>2
    <2>4. /\ log'[p].at = "closed" /\ log'[p].seq = 0
          /\ \A q \in Process \ {p} : log'[q] = log[q]
      BY <1>0, <2>1, <2>2
    <2>5. Counted' /\ \A q \in Process : log'[q].seq <= Len(file')
      BY <1>0, <2>1, <2>4 DEF TypeInv, Counted
    <2> QED BY <1>0, <2>1, <2>3, <2>5 DEF TypeInv, TypeOK
  <1>7. CASE PowerLoss
    <2>1. PICK n \in synced..Len(file) :
            \/ file' = SubSeq(file, 1, n)
            \/ /\ n < Len(file)
               /\ \E left \in CutShort(file[n + 1]) :
                    file' = Append(SubSeq(file, 1, n), left)
      BY <1>7 DEF PowerLoss
    <2>2. n \in 0..Len(file)
      BY <1>0
    <2>3. SubSeq(file, 1, n) \in Seq(Entry) /\ Len(SubSeq(file, 1, n)) = n
      BY <1>0, <2>2, PrefixFacts
    <2>4. file' \in Seq(Entry) /\ Len(file') \in 0..Len(file)
      <3>1. CASE file' = SubSeq(file, 1, n)
        BY <2>2, <2>3, <3>1
      <3>2. ASSUME n < Len(file), NEW left \in CutShort(file[n + 1]),
                   file' = Append(SubSeq(file, 1, n), left)
            PROVE  file' \in Seq(Entry) /\ Len(file') \in 0..Len(file)
        <4>1. file[n + 1] \in Entry
          BY <1>0, <2>2, <3>2, ElementOfSeq
        <4>2. left \in Entry
          BY <4>1, CutShortType
        <4>3. file' \in Seq(Entry) /\ Len(file') = n + 1
          BY <2>3, <3>2, <4>2, AppendProperties
        <4> QED BY <1>0, <2>2, <3>2, <4>3
      <3> QED BY <2>1, <3>1, <3>2
    <2>5. /\ log' = [p \in Process |-> Closed] /\ UNCHANGED <<acked, early, refused>>
          /\ synced' = Len(file') /\ troubled' \in BOOLEAN
      BY <1>0, <1>7 DEF PowerLoss
    <2>6. log' \in [Process -> Log] /\ Counted'
          /\ \A q \in Process : log'[q].seq <= Len(file')
      BY <2>4, <2>5, GenesisType DEF Closed, Log, State, Counted
    <2>7. Len(file') <= MaxWrites
      BY <1>0, <2>4, AuditAssumption DEF TypeInv, TypeOK
    <2>8. /\ synced' \in 0..Len(file')
          /\ acked' \subseteq Hash /\ early' \subseteq acked'
          /\ refused' \subseteq Process
      BY <2>4, <2>5 DEF TypeInv, TypeOK
    <2> QED BY <2>4, <2>5, <2>6, <2>7, <2>8 DEF TypeInv, TypeOK
  <1>8. CASE UNCHANGED vars
    BY <1>8 DEF TypeInv, TypeOK, Counted, vars
  <1> QED BY <1>1, <1>2, <1>3, <1>4, <1>5, <1>6, <1>7, <1>8 DEF Next

LEMMA AlwaysTypeInv == Spec => []TypeInv
  BY InitTypeInv, NextTypeInv, PTL DEF Spec

\* The log is well typed, and no process believes in more entries than there
\* are writes in the file, whichever faults occur and however many processes share it.
THEOREM TypeCorrect == Spec => []TypeOK
  <1>1. TypeInv => TypeOK
    BY DEF TypeInv
  <1> QED BY <1>1, AlwaysTypeInv, PTL

-----------------------------------------------------------------------------
\* What is on stable storage stays.

LEMMA SamePrefix ==
  ASSUME NEW f \in Seq(Entry), NEW g \in Seq(Entry),
         NEW n \in 0..Len(f), n <= Len(g),
         \A i \in 1..n : f[i] = g[i]
  PROVE  SubSeq(g, 1, n) = SubSeq(f, 1, n)
  <1>1. n \in 0..Len(g)
    BY LenProperties
  <1> QED BY <1>1, PrefixFacts, SeqEqual


\* An append leaves every prefix of the file as it was.
LEMMA AppendKeeps ==
  ASSUME NEW f \in Seq(Entry), NEW e \in Entry, NEW n \in 0..Len(f)
  PROVE  n <= Len(Append(f, e)) /\ SubSeq(Append(f, e), 1, n) = SubSeq(f, 1, n)
  <1> DEFINE g == Append(f, e)
  <1>1. /\ g \in Seq(Entry) /\ Len(g) = Len(f) + 1 /\ Len(f) \in Nat
        /\ \A i \in 1..Len(f) : g[i] = f[i]
    BY AppendProperties, LenProperties
  <1> HIDE DEF g
  <1>2. n <= Len(g) /\ \A i \in 1..n : f[i] = g[i]
    BY <1>1
  <1> QED BY <1>1, <1>2, SamePrefix DEF g

\* No step changes what is synced, or takes the mark of the synced writes back.
LEMMA SyncedKept ==
  ASSUME TypeInv, [Next]_vars
  PROVE  /\ synced' \in Nat /\ synced <= synced'
         /\ \A n \in 0..synced :
              n <= Len(file') /\ SubSeq(file', 1, n) = SubSeq(file, 1, n)
  <1> DEFINE Kept == /\ synced' \in Nat /\ synced <= synced'
                     /\ \A n \in 0..synced :
                          n <= Len(file') /\ SubSeq(file', 1, n) = SubSeq(file, 1, n)
  <1>0. /\ file \in Seq(Entry) /\ Len(file) \in Nat /\ synced \in 0..Len(file)
        /\ log \in [Process -> Log] /\ synced' \in Nat
        /\ \A n \in 0..synced : n \in 0..Len(file)
    <2>1. TypeInv'
      BY NextTypeInv
    <2> QED BY <2>1, LenProperties DEF TypeInv, TypeOK
  <1>1. ASSUME UNCHANGED file, synced <= synced' PROVE Kept
    BY <1>0, <1>1
  <1>2. ASSUME NEW e \in Entry, file' = Append(file, e), UNCHANGED synced PROVE Kept
    BY <1>0, <1>2, AppendKeeps
  <1>3. ASSUME NEW p \in Process, NEW body \in Body, Write(p, body) PROVE Kept
    <2>1. EntryOf(p, body) \in Entry
      BY <1>0, EntryOfType
    <2> HIDE DEF Kept
    <2> QED BY <1>2, <1>3, <2>1 DEF Write
  <1>4. ASSUME NEW p \in Process, NEW body \in Body, WriteFails(p, body) PROVE Kept
    <2>1. PICK left \in CutShort(EntryOf(p, body)) : file' = Append(file, left)
      BY <1>4 DEF WriteFails
    <2>2. left \in Entry
      BY <1>0, EntryOfType, CutShortType
    <2> HIDE DEF Kept
    <2> QED BY <1>2, <1>4, <2>1, <2>2 DEF WriteFails
  <1>5. ASSUME NEW p \in Process, Open(p) \/ Sync(p) \/ SyncFails(p) \/ Exit(p)
        PROVE  Kept
    <2>1. UNCHANGED file /\ synced <= synced'
      BY <1>0, <1>5 DEF Open, Sync, SyncFails, Exit
    <2> HIDE DEF Kept
    <2> QED BY <1>1, <2>1
  <1>6. CASE PowerLoss
    <2>1. PICK k \in synced..Len(file) :
            \/ file' = SubSeq(file, 1, k)
            \/ /\ k < Len(file)
               /\ \E left \in CutShort(file[k + 1]) :
                    file' = Append(SubSeq(file, 1, k), left)
      BY <1>6 DEF PowerLoss
    <2> DEFINE g == SubSeq(file, 1, k)
    <2>2. k \in 0..Len(file) /\ synced <= k
      BY <1>0
    <2>3. g \in Seq(Entry) /\ Len(g) = k /\ \A i \in 1..k : g[i] = file[i]
      BY <1>0, <2>2, PrefixFacts
    <2> HIDE DEF g
    <2>4. \A n \in 0..synced :
            n \in 0..Len(g) /\ n <= Len(g) /\ SubSeq(g, 1, n) = SubSeq(file, 1, n)
      <3> SUFFICES ASSUME NEW n \in 0..synced
                   PROVE  /\ n \in 0..Len(g) /\ n <= Len(g)
                          /\ SubSeq(g, 1, n) = SubSeq(file, 1, n)
        OBVIOUS
      <3>1. n \in 0..Len(file) /\ n \in 0..Len(g) /\ \A i \in 1..n : file[i] = g[i]
        BY <1>0, <2>2, <2>3
      <3> QED BY <1>0, <2>3, <3>1, SamePrefix
    <2>5. synced' = Len(file')
      BY <1>6 DEF PowerLoss
    <2>6. CASE file' = g
      BY <1>0, <2>2, <2>3, <2>4, <2>5, <2>6
    <2>7. ASSUME k < Len(file), NEW left \in CutShort(file[k + 1]), file' = Append(g, left)
          PROVE  Kept
      <3>1. file[k + 1] \in Entry
        BY <1>0, <2>2, <2>7, ElementOfSeq
      <3>2. left \in Entry
        BY <3>1, CutShortType
      <3>3. Len(file') = k + 1
        BY <2>3, <2>7, <3>2, AppendProperties
      <3>4. \A n \in 0..synced :
              n <= Len(file') /\ SubSeq(file', 1, n) = SubSeq(g, 1, n)
        BY <2>3, <2>4, <2>7, <3>2, AppendKeeps
      <3> QED BY <1>0, <2>2, <2>4, <2>5, <3>3, <3>4
    <2> QED BY <2>1, <2>6, <2>7 DEF g
  <1>7. CASE UNCHANGED vars
    BY <1>0, <1>1, <1>7 DEF vars
  <1> QED BY <1>3, <1>4, <1>5, <1>6, <1>7 DEF Next

\* Evidence on stable storage up to the first bad line, or to a last line that
\* lacks its newline, is permanent, for any combination of faults - a write cut
\* at any byte among them - and any number of processes sharing the file.
THEOREM EvidencePermanent == Spec => EvidenceKept
  <1> DEFINE Kept == \A n \in 0..synced : Evidence(file, n) =>
                       n <= Len(file') /\ SubSeq(file', 1, n) = SubSeq(file, 1, n)
  <1>1. TypeInv /\ [Next]_vars => [Kept]_vars
    BY SyncedKept
  <1> QED BY <1>1, AlwaysTypeInv, PTL DEF Spec, EvidenceKept

-----------------------------------------------------------------------------
\* Up to the first disk fault, and with one process at a time.

\* The hash of the i-th line digests i records.
HashDepth(f) == \A i \in 1..Len(f) : Len(f[i].hash) = i

Lines(f) == \A i \in 1..Len(f) : f[i].form = "line"

Chain(f) == Verifies(f) /\ HashDepth(f) /\ Lines(f)

\* At most one process has the log open, and its seq and last describe the
\* file: exactly what Open read, moved on by every Record since.
InStep ==
  /\ \A p, q \in Process :
       log[p].at # "closed" /\ log[q].at # "closed" => p = q
  /\ \A p \in Process : log[p].at = "idle" =>
       log[p].seq = Len(file) /\ log[p].last = LastHash(file)
  /\ \A p \in Process : log[p].at = "written" =>
       log[p].seq + 1 = Len(file) /\ log[p].next = LastHash(file)

ChainInv == ~troubled => Chain(file) /\ InStep /\ refused = {}

LEMMA LastHashDepth ==
  ASSUME NEW f \in Seq(Entry), HashDepth(f)
  PROVE  Len(LastHash(f)) = Len(f)
  BY GenesisType, LenProperties DEF HashDepth, LastHash, HashBefore

\* A chain extended by the entry its end calls for is a chain.
LEMMA ChainExtends ==
  ASSUME NEW f \in Seq(Entry), Chain(f), NEW b \in Body
  PROVE  LET e == NewEntry(Len(f) + 1, b, LastHash(f))
             g == Append(f, e)
         IN  Chain(g) /\ LastHash(g) = e.hash
  <1> DEFINE e == NewEntry(Len(f) + 1, b, LastHash(f))
             g == Append(f, e)
  <1>1. Len(f) \in Nat /\ LastHash(f) \in Hash
    BY LenProperties, LastHashType
  <1>2. e \in Entry
    BY <1>1, DigestType DEF NewEntry, Entry, Form
  <1>3. /\ e.form = "line" /\ e.seq = Len(f) + 1 /\ e.prev = LastHash(f)
        /\ e.hash = Digest(e.seq, e.body, e.prev)
    BY DEF NewEntry
  <1>4. Len(e.hash) = Len(f) + 1
    BY <1>1, DigestType, LastHashDepth DEF NewEntry, Chain
  <1> HIDE DEF e
  <1>5. /\ g \in Seq(Entry) /\ Len(g) = Len(f) + 1
        /\ \A i \in 1..Len(f) : g[i] = f[i]
        /\ g[Len(f) + 1] = e
    BY <1>1, <1>2, AppendProperties
  <1> HIDE DEF g
  <1>6. Lines(g)
    BY <1>1, <1>3, <1>5 DEF Chain, Lines
  <1>7. Verifies(g)
    <2> SUFFICES ASSUME NEW i \in 1..Len(g) PROVE LineOK(g, i)
      BY DEF Verifies
    <2>0. WholeLine(g, i)
      BY <1>6 DEF Lines, WholeLine
    <2>1. CASE i \in 1..Len(f)
      <3>1. LineOK(f, i)
        BY <2>1 DEF Chain, Verifies
      <3>2. HashBefore(g, i) = HashBefore(f, i)
        BY <1>1, <1>5, <2>1 DEF HashBefore
      <3> QED BY <1>5, <2>0, <2>1, <3>1, <3>2 DEF LineOK
    <2>2. CASE i = Len(f) + 1
      <3>1. HashBefore(g, i) = LastHash(f)
        BY <1>1, <1>5, <2>2 DEF HashBefore, LastHash
      <3> QED BY <1>3, <1>5, <2>0, <2>2, <3>1 DEF LineOK
    <2> QED BY <1>1, <1>5, <2>1, <2>2
  <1>8. HashDepth(g)
    BY <1>1, <1>4, <1>5 DEF Chain, HashDepth
  <1>9. LastHash(g) = e.hash
    BY <1>1, <1>5 DEF LastHash, HashBefore
  <1> QED BY <1>6, <1>7, <1>8, <1>9 DEF Chain, e, g

LEMMA ChainPrefix ==
  ASSUME NEW f \in Seq(Entry), Chain(f), NEW n \in 0..Len(f)
  PROVE  Chain(SubSeq(f, 1, n)) /\ Evidence(f, n)
  <1> DEFINE g == SubSeq(f, 1, n)
  <1>1. Len(g) = n /\ \A i \in 1..n : g[i] = f[i]
    BY PrefixFacts
  <1>2. Len(f) \in Nat /\ \A i \in 1..n : i \in 1..Len(f)
    BY LenProperties
  <1> HIDE DEF g
  <1>3. HashDepth(g) /\ Lines(g)
    BY <1>1, <1>2 DEF Chain, HashDepth, Lines
  <1>4. ASSUME NEW i \in 1..n PROVE LineOK(g, i)
    <2>1. LineOK(f, i)
      BY <1>2 DEF Chain, Verifies
    <2>2. HashBefore(g, i) = HashBefore(f, i)
      BY <1>1 DEF HashBefore
    <2>3. WholeLine(g, i)
      BY <1>1, <1>3 DEF Lines, WholeLine
    <2> QED BY <1>1, <2>1, <2>2, <2>3 DEF LineOK
  <1>5. n > 0 => f[n].form = "line"
    BY <1>2 DEF Chain, Lines
  <1> QED BY <1>1, <1>3, <1>4, <1>5 DEF Chain, Verifies, Evidence, g

LEMMA InitChainInv == Init => ChainInv
  BY EmptySeq DEF Init, ChainInv, Chain, Verifies, HashDepth, Lines, InStep, Closed

LEMMA NextChainInv == TypeInv /\ ChainInv /\ [Next]_vars => ChainInv'
  <1> SUFFICES ASSUME TypeInv, ChainInv, [Next]_vars, ~troubled' PROVE ChainInv'
    BY DEF ChainInv
  <1>0. /\ file \in Seq(Entry) /\ Len(file) \in Nat
        /\ synced \in 0..Len(file) /\ log \in [Process -> Log]
    BY LenProperties DEF TypeInv, TypeOK
  <1>h. ~troubled
    BY DEF Next, Open, Write, WriteFails, Sync, SyncFails, Exit, PowerLoss, vars
  <1>c. Chain(file) /\ InStep /\ refused = {}
    BY <1>h DEF ChainInv
  <1>1. ASSUME NEW p \in Process, Open(p) PROVE ChainInv'
    <2>1. AllClosed
      BY <1>1 DEF Open
    <2>2. /\ log' = [log EXCEPT ![p] = Opened(Len(file), LastHash(file))]
          /\ refused' = {} /\ UNCHANGED file
      BY <1>c, <1>1 DEF Open, Chain
    <2>3. /\ log'[p].at = "idle" /\ log'[p].seq = Len(file)
          /\ log'[p].last = LastHash(file)
          /\ \A q \in Process \ {p} : log'[q].at = "closed"
      BY <1>0, <2>1, <2>2 DEF Opened, AllClosed
    <2>4. InStep'
      BY <2>2, <2>3 DEF InStep, LastHash, HashBefore
    <2>5. Chain(file')
      BY <1>c, <2>2
    <2> QED BY <2>2, <2>4, <2>5 DEF ChainInv
  <1>2. ASSUME NEW p \in Process, NEW body \in Body, Write(p, body)
        PROVE  ChainInv'
    <2> DEFINE e == NewEntry(Len(file) + 1, body, LastHash(file))
    <2>1. /\ log[p].at = "idle" /\ log[p].seq = Len(file)
          /\ log[p].last = LastHash(file)
      BY <1>c, <1>2 DEF Write, InStep
    <2>2. /\ file' = Append(file, e) /\ UNCHANGED refused
          /\ log' = [log EXCEPT ![p].at = "written", ![p].next = e.hash]
      BY <1>2, <2>1 DEF Write, EntryOf
    <2>3. Chain(file') /\ LastHash(file') = e.hash
      BY <1>0, <1>c, <2>2, ChainExtends
    <2>4. Len(file') = Len(file) + 1
      BY <1>0, <2>2, LastHashType, DigestType, AppendProperties DEF NewEntry
    <2> HIDE DEF e
    <2>5. /\ log'[p].at = "written" /\ log'[p].seq = Len(file)
          /\ log'[p].next = e.hash
          /\ \A q \in Process \ {p} : log'[q] = log[q]
      BY <1>0, <2>1, <2>2 DEF Log
    <2>6. \A q \in Process \ {p} : log[q].at = "closed"
      BY <1>c, <2>1 DEF InStep
    <2>7. InStep'
      BY <2>3, <2>4, <2>5, <2>6 DEF InStep
    <2> QED BY <1>c, <2>2, <2>3, <2>7 DEF ChainInv
  <1>3. ASSUME NEW p \in Process, NEW body \in Body, WriteFails(p, body) PROVE ChainInv'
    BY <1>3 DEF WriteFails
  <1>4. ASSUME NEW p \in Process, Sync(p) PROVE ChainInv'
    <2>1. /\ log[p].at = "written"
          /\ log' = [log EXCEPT ![p] = Opened(log[p].seq + 1, log[p].next)]
          /\ UNCHANGED <<file, refused>>
      BY <1>4 DEF Sync
    <2>2. log[p].seq + 1 = Len(file) /\ log[p].next = LastHash(file)
      BY <1>c, <2>1 DEF InStep
    <2>3. /\ log'[p].at = "idle" /\ log'[p].seq = Len(file)
          /\ log'[p].last = LastHash(file)
          /\ \A q \in Process \ {p} : log'[q] = log[q]
      BY <1>0, <2>1, <2>2 DEF Opened
    <2>4. \A q \in Process \ {p} : log[q].at = "closed"
      BY <1>c, <2>1 DEF InStep
    <2>5. LastHash(file') = LastHash(file) /\ Len(file') = Len(file)
      BY <2>1 DEF LastHash, HashBefore
    <2>6. InStep'
      BY <2>3, <2>4, <2>5 DEF InStep
    <2>7. Chain(file')
      BY <1>c, <2>1
    <2> QED BY <1>c, <2>1, <2>6, <2>7 DEF ChainInv
  <1>5. ASSUME NEW p \in Process, SyncFails(p) PROVE ChainInv'
    BY <1>5 DEF SyncFails
  <1>6. ASSUME NEW p \in Process, Exit(p) PROVE ChainInv'
    <2>1. /\ log' = [log EXCEPT ![p] = Closed]
          /\ UNCHANGED <<file, refused>>
      BY <1>6 DEF Exit
    <2>2. /\ log'[p].at = "closed"
          /\ \A q \in Process \ {p} : log'[q] = log[q]
      BY <1>0, <2>1 DEF Closed
    <2>3. InStep'
      BY <1>c, <2>1, <2>2 DEF InStep, LastHash, HashBefore
    <2>4. Chain(file')
      BY <1>c, <2>1
    <2> QED BY <1>c, <2>1, <2>3, <2>4 DEF ChainInv
  <1>7. CASE PowerLoss
    <2>1. PICK n \in synced..Len(file) : file' = SubSeq(file, 1, n)
      BY <1>7 DEF PowerLoss
    <2>2. n \in 0..Len(file)
      BY <1>0
    <2>3. Chain(file')
      BY <1>0, <1>c, <2>1, <2>2, ChainPrefix
    <2>4. log' = [p \in Process |-> Closed] /\ UNCHANGED refused
      BY <1>7 DEF PowerLoss
    <2>5. InStep'
      BY <2>4 DEF InStep, Closed
    <2> QED BY <1>c, <2>3, <2>4, <2>5 DEF ChainInv
  <1>8. CASE UNCHANGED vars
    <2>1. UNCHANGED <<file, log, refused>>
      BY <1>8 DEF vars
    <2>2. Chain(file') /\ InStep'
      BY <1>c, <2>1 DEF InStep, LastHash, HashBefore
    <2> QED BY <1>c, <2>1, <2>2 DEF ChainInv
  <1> QED BY <1>1, <1>2, <1>3, <1>4, <1>5, <1>6, <1>7, <1>8 DEF Next

LEMMA AlwaysChainInv == Spec => []ChainInv
  BY NextChainInv, InitChainInv, AlwaysTypeInv, PTL DEF Spec

\* Until a disk fault, or two processes with the log open at once, the chain
\* verifies at every moment, across crashes, power loss and any reopenings.
THEOREM SerialChain == Spec => []ChainSound
  <1>1. ChainInv => ChainSound
    BY DEF ChainInv, Chain, ChainSound, ChainVerifies
  <1> QED BY <1>1, AlwaysChainInv, PTL

\* ... so that no process is refused its log before then: what keeps teardown
\* out is a fault of the disk, or a second writer.
THEOREM LogOpens == Spec => [](~troubled => RecoveryOpens)
  <1>1. ChainInv => (~troubled => RecoveryOpens)
    BY DEF ChainInv, RecoveryOpens
  <1> QED BY <1>1, AlwaysChainInv, PTL

LEMMA NextAcked == TypeInv /\ ChainInv /\ AckedSurvive /\ [Next]_vars => AckedSurvive'
  <1> SUFFICES ASSUME TypeInv, ChainInv, AckedSurvive, [Next]_vars, NEW h \in early'
               PROVE  \E i \in 1..synced' :
                        Evidence(file', i) /\ file'[i].hash = h /\ Len(h) = i
    BY DEF AckedSurvive
  <1>0. /\ file \in Seq(Entry) /\ Len(file) \in Nat
        /\ file' \in Seq(Entry) /\ Len(file') \in Nat
        /\ synced \in 0..Len(file) /\ log \in [Process -> Log]
    BY NextTypeInv, LenProperties DEF TypeInv, TypeOK
  <1>1. CASE h \in early
    <2>1. PICK i \in 1..synced : Evidence(file, i) /\ file[i].hash = h /\ Len(h) = i
      BY <1>1 DEF AckedSurvive
    <2>2. /\ i \in 0..synced /\ i \in 1..synced'
          /\ i <= Len(file') /\ SubSeq(file', 1, i) = SubSeq(file, 1, i)
      BY <1>0, SyncedKept
    <2>3. i \in 0..Len(file) /\ i \in 0..Len(file') /\ i \in 1..i
      BY <1>0, <2>2
    <2>4. file'[i] = file[i]
      BY <1>0, <2>2, <2>3, PrefixFacts
    <2>5. Evidence(file', i)
      BY <2>1, <2>2, <2>4 DEF Evidence
    <2> QED BY <2>1, <2>2, <2>4, <2>5
  <1>2. CASE h \notin early
    <2>1. PICK p \in Process : Sync(p) /\ ~troubled /\ h = log[p].next
      BY <1>2 DEF Next, Open, Write, WriteFails, Sync, Acknowledge, SyncFails, Exit,
                  PowerLoss, vars
    <2>2. UNCHANGED file /\ synced' = Len(file) /\ log[p].at = "written"
      BY <2>1 DEF Sync
    <2>3. /\ Chain(file) /\ log[p].seq + 1 = Len(file) /\ h = LastHash(file)
      BY <2>1, <2>2 DEF ChainInv, InStep
    <2>4. log[p].seq \in Nat
      BY <1>0 DEF Log
    <2>5. Len(file) \in 1..Len(file) /\ file[Len(file)].hash = h
      BY <1>0, <2>3, <2>4 DEF LastHash, HashBefore
    <2>6. Len(h) = Len(file)
      BY <1>0, <2>3, LastHashDepth DEF Chain
    <2>7. Evidence(file, Len(file))
      BY <1>0, <2>3, ChainPrefix
    <2> QED BY <2>2, <2>5, <2>6, <2>7
  <1> QED BY <1>1, <1>2

\* What was acknowledged before the first trouble is never lost, displaced or
\* made unverifiable, whatever faults and second processes come after it.
THEOREM AckedPermanent == Spec => []AckedSurvive
  <1>1. Init => AckedSurvive
    BY DEF Init, AckedSurvive
  <1> QED BY <1>1, NextAcked, AlwaysTypeInv, AlwaysChainInv, PTL DEF Spec

-----------------------------------------------------------------------------
\* Faults and damage.

\* Every line is a whole entry that carries its own hash, in whatever order.
Whole(f) ==
  \A i \in 1..Len(f) :
    f[i].form = "line" /\ f[i].hash = Digest(f[i].seq, f[i].body, f[i].prev)

\* What was acknowledged is on stable storage; what was written, in the file.
Stored ==
  /\ Whole(file)
  /\ \A h \in acked : \E i \in 1..synced : file[i].hash = h
  /\ \A p \in Process : log[p].at = "written" =>
       \E i \in 1..Len(file) : file[i].hash = log[p].next

LEMMA NextStored ==
  ASSUME "torn" \notin Faults
  PROVE  TypeInv /\ Stored /\ [Next]_vars => Stored'
  <1> SUFFICES ASSUME TypeInv, Stored, [Next]_vars PROVE Stored'
    OBVIOUS
  <1>0. /\ file \in Seq(Entry) /\ Len(file) \in Nat
        /\ synced \in 0..Len(file)
        /\ log \in [Process -> Log]
    BY LenProperties DEF TypeInv, TypeOK
  <1>1. ASSUME NEW p \in Process, Open(p) \/ SyncFails(p) \/ Exit(p) PROVE Stored'
    <2>1. UNCHANGED <<file, synced, acked>>
      BY <1>1 DEF Open, SyncFails, Exit
    <2>2. \A q \in Process : log'[q].at = "written" => log'[q] = log[q]
      BY <1>0, <1>1 DEF Open, SyncFails, Exit, Opened, Closed
    <2> QED BY <2>1, <2>2 DEF Stored, Whole
  <1>2. ASSUME NEW p \in Process, NEW body \in Body, Write(p, body) PROVE Stored'
    <2> DEFINE e == EntryOf(p, body)
    <2>1. e \in Entry /\ e.form = "line" /\ e.hash = Digest(e.seq, e.body, e.prev)
      BY <1>0, EntryOfType
    <2>2. /\ file' = Append(file, e)
          /\ log' = [log EXCEPT ![p].at = "written", ![p].next = e.hash]
          /\ UNCHANGED <<synced, acked>>
      BY <1>2 DEF Write
    <2> HIDE DEF e
    <2>5. /\ Len(file') = Len(file) + 1 /\ file'[Len(file) + 1] = e
          /\ \A i \in 1..Len(file) : file'[i] = file[i]
      BY <1>0, <2>1, <2>2, AppendProperties
    <2>6. /\ log'[p].next = e.hash
          /\ \A q \in Process \ {p} : log'[q] = log[q]
      BY <1>0, <2>2 DEF Log
    <2>7. Whole(file')
      BY <1>0, <2>1, <2>5 DEF Stored, Whole
    <2>8. \A h \in acked' : \E i \in 1..synced' : file'[i].hash = h
      BY <1>0, <2>2, <2>5 DEF Stored
    <2>9. ASSUME NEW q \in Process, log'[q].at = "written"
          PROVE  \E i \in 1..Len(file') : file'[i].hash = log'[q].next
      <3>1. CASE q = p
        BY <1>0, <2>5, <2>6, <3>1
      <3>2. CASE q # p
        BY <1>0, <2>5, <2>6, <2>9, <3>2 DEF Stored
      <3> QED BY <3>1, <3>2
    <2> QED BY <2>7, <2>8, <2>9 DEF Stored
  <1>3. ASSUME NEW p \in Process, Sync(p) PROVE Stored'
    <2>1. /\ log[p].at = "written" /\ synced' = Len(file)
          /\ log' = [log EXCEPT ![p] = Opened(log[p].seq + 1, log[p].next)]
          /\ acked' = acked \cup {log[p].next} /\ UNCHANGED file
      BY <1>3 DEF Sync, Acknowledge
    <2>2. \A q \in Process : log'[q].at = "written" => log'[q] = log[q]
      BY <1>0, <2>1 DEF Opened
    <2>3. \A h \in acked' : \E i \in 1..Len(file) : file[i].hash = h
      BY <1>0, <2>1 DEF Stored
    <2> QED BY <2>1, <2>2, <2>3 DEF Stored, Whole
  <1>4. CASE PowerLoss
    <2>1. PICK n \in synced..Len(file) : file' = SubSeq(file, 1, n) /\ synced' = Len(file')
      BY <1>4 DEF PowerLoss
    <2>2. /\ n \in 0..Len(file) /\ Len(file') = n
          /\ \A i \in 1..n : file'[i] = file[i]
      BY <1>0, <2>1, PrefixFacts
    <2>3. UNCHANGED acked /\ \A q \in Process : log'[q].at = "closed"
      BY <1>4 DEF PowerLoss, Closed
    <2> QED BY <1>0, <2>1, <2>2, <2>3 DEF Stored, Whole
  <1>5. ASSUME NEW p \in Process, NEW body \in Body, WriteFails(p, body) PROVE Stored'
    BY <1>5 DEF WriteFails
  <1>6. CASE UNCHANGED vars
    BY <1>6 DEF vars, Stored, Whole
  <1> QED BY <1>1, <1>2, <1>3, <1>4, <1>5, <1>6 DEF Next

\* Only a torn write costs an acknowledged entry: without one, whoever shares the
\* file and however often a sync fails, each is on stable storage as a whole line
\* of its own hash - also where the chain around it no longer verifies.
THEOREM AckedStored ==
  ASSUME "torn" \notin Faults
  PROVE  Spec => [](\A h \in acked : \E i \in 1..synced :
                      /\ file[i].form = "line" /\ file[i].hash = h
                      /\ h = Digest(file[i].seq, file[i].body, file[i].prev))
  <1> DEFINE Kept == \A h \in acked : \E i \in 1..synced :
                       /\ file[i].form = "line" /\ file[i].hash = h
                       /\ h = Digest(file[i].seq, file[i].body, file[i].prev)
  <1>1. Init => Stored
    BY EmptySeq DEF Init, Stored, Whole, Closed
  <1>2. TypeInv /\ Stored /\ [Next]_vars => Stored'
    BY NextStored
  <1>3. TypeInv /\ Stored => Kept
    <2> SUFFICES ASSUME TypeInv, Stored, NEW h \in acked
                 PROVE  \E i \in 1..synced :
                          /\ file[i].form = "line" /\ file[i].hash = h
                          /\ h = Digest(file[i].seq, file[i].body, file[i].prev)
      OBVIOUS
    <2>1. PICK i \in 1..synced : file[i].hash = h
      BY DEF Stored
    <2>2. i \in 1..Len(file)
      BY LenProperties DEF TypeInv, TypeOK
    <2> QED BY <2>1, <2>2 DEF Stored, Whole
  <1>4. Spec => []Kept
    BY <1>1, <1>2, <1>3, AlwaysTypeInv, PTL DEF Spec
  <1> QED BY <1>4

LEMMA DigestInjective ==
  ASSUME NEW s \in Nat, NEW h \in Hash,
         NEW b \in Body \cup {NoBody}, NEW c \in Body \cup {NoBody},
         Digest(s, b, h) = Digest(s, c, h)
  PROVE  b = c
  <1> DEFINE S == Nat \X (Body \cup {NoBody})
  <1>1. h \in Seq(S)
    <2>1. Nat \X Body \subseteq S
      OBVIOUS
    <2> QED BY <2>1, SeqMonotonic DEF Hash
  <1>2. <<s, b>> \in S /\ <<s, c>> \in S
    OBVIOUS
  <1>3. <<s, b>> = <<s, c>>
    <2> HIDE DEF S
    <2> QED BY <1>1, <1>2, AppendProperties DEF Digest
  <1> QED BY <1>3

\* A log that verifies stops verifying when a line before the last is lost,
\* when the content of a line changes, and when two lines change places.
THEOREM DamageNoticed == Spec => []DamageDetected
  <1>1. TypeInv => DamageDetected
    <2> SUFFICES ASSUME TypeInv, Verifies(file), NEW i \in 1..Len(file)
                 PROVE  /\ i < Len(file) => ~Verifies(Without(file, i))
                        /\ \A body \in Body \ {file[i].body} :
                             ~Verifies(Altered(file, i, body))
                        /\ \A j \in 1..Len(file) \ {i} :
                             ~Verifies(Swapped(file, i, j))
      BY DEF DamageDetected
    <2>0. /\ file \in Seq(Entry) /\ Len(file) \in Nat
          /\ \A k \in 1..Len(file) : file[k] \in Entry /\ LineOK(file, k)
      BY LenProperties, ElementOfSeq DEF TypeInv, TypeOK, Verifies
    <2>1. ASSUME i < Len(file) PROVE ~Verifies(Without(file, i))
      <3> DEFINE s == SubSeq(file, 1, i - 1)
                 t == SubSeq(file, i + 1, Len(file))
      <3>1. /\ s \in Seq(Entry) /\ Len(s) = i - 1
        BY <2>0, PrefixFacts
      <3>2. \A k \in (i + 1)..Len(file) : file[k] \in Entry
        BY <2>0
      <3>3. /\ t \in Seq(Entry) /\ Len(t) = Len(file) - i
            /\ t[1] = file[i + 1]
        BY <2>0, <2>1, <3>2, SubSeqProperties
      <3> HIDE DEF s, t
      <3>4. Len(s \o t) = Len(file) - 1 /\ (s \o t)[i] = file[i + 1]
        <4>1. /\ Len(s \o t) = Len(s) + Len(t)
              /\ \A k \in 1..Len(s) + Len(t) :
                   (s \o t)[k] = IF k <= Len(s) THEN s[k] ELSE t[k - Len(s)]
          BY <3>1, <3>3, ConcatProperties
        <4>2. i \in 1..Len(s) + Len(t) /\ ~(i <= Len(s)) /\ i - Len(s) = 1
          BY <2>0, <2>1, <3>1, <3>3
        <4>3. (s \o t)[i] = t[1]
          BY <4>1, <4>2
        <4> QED BY <2>0, <3>1, <3>3, <4>1, <4>3
      <3>5. file[i + 1].seq = i + 1
        BY <2>0, <2>1 DEF LineOK
      <3>6. ~LineOK(s \o t, i)
        BY <2>0, <3>4, <3>5 DEF LineOK
      <3>7. i \in 1..Len(s \o t)
        BY <2>0, <2>1, <3>4
      <3> QED BY <3>6, <3>7 DEF Verifies, Without, s, t
    <2>2. ASSUME NEW body \in Body \ {file[i].body}
          PROVE  ~Verifies(Altered(file, i, body))
      <3> DEFINE g == Altered(file, i, body)
      <3>1. /\ file[i].seq \in Nat /\ file[i].prev \in Hash
            /\ file[i].body \in Body \cup {NoBody}
            /\ file[i].hash = Digest(file[i].seq, file[i].body, file[i].prev)
        BY <2>0 DEF LineOK, Entry
      <3>2. /\ Len(g) = Len(file)
            /\ g[i].seq = file[i].seq /\ g[i].prev = file[i].prev
            /\ g[i].hash = file[i].hash /\ g[i].body = body
        BY <2>0 DEF Altered, Entry
      <3>3. file[i].hash # Digest(file[i].seq, body, file[i].prev)
        BY <3>1, DigestInjective
      <3>4. ~LineOK(g, i)
        BY <3>2, <3>3 DEF LineOK
      <3> QED BY <3>2, <3>4 DEF Verifies
    <2>3. ASSUME NEW j \in 1..Len(file) \ {i}
          PROVE  ~Verifies(Swapped(file, i, j))
      <3> DEFINE g == Swapped(file, i, j)
      <3>1. Len(g) = Len(file) /\ g[i] = file[j]
        BY <2>0 DEF Swapped
      <3>2. file[j].seq = j
        BY <2>0 DEF LineOK
      <3>3. ~LineOK(g, i)
        BY <3>1, <3>2 DEF LineOK
      <3> QED BY <3>1, <3>3 DEF Verifies
    <2> QED BY <2>1, <2>2, <2>3
  <1> QED BY <1>1, AlwaysTypeInv, PTL

=============================================================================
