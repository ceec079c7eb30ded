---------------------------- MODULE DBImpl_proofs ----------------------------
(***************************************************************************)
(* TLAPS proofs about DBImpl, for any number of calls, failing operations  *)
(* of the file system and crashes: what was promised is on the disk at     *)
(* every step, sequence numbers follow the order of the calls, readers     *)
(* find their snapshot, and the database implements DurableStore.          *)
(***************************************************************************)
EXTENDS DBImpl, FiniteSetTheorems, SequenceTheorems, TLAPS

-----------------------------------------------------------------------------
(***************************************************************************)
(* What the proofs speak of.                                               *)
(***************************************************************************)

\* The MANIFEST that counts: its edits, how many of them are synced, and what
\* the first k amount to.
E == manifests[current].edits
Synced == manifests[current].durable
Ver(k) == VersionOf(SubSeq(E, 1, k))
Kept == Synced .. Len(E)

\* What is in a log, and what of it a failure of the machine leaves.
In(n) == EntriesIn(logs[n])
DurableIn(n) == UNION Range(SubSeq(logs[n].records, 1, logs[n].durable))
LogsFrom(l) == {n \in DOMAIN logs : n >= l}

\* What recovery finds, if k edits are left, with all of the logs or the least.
All(k) == EntriesOf(Ver(k)) \cup UNION {In(n) : n \in LogsFrom(E[k].log)}
Least(k) == EntriesOf(Ver(k)) \cup UNION {DurableIn(n) : n \in LogsFrom(E[k].log)}
OnDisk == All(Len(E))

Imm == UNION imm
Group == Range(leader.group)

\* The version the edit of the background thread makes, the tables it adds, and
\* the first log that is needed as far as memory knows.
After == Apply(version, bg.edit)
Added == [level0 |-> bg.edit.level0, base |-> bg.edit.base]
Noted == IF bg.phase = "install" THEN bg.edit.log ELSE logNumber

Versions == [level0 : SUBSET Nat, base : SUBSET Nat]

-----------------------------------------------------------------------------
(***************************************************************************)
(* The inductive invariant.                                                *)
(***************************************************************************)

DiskTypes ==
  /\ DOMAIN logs \subseteq Nat /\ DOMAIN tables \subseteq Nat /\ DOMAIN manifests \subseteq Nat
  /\ \A n \in DOMAIN logs :
       /\ logs[n] = [records |-> logs[n].records, durable |-> logs[n].durable]
       /\ logs[n].records \in Seq(SUBSET Entries)
       /\ logs[n].durable \in 0 .. Len(logs[n].records)
  /\ \A n \in DOMAIN tables : tables[n] \subseteq Entries
  /\ \A n \in DOMAIN manifests :
       /\ manifests[n] = [edits |-> manifests[n].edits, durable |-> manifests[n].durable]
       /\ manifests[n].edits \in Seq(Edits)
       /\ manifests[n].durable \in 1 .. Len(manifests[n].edits)
  /\ current \in DOMAIN manifests

CallTypes ==
  /\ calls \in 0 .. MaxWrites
  /\ kind \in [Ids -> Kinds \cup {"none"}]
  /\ writers \in Seq(Ids)
  /\ leader = [phase |-> leader.phase, force |-> leader.force, group |-> leader.group,
               taken |-> leader.taken, ok |-> leader.ok]
  /\ leader.phase \in {"none", "room", "wait", "append", "sync", "insert", "finish"}
  /\ leader.group \in Seq(Entries) /\ leader.taken \in 0 .. Len(writers)

MemoryTypes ==
  /\ mem \subseteq Entries /\ Imm \subseteq Entries /\ imm \in {{}, {Imm}}
  /\ {logfileNumber, lastSequence, logNumber, nextFile, manifestNumber} \subseteq Nat
  /\ version \in Versions

\* The background thread, its compaction, and what a failure of it left of the
\* MANIFEST.
WorkTypes ==
  /\ bg = [phase |-> bg.phase, kind |-> bg.kind, number |-> bg.number, edit |-> bg.edit]
  /\ bg.phase \in {"none", "build", "merge", "manifest", "install"}
  /\ bg.kind \in {"none", "flush", "compact", "move"}
  /\ bg.edit = None \/ bg.edit \in Edits
  /\ bg.number \in Nat
  /\ compaction = [inputs |-> compaction.inputs, merged |-> compaction.merged,
                   outputs |-> compaction.outputs, open |-> compaction.open]
  /\ compaction.inputs \in Versions /\ compaction.merged \subseteq Entries
  /\ compaction.outputs \subseteq Nat /\ compaction.open \in compaction.outputs \cup {0}
  /\ damage \in {"none", "tail", "spoiled"}

OtherTypes ==
  /\ result \in [Ids -> {"none", "pending", "waiting", "ok", "error", "lost"}]
  /\ \A i \in Ids : before[i] \subseteq Entries
  /\ scheduled \in BOOLEAN /\ bgError \in BOOLEAN /\ pendingOutputs \subseteq Nat
  /\ phase \in {"open", "closed", "replaying", "logged", "described", "current"}
  /\ errors \in 0 .. MaxErrors /\ crashes \in 0 .. MaxCrashes

Types == DiskTypes /\ CallTypes /\ MemoryTypes /\ WorkTypes /\ OtherTypes

\* The tables of a version are there, not empty, and older than both bounds.
Readable(v, next, seq) ==
  \A n \in TablesOf(v) :
    n \in DOMAIN tables /\ n < next /\ tables[n] # {} /\ \A e \in tables[n] : e.seq <= seq

\* However many of the edits that are not synced are lost, nothing is missing.
DiskInv ==
  \A k \in Kept :
    /\ Readable(Ver(k), E[k].next, E[k].seq)
    /\ current < E[k].next /\ E[k].log < E[k].next /\ E[k].next <= E[Len(E)].next
    /\ All(k) = OnDisk
    /\ synced \subseteq Least(k)

\* Sequence numbers follow the order of the calls.
OrderInv ==
  /\ \A e, f \in OnDisk : (e.id < f.id => e.seq < f.seq) /\ (e.id = f.id => e = f)
  /\ \A e \in OnDisk : e.id <= calls
  /\ \A i \in 1 .. calls : kind[i] # "none"
  /\ synced \subseteq acknowledged /\ acknowledged \subseteq OnDisk

\* The queue of writers, and the group that is being written.
QueueInv ==
  /\ \A k \in 1 .. Len(writers) : writers[k] <= calls
  /\ \A j, k \in 1 .. Len(writers) : j < k => writers[j] < writers[k]
  /\ leader.phase # "none" => writers # <<>>
  /\ leader.phase \in {"none", "room", "wait"} => leader.taken = 0 /\ leader.group = <<>>
  /\ leader.phase # "finish" => leader.ok
  /\ \A k \in 1 .. Len(leader.group) :
       /\ leader.group[k].seq = lastSequence + k
       /\ \E j \in 1 .. leader.taken : leader.group[k].id = writers[j]
       /\ kind[leader.group[k].id] = "sync" => kind[writers[1]] = "sync"
  /\ \A j, k \in 1 .. Len(leader.group) : j < k => leader.group[j].id < leader.group[k].id

\* What is on the disk comes before what is not written yet.
FreshInv ==
  /\ \A e \in OnDisk : \/ e \in Group
                       \/ e.seq <= lastSequence /\ \A g \in Group : e.id < g.id
  /\ \A e \in OnDisk : \A k \in leader.taken + 1 .. Len(writers) : e.id < writers[k]

\* The memtables and the logs that have what is in them.
LogInv ==
  /\ logfileNumber \in DOMAIN logs /\ \A n \in DOMAIN logs : n <= logfileNumber
  /\ logfileNumber < nextFile /\ logNumber <= logfileNumber
  /\ imm = {} => logNumber = logfileNumber
  /\ Imm = UNION {In(n) : n \in LogsFrom(logNumber) \ {logfileNumber}}
  /\ mem \subseteq In(logfileNumber)
  /\ ~bgError => In(logfileNumber) \subseteq
                   mem \cup (IF leader.phase \in {"sync", "insert"} THEN Group ELSE {})
  /\ leader.phase \in {"sync", "insert"} => Group \subseteq In(logfileNumber)
  /\ leader.phase = "finish" /\ leader.ok => Group \subseteq mem
  /\ leader.phase = "insert" \/ (leader.phase = "finish" /\ leader.ok) =>
       (kind[writers[1]] = "sync" => Group \subseteq DurableIn(logfileNumber))

\* What readers find in memory and in the version.
ReadInv ==
  /\ Readable(version, nextFile, lastSequence)
  /\ \A e \in Imm : e.seq <= lastSequence
  /\ \A e \in mem : e.seq <= lastSequence \/ (leader.phase = "finish" /\ leader.ok /\ e \in Group)
  /\ acknowledged = {e \in mem \cup Imm \cup EntriesOf(version) : e.seq <= lastSequence}

\* The version in memory and the MANIFEST: until something fails they agree, and
\* as long as the MANIFEST is read to its end no log is missed that matters.
VersionInv ==
  /\ current = manifestNumber /\ E[Len(E)].next <= nextFile /\ E[Len(E)].seq <= lastSequence
  /\ \A k \in Kept : E[k].log <= logfileNumber
  /\ damage = "none" => Noted <= E[Len(E)].log
  /\ ~bgError => /\ damage = "none" /\ Synced = Len(E) /\ E[Len(E)].log = Noted
                 /\ Ver(Len(E)) = IF bg.phase = "install" THEN After ELSE version

\* What the background thread is at.
ThreadInv ==
  /\ bg.phase = "none" => bg = NoWork /\ ~Compacting
  /\ bg.phase # "none" => bg.kind # "none" /\ (bg.kind = "flush" => imm # {})
  /\ bg.phase = "build" => bg.kind = "flush"
  /\ bg.phase = "merge" => bg = Merging
  /\ bg.kind = "compact" <=> Compacting /\ bg.kind # "flush"
  /\ bg.phase = "build" =>
       /\ bg.number < nextFile /\ bg.number \notin TablesOf(version)
       /\ \A k \in Kept : bg.number \notin TablesOf(Ver(k))
  /\ bg.phase \in {"manifest", "install"} =>
       /\ bg.edit \in Edits
       /\ Readable(version, bg.edit.next, bg.edit.seq)
       /\ Readable(Added, bg.edit.next, bg.edit.seq)
       /\ UNION {tables[n] : n \in bg.edit.deleted} \subseteq EntriesOf(Added)
       /\ IF bg.kind = "flush" THEN bg.edit.deleted = {} /\ EntriesOf(Added) = Imm
                               ELSE EntriesOf(Added) \subseteq EntriesOf(version)
       /\ bg.edit.next <= nextFile /\ E[Len(E)].next <= bg.edit.next
       /\ bg.edit.seq <= lastSequence /\ E[Len(E)].seq <= bg.edit.seq
       /\ current < bg.edit.next /\ bg.edit.log < bg.edit.next
       /\ bg.edit.log = IF bg.kind = "flush" THEN logfileNumber ELSE logNumber

\* A compaction: what it merges is in use, and nothing else uses its outputs, which
\* are kept, until they are installed.
CompactionInv ==
  Compacting =>
    /\ TablesOf(compaction.inputs) \subseteq TablesOf(version)
    /\ compaction.outputs \subseteq DOMAIN tables \cap pendingOutputs
    /\ \A n \in compaction.outputs : 0 < n /\ n < nextFile /\ n \notin TablesOf(version)
    /\ \A n \in compaction.outputs \ {compaction.open} : tables[n] # {}
    /\ compaction.merged = UNION {tables[n] : n \in compaction.outputs \ {compaction.open}}
    /\ compaction.merged \subseteq EntriesOf(compaction.inputs)
    /\ bg.kind = "flush" \/ bg.phase = "merge" =>
         \A k \in Kept : TablesOf(Ver(k)) \cap compaction.outputs = {}
    /\ bg.kind = "flush" =>
         /\ bg.number \notin compaction.outputs
         /\ bg.phase \in {"manifest", "install"} => TablesOf(Added) \cap compaction.outputs = {}

\* The work of the background thread.
WorkInv == ThreadInv /\ CompactionInv

ReaderInv ==
  reader # None =>
    /\ \A n \in TablesOf(reader.version) : n \in DOMAIN tables /\ n < nextFile
    /\ bg.phase = "build" => bg.number \notin TablesOf(reader.version)
    /\ TablesOf(reader.version) \cap compaction.outputs = {}
    /\ {e \in reader.held \cup EntriesOf(reader.version) : e.seq <= reader.seq} = reader.expected

OpenInv == QueueInv /\ FreshInv /\ LogInv /\ ReadInv /\ VersionInv /\ WorkInv /\ ReaderInv

\* Nothing is in memory.
Lost ==
  /\ writers = <<>> /\ leader = Idle /\ mem = {} /\ imm = {} /\ reader = None
  /\ bg = NoWork /\ compaction = NoCompaction
  /\ ~bgError /\ pendingOutputs = {} /\ ~scheduled

\* What Recover and DB::Open have done.
Replayed ==
  /\ unreplayed \subseteq LogsFrom(E[Len(E)].log)
  /\ phase # "replaying" => unreplayed = {}
  /\ manifestNumber < nextFile
  /\ E[Len(E)].next <= nextFile
  /\ Readable(version, nextFile, lastSequence)
  /\ EntriesOf(version) = EntriesOf(Ver(Len(E)))
       \cup UNION {In(n) : n \in LogsFrom(E[Len(E)].log) \ unreplayed}
  /\ \A n \in LogsFrom(E[Len(E)].log) \ unreplayed : n < nextFile

Opening ==
  /\ phase \in {"replaying", "logged", "described"} => manifestNumber = E[Len(E)].next
  /\ phase # "replaying" =>
       /\ logfileNumber \in DOMAIN logs /\ \A n \in DOMAIN logs : n <= logfileNumber
       /\ In(logfileNumber) = {} /\ logfileNumber < nextFile
  /\ phase \in {"described", "current"} =>
       /\ manifestNumber \in DOMAIN manifests
       /\ manifests[manifestNumber] =
            [edits |-> <<[level0 |-> version.level0, base |-> version.base, deleted |-> {},
                          log |-> logfileNumber, next |-> nextFile, seq |-> lastSequence]>>,
             durable |-> 1]
  /\ phase = "current" => current = manifestNumber /\ damage = "none"

Inv ==
  /\ Types /\ DiskInv /\ OrderInv
  /\ phase = "open" => OpenInv /\ unreplayed = {}
  /\ phase # "open" => Lost
  /\ phase = "closed" => unreplayed = {}
  /\ phase \notin {"open", "closed"} => Replayed /\ Opening

-----------------------------------------------------------------------------
(***************************************************************************)
(* Prefixes of a MANIFEST, and the versions they amount to.                *)
(***************************************************************************)

LEMMA PrefixIs ==
  ASSUME NEW S, NEW es \in Seq(S), NEW k \in 0 .. Len(es)
  PROVE  /\ SubSeq(es, 1, k) \in Seq(S) /\ Len(SubSeq(es, 1, k)) = k
         /\ \A i \in 1 .. k : SubSeq(es, 1, k)[i] = es[i]
BY SubSeqProperties

LEMMA SuffixIs ==
  ASSUME NEW S, NEW es \in Seq(S), NEW t \in 0 .. Len(es)
  PROVE  /\ SubSeq(es, t + 1, Len(es)) \in Seq(S) /\ Len(SubSeq(es, t + 1, Len(es))) = Len(es) - t
         /\ \A i \in 1 .. Len(es) - t : SubSeq(es, t + 1, Len(es))[i] = es[t + i]
<1>1. Len(es) \in Nat
  BY LenProperties
<1>. PICK n : n = Len(es)
  OBVIOUS
<1>. PICK m : m = t + 1
  OBVIOUS
<1>2. m \in 1 .. n + 1 /\ n \in m - 1 .. n
  BY <1>1
<1>3. /\ SubSeq(es, m, n) \in Seq(S)
      /\ Len(SubSeq(es, m, n)) = IF m <= n THEN n - m + 1 ELSE 0
      /\ \A i \in 1 .. n - m + 1 : SubSeq(es, m, n)[i] = es[m + i - 1]
  BY <1>2, SubSeqProperties
<1>. PICK cut : cut = SubSeq(es, m, n)
  OBVIOUS
<1>4. /\ cut \in Seq(S) /\ Len(cut) = IF m <= n THEN n - m + 1 ELSE 0
      /\ \A i \in 1 .. n - m + 1 : cut[i] = es[m + i - 1]
  BY <1>3
<1>5. cut \in Seq(S) /\ Len(cut) = n - t /\ \A i \in 1 .. n - t : cut[i] = es[t + i]
  BY <1>1, <1>2, <1>4
<1>. QED
  BY <1>5

LEMMA WholePrefix ==
  ASSUME NEW S, NEW es \in Seq(S)
  PROVE  SubSeq(es, 1, Len(es)) = es
<1>1. Len(es) \in Nat /\ Len(es) \in 0 .. Len(es)
  BY LenProperties
<1>2. SubSeq(es, 1, Len(es)) \in Seq(S) /\ Len(SubSeq(es, 1, Len(es))) = Len(es)
      /\ \A i \in 1 .. Len(es) : SubSeq(es, 1, Len(es))[i] = es[i]
  BY <1>1, PrefixIs
<1>. QED
  BY <1>1, <1>2, SeqEqual

LEMMA PrefixOfAppend ==
  ASSUME NEW S, NEW es \in Seq(S), NEW e \in S, NEW k \in 0 .. Len(es)
  PROVE  SubSeq(Append(es, e), 1, k) = SubSeq(es, 1, k)
<1>1. /\ Len(es) \in Nat /\ Append(es, e) \in Seq(S) /\ Len(Append(es, e)) = Len(es) + 1
      /\ \A i \in 1 .. Len(es) : Append(es, e)[i] = es[i]
  BY AppendProperties, LenProperties
<1>2. k \in 0 .. Len(Append(es, e)) /\ k \in Nat
  BY <1>1
<1>3. /\ SubSeq(Append(es, e), 1, k) \in Seq(S) /\ Len(SubSeq(Append(es, e), 1, k)) = k
      /\ \A i \in 1 .. k : SubSeq(Append(es, e), 1, k)[i] = Append(es, e)[i]
  BY <1>1, <1>2, PrefixIs
<1>4. /\ SubSeq(es, 1, k) \in Seq(S) /\ Len(SubSeq(es, 1, k)) = k
      /\ \A i \in 1 .. k : SubSeq(es, 1, k)[i] = es[i]
  BY PrefixIs
<1>5. \A i \in 1 .. k : SubSeq(Append(es, e), 1, k)[i] = SubSeq(es, 1, k)[i]
  BY <1>1, <1>2, <1>3, <1>4
<1>. QED
  BY <1>2, <1>3, <1>4, <1>5, SeqEqual

LEMMA PrefixOfPrefix ==
  ASSUME NEW S, NEW es \in Seq(S), NEW k \in 0 .. Len(es)
  PROVE  SubSeq(SubSeq(es, 1, k), 1, k) = SubSeq(es, 1, k)
<1>1. SubSeq(es, 1, k) \in Seq(S) /\ Len(SubSeq(es, 1, k)) = k
  BY PrefixIs
<1>. QED
  BY <1>1, WholePrefix

LEMMA VersionType ==
  ASSUME NEW es \in Seq(Edits)
  PROVE  VersionOf(es) \in Versions
<1>1. ASSUME NEW i \in DOMAIN es
      PROVE  es[i]["level0"] \subseteq Nat /\ es[i]["base"] \subseteq Nat
  <2>1. es[i] \in Edits
    BY ElementOfSeq, LenProperties
  <2>. QED
    BY <2>1 DEF Edits
<1>2. Remaining(es, "level0") \subseteq Nat /\ Remaining(es, "base") \subseteq Nat
  BY <1>1 DEF Remaining
<1>. QED
  BY <1>2 DEF VersionOf, Versions

LEMMA VersionOne ==
  ASSUME NEW e
  PROVE  VersionOf(<<e>>) = [level0 |-> e.level0, base |-> e.base]
<1>1. Remaining(<<e>>, "level0") = e["level0"] /\ Remaining(<<e>>, "base") = e["base"]
  BY DEF Remaining
<1>. QED
  BY <1>1 DEF VersionOf

LEMMA RemainingAppend ==
  ASSUME NEW es \in Seq(Edits), NEW e \in Edits, NEW l \in {"level0", "base"}
  PROVE  Remaining(Append(es, e), l) = (Remaining(es, l) \ e.deleted) \cup e[l]
<1>. DEFINE fs == Append(es, e)
<1>1. /\ Len(es) \in Nat /\ DOMAIN es = 1 .. Len(es)
      /\ Len(fs) = Len(es) + 1 /\ DOMAIN fs = 1 .. Len(es) + 1
      /\ \A i \in 1 .. Len(es) : fs[i] = es[i]
      /\ fs[Len(es) + 1] = e
  BY AppendProperties, LenProperties
<1>. HIDE DEF fs
<1>2. \A n : n \in Remaining(fs, l) <=>
              \E i \in 1 .. Len(es) + 1 : /\ n \in fs[i][l]
                    /\ \A j \in i + 1 .. Len(es) + 1 : n \notin fs[j].deleted
  BY <1>1 DEF Remaining
<1>3. \A n : n \in Remaining(es, l) <=>
              \E i \in 1 .. Len(es) : /\ n \in es[i][l]
                    /\ \A j \in i + 1 .. Len(es) : n \notin es[j].deleted
  BY <1>1 DEF Remaining
<1>4. ASSUME NEW n \in Remaining(fs, l)
      PROVE  n \in (Remaining(es, l) \ e.deleted) \cup e[l]
  <2>1. PICK i \in 1 .. Len(es) + 1 :
          n \in fs[i][l] /\ \A j \in i + 1 .. Len(es) + 1 : n \notin fs[j].deleted
    BY <1>2, <1>4
  <2>2. CASE i = Len(es) + 1
    BY <1>1, <2>1, <2>2
  <2>3. CASE i # Len(es) + 1
    <3>1. i \in 1 .. Len(es) /\ Len(es) + 1 \in i + 1 .. Len(es) + 1
      BY <1>1, <2>3
    <3>2. n \in es[i][l] /\ n \notin e.deleted
      BY <1>1, <2>1, <3>1
    <3>3. \A j \in i + 1 .. Len(es) : n \notin es[j].deleted
      BY <1>1, <2>1, <3>1
    <3>. QED
      BY <1>3, <3>1, <3>2, <3>3
  <2>. QED
    BY <2>2, <2>3
<1>5. ASSUME NEW n \in e[l]
      PROVE  n \in Remaining(fs, l)
  <2>1. Len(es) + 1 \in 1 .. Len(es) + 1 /\ n \in fs[Len(es) + 1][l]
    BY <1>1
  <2>2. \A j \in Len(es) + 1 + 1 .. Len(es) + 1 : n \notin fs[j].deleted
    BY <1>1
  <2>. QED
    BY <1>2, <2>1, <2>2
<1>6. ASSUME NEW n \in Remaining(es, l), n \notin e.deleted
      PROVE  n \in Remaining(fs, l)
  <2>1. PICK i \in 1 .. Len(es) :
          n \in es[i][l] /\ \A j \in i + 1 .. Len(es) : n \notin es[j].deleted
    BY <1>3, <1>6
  <2>2. i \in 1 .. Len(es) + 1 /\ n \in fs[i][l]
    BY <1>1, <2>1
  <2>3. \A j \in i + 1 .. Len(es) + 1 : n \notin fs[j].deleted
    BY <1>1, <1>6, <2>1
  <2>. QED
    BY <1>2, <2>2, <2>3
<1>. QED
  BY <1>4, <1>5, <1>6 DEF fs

LEMMA VersionAppend ==
  ASSUME NEW es \in Seq(Edits), NEW e \in Edits
  PROVE  VersionOf(Append(es, e)) = Apply(VersionOf(es), e)
<1>1. /\ Remaining(Append(es, e), "level0") = (Remaining(es, "level0") \ e.deleted) \cup e["level0"]
      /\ Remaining(Append(es, e), "base") = (Remaining(es, "base") \ e.deleted) \cup e["base"]
  BY RemainingAppend
<1>. QED
  BY <1>1 DEF VersionOf, Apply

-----------------------------------------------------------------------------
(***************************************************************************)
(* Steps that leave the disk alone.                                        *)
(***************************************************************************)

LEMMA DiskSame ==
  ASSUME UNCHANGED disk
  PROVE  /\ E' = E /\ Synced' = Synced /\ Kept' = Kept /\ OnDisk' = OnDisk
         /\ \A k : Ver(k)' = Ver(k) /\ All(k)' = All(k) /\ Least(k)' = Least(k)
         /\ \A n : In(n)' = In(n) /\ DurableIn(n)' = DurableIn(n)
         /\ \A l : LogsFrom(l)' = LogsFrom(l)
BY DEF disk, E, Synced, Kept, OnDisk, Ver, All, Least, In, DurableIn, LogsFrom, EntriesOf, EntriesIn

LEMMA FrameDisk ==
  ASSUME DiskInv, UNCHANGED <<disk, synced>>
  PROVE  DiskInv'
BY DiskSame DEF DiskInv, Readable, disk

LEMMA FrameOrder ==
  ASSUME OrderInv, UNCHANGED <<disk, synced, acknowledged, calls, kind>>
  PROVE  OrderInv'
BY DiskSame DEF OrderInv, disk

\* The background thread may wake the leader, and leaves its group alone.
Alike == leader' = leader \/ leader' = Awake

LEMMA AlikeIs ==
  ASSUME CallTypes, Alike
  PROVE  /\ leader'.group = leader.group /\ leader'.taken = leader.taken
         /\ leader'.ok = leader.ok /\ Group' = Group
         /\ leader'.phase = leader.phase \/ (leader.phase = "wait" /\ leader'.phase = "room")
         /\ leader' = [phase |-> leader'.phase, force |-> leader'.force,
                       group |-> leader'.group, taken |-> leader'.taken, ok |-> leader'.ok]
BY DEF CallTypes, Alike, Awake, Group

LEMMA FrameCalls ==
  ASSUME CallTypes, Alike, UNCHANGED <<calls, kind, writers>>
  PROVE  CallTypes'
BY AlikeIs DEF CallTypes

LEMMA FrameQueue ==
  ASSUME CallTypes, QueueInv, Alike, UNCHANGED <<calls, kind, writers, lastSequence>>
  PROVE  QueueInv'
BY AlikeIs DEF QueueInv

LEMMA FrameFresh ==
  ASSUME CallTypes, FreshInv, Alike, OnDisk' = OnDisk, UNCHANGED <<writers, lastSequence>>
  PROVE  FreshInv'
BY AlikeIs DEF FreshInv

LEMMA FrameLog ==
  ASSUME CallTypes, MemoryTypes, LogInv, Alike, bgError => bgError',
         UNCHANGED <<logs, logfileNumber, logNumber, imm, mem, writers, kind>>,
         nextFile' \in Nat, nextFile' >= nextFile
  PROVE  LogInv'
<1>1. /\ \A n : In(n)' = In(n) /\ DurableIn(n)' = DurableIn(n)
      /\ \A l : LogsFrom(l)' = LogsFrom(l)
  BY DEF In, DurableIn, LogsFrom, EntriesIn
<1>2. In(logfileNumber)' = In(logfileNumber) /\ DurableIn(logfileNumber)' = DurableIn(logfileNumber)
      /\ LogsFrom(logNumber)' = LogsFrom(logNumber)
  BY <1>1
<1>3. Imm' = Imm /\ UNION {In(n) : n \in LogsFrom(logNumber) \ {logfileNumber}}'
                      = UNION {In(n) : n \in LogsFrom(logNumber) \ {logfileNumber}}
  BY <1>1 DEF Imm
<1>4. logfileNumber < nextFile'
  BY DEF LogInv, MemoryTypes
<1>. QED
  BY AlikeIs, <1>2, <1>3, <1>4 DEF LogInv

LEMMA FrameRead ==
  ASSUME CallTypes, MemoryTypes, ReadInv, Alike,
         UNCHANGED <<mem, imm, version, lastSequence, acknowledged>>,
         \A n \in TablesOf(version) : n \in DOMAIN tables' /\ tables'[n] = tables[n],
         nextFile' \in Nat, nextFile' >= nextFile
  PROVE  ReadInv'
<1>1. EntriesOf(version)' = EntriesOf(version) /\ Imm' = Imm
  BY DEF EntriesOf, Imm
<1>2. TablesOf(version) \subseteq Nat
  BY DEF MemoryTypes, Versions, TablesOf
<1>3. Readable(version, nextFile, lastSequence)'
  BY <1>2 DEF ReadInv, Readable, MemoryTypes
<1>. QED
  BY AlikeIs, <1>1, <1>3 DEF ReadInv

LEMMA FrameVersion ==
  ASSUME MemoryTypes, VersionInv, bgError => bgError', bg' = bg \/ {bg.phase, bg'.phase} \cap {"install"} = {},
         damage' = "none" => damage = "none", damage' = damage \/ bgError',
         UNCHANGED <<manifests, current, version, logNumber, manifestNumber, logfileNumber>>,
         nextFile' \in Nat, nextFile' >= nextFile, E[Len(E)].next \in Nat,
         E[Len(E)].seq <= lastSequence'
  PROVE  VersionInv'
<1>1. E' = E /\ Synced' = Synced /\ Kept' = Kept /\ \A k : Ver(k)' = Ver(k)
  BY DEF E, Synced, Kept, Ver
<1>2. Noted' = Noted /\ (bg.phase = "install" <=> bg'.phase = "install")
      /\ (bg.phase = "install" => After' = After)
  BY DEF After, Noted
<1>3. Ver(Len(E))' = Ver(Len(E))
  BY <1>1
<1>4. E[Len(E)].next <= nextFile'
  BY DEF VersionInv, MemoryTypes
<1>. QED
  BY <1>1, <1>2, <1>3, <1>4 DEF VersionInv

LEMMA FrameReader ==
  ASSUME ReaderInv, MemoryTypes, UNCHANGED reader,
         reader # None => TablesOf(reader.version) \subseteq Nat
                          /\ \A n \in TablesOf(reader.version) :
                               n \in DOMAIN tables' /\ tables'[n] = tables[n],
         bg' = bg \/ bg'.phase # "build" \/ bg'.number = nextFile,
         compaction'.outputs \subseteq compaction.outputs \cup {nextFile},
         nextFile' \in Nat, nextFile' >= nextFile
  PROVE  ReaderInv'
<1>1. ASSUME reader # None PROVE EntriesOf(reader.version)' = EntriesOf(reader.version)
  BY <1>1 DEF EntriesOf
<1>2. ASSUME reader # None, NEW n \in TablesOf(reader.version)
      PROVE  n \in DOMAIN tables' /\ n < nextFile' /\ n # nextFile
  BY <1>2 DEF ReaderInv, MemoryTypes
<1>3. ASSUME reader # None
      PROVE  /\ bg'.phase = "build" => bg'.number \notin TablesOf(reader.version)
             /\ TablesOf(reader.version) \cap compaction'.outputs = {}
  BY <1>2, <1>3 DEF ReaderInv
<1>. QED
  BY <1>1, <1>2, <1>3 DEF ReaderInv

-----------------------------------------------------------------------------
(***************************************************************************)
(* What the types say of the disk and of the group.                        *)
(***************************************************************************)

LEMMA ManifestIs ==
  ASSUME DiskTypes
  PROVE  /\ E \in Seq(Edits) /\ Len(E) \in Nat /\ Synced \in 1 .. Len(E)
         /\ Kept \subseteq 1 .. Len(E) /\ Len(E) \in Kept /\ Synced \in Kept
         /\ \A k \in 1 .. Len(E) : E[k] \in Edits
         /\ \A k \in 1 .. Len(E) : E[k].log \in Nat /\ E[k].next \in Nat /\ E[k].seq \in Nat
         /\ \A k \in 0 .. Len(E) : Ver(k) \in Versions
         /\ Ver(Len(E)) = VersionOf(E) /\ E[Len(E)] = Last(E)
<1>1. E \in Seq(Edits) /\ Len(E) \in Nat /\ Synced \in 1 .. Len(E)
  BY LenProperties DEF DiskTypes, E, Synced
<1>2. Kept \subseteq 1 .. Len(E) /\ Len(E) \in Kept /\ Synced \in Kept
  BY <1>1 DEF Kept
<1>3. \A k \in 1 .. Len(E) : E[k] \in Edits
  BY <1>1, ElementOfSeq
<1>4. \A k \in 1 .. Len(E) : E[k].log \in Nat /\ E[k].next \in Nat /\ E[k].seq \in Nat
  BY <1>3 DEF Edits
<1>5. ASSUME NEW k \in 0 .. Len(E)
      PROVE  Ver(k) \in Versions
  BY <1>1, PrefixIs, VersionType DEF Ver
<1>6. Ver(Len(E)) = VersionOf(E)
  BY <1>1, WholePrefix DEF Ver
<1>. QED
  BY <1>1, <1>2, <1>3, <1>4, <1>5, <1>6 DEF Last

LEMMA LogIs ==
  ASSUME DiskTypes, NEW n \in DOMAIN logs
  PROVE  /\ In(n) = UNION {logs[n].records[i] : i \in 1 .. Len(logs[n].records)}
         /\ DurableIn(n) = UNION {logs[n].records[i] : i \in 1 .. logs[n].durable}
         /\ DurableIn(n) \subseteq In(n) /\ In(n) \subseteq Entries
<1>. DEFINE rs == logs[n].records
            d == logs[n].durable
<1>1. rs \in Seq(SUBSET Entries) /\ d \in 0 .. Len(rs) /\ Len(rs) \in Nat /\ DOMAIN rs = 1 .. Len(rs)
  BY LenProperties DEF DiskTypes
<1>2. SubSeq(rs, 1, d) \in Seq(SUBSET Entries) /\ Len(SubSeq(rs, 1, d)) = d
      /\ \A i \in 1 .. d : SubSeq(rs, 1, d)[i] = rs[i]
  BY <1>1, PrefixIs
<1>3. DOMAIN SubSeq(rs, 1, d) = 1 .. d
  BY <1>2, LenProperties
<1>4. \A i \in 1 .. Len(rs) : rs[i] \subseteq Entries
  BY <1>1, ElementOfSeq
<1>5. In(n) = UNION {rs[i] : i \in 1 .. Len(rs)}
  BY <1>1 DEF In, EntriesIn, Range
<1>. HIDE DEF rs, d
<1>6. UNION Range(SubSeq(rs, 1, d)) = UNION {rs[i] : i \in 1 .. d}
  BY <1>2, <1>3 DEF Range
<1>7. UNION {rs[i] : i \in 1 .. d} \subseteq UNION {rs[i] : i \in 1 .. Len(rs)}
  BY <1>1
<1>8. UNION {rs[i] : i \in 1 .. Len(rs)} \subseteq Entries
  BY <1>4
<1>9. DurableIn(n) = UNION {rs[i] : i \in 1 .. d}
  BY <1>6 DEF DurableIn, rs, d
<1>. QED
  BY <1>5, <1>7, <1>8, <1>9 DEF rs, d

LEMMA OnDiskIs ==
  ASSUME DiskTypes
  PROVE  /\ \A l \in Nat : LogsFrom(l) \subseteq DOMAIN logs /\ LogsFrom(l) \subseteq Nat
         /\ \A k : Least(k) \subseteq All(k)
         /\ OnDisk \subseteq Entries \cup EntriesOf(Ver(Len(E)))
<1>1. \A l \in Nat : LogsFrom(l) \subseteq DOMAIN logs /\ LogsFrom(l) \subseteq Nat
  BY DEF LogsFrom, DiskTypes
<1>2. ASSUME NEW k PROVE Least(k) \subseteq All(k)
  <2>1. \A n \in LogsFrom(E[k].log) : n \in DOMAIN logs
    BY DEF LogsFrom
  <2>. QED
    BY <2>1, LogIs DEF Least, All
<1>3. OnDisk \subseteq Entries \cup EntriesOf(Ver(Len(E)))
  <2>1. \A n \in LogsFrom(E[Len(E)].log) : n \in DOMAIN logs
    BY DEF LogsFrom
  <2>. QED
    BY <2>1, LogIs DEF OnDisk, All
<1>. QED
  BY <1>1, <1>2, <1>3

LEMMA OnDiskEntries ==
  ASSUME DiskTypes, DiskInv
  PROVE  OnDisk \subseteq Entries
<1>1. Readable(Ver(Len(E)), E[Len(E)].next, E[Len(E)].seq)
  BY ManifestIs DEF DiskInv
<1>2. EntriesOf(Ver(Len(E))) \subseteq Entries
  BY <1>1 DEF Readable, EntriesOf, DiskTypes
<1>. QED
  BY <1>2, OnDiskIs

LEMMA GroupIs ==
  ASSUME CallTypes
  PROVE  /\ Len(leader.group) \in Nat /\ DOMAIN leader.group = 1 .. Len(leader.group)
         /\ Group = {leader.group[k] : k \in 1 .. Len(leader.group)}
         /\ \A k \in 1 .. Len(leader.group) : leader.group[k] \in Entries
         /\ Group \subseteq Entries
         /\ Len(writers) \in Nat /\ DOMAIN writers = 1 .. Len(writers)
         /\ \A k \in 1 .. Len(writers) : writers[k] \in Ids
<1>1. leader.group \in Seq(Entries) /\ writers \in Seq(Ids)
  BY DEF CallTypes
<1>2. /\ Len(leader.group) \in Nat /\ DOMAIN leader.group = 1 .. Len(leader.group)
      /\ Len(writers) \in Nat /\ DOMAIN writers = 1 .. Len(writers)
  BY <1>1, LenProperties
<1>3. \A k \in 1 .. Len(leader.group) : leader.group[k] \in Entries
  BY <1>1, ElementOfSeq
<1>4. \A k \in 1 .. Len(writers) : writers[k] \in Ids
  BY <1>1, ElementOfSeq
<1>5. Group = {leader.group[k] : k \in 1 .. Len(leader.group)}
  BY <1>2 DEF Group, Range
<1>. QED
  BY <1>2, <1>3, <1>4, <1>5

\* While the database is open: the tables, the memtable on its way into one,
\* and the log.
LEMMA OpenOnDisk ==
  ASSUME DiskTypes, MemoryTypes, OrderInv, ReadInv, VersionInv, LogInv
  PROVE  /\ EntriesOf(version) \subseteq OnDisk /\ Imm \subseteq OnDisk
         /\ In(logfileNumber) \subseteq OnDisk
<1>1. EntriesOf(version) \cup Imm \subseteq acknowledged
  <2>1. \A e \in EntriesOf(version) : e.seq <= lastSequence
    BY DEF ReadInv, Readable, EntriesOf
  <2>. QED
    BY <2>1 DEF ReadInv
<1>2. acknowledged \subseteq OnDisk
  BY DEF OrderInv
<1>3. logfileNumber \in LogsFrom(E[Len(E)].log)
  BY ManifestIs DEF LogInv, VersionInv, LogsFrom
<1>4. In(logfileNumber) \subseteq OnDisk
  BY <1>3 DEF OnDisk, All
<1>. QED
  BY <1>1, <1>2, <1>4

-----------------------------------------------------------------------------
(***************************************************************************)
(* Steps that write to the disk.                                           *)
(***************************************************************************)

\* A new log is empty.
LEMMA NewLog ==
  ASSUME DiskTypes, DiskInv, NEW n \in Nat, n \notin DOMAIN logs,
         logs' = NewFile(logs, n, EmptyLog), UNCHANGED <<tables, manifests, current>>
  PROVE  /\ DiskTypes' /\ E' = E /\ Kept' = Kept /\ Synced' = Synced /\ OnDisk' = OnDisk
         /\ \A k : Ver(k)' = Ver(k) /\ All(k)' = All(k) /\ Least(k)' = Least(k)
         /\ DOMAIN logs' = DOMAIN logs \cup {n}
         /\ \A m \in DOMAIN logs : In(m)' = In(m) /\ DurableIn(m)' = DurableIn(m)
         /\ In(n)' = {}
         /\ UNCHANGED synced => DiskInv'
<1>1. /\ E' = E /\ Kept' = Kept /\ Synced' = Synced /\ \A k : Ver(k)' = Ver(k)
      /\ \A v : EntriesOf(v)' = EntriesOf(v)
  BY DEF E, Kept, Synced, Ver, EntriesOf
<1>2. /\ DOMAIN logs' = DOMAIN logs \cup {n}
      /\ \A m \in DOMAIN logs : logs'[m] = logs[m]
      /\ logs'[n] = [records |-> <<>>, durable |-> 0]
  BY DEF NewFile, EmptyLog
<1>3. \A m \in DOMAIN logs : In(m)' = In(m) /\ DurableIn(m)' = DurableIn(m)
  BY <1>2 DEF In, DurableIn, EntriesIn
<1>4. DiskTypes'
  <2>1. \A m \in DOMAIN logs : /\ logs'[m] = [records |-> logs'[m].records, durable |-> logs'[m].durable]
                               /\ logs'[m].records \in Seq(SUBSET Entries)
                               /\ logs'[m].durable \in 0 .. Len(logs'[m].records)
    BY <1>2 DEF DiskTypes
  <2>2. /\ logs'[n] = [records |-> logs'[n].records, durable |-> logs'[n].durable]
        /\ logs'[n].records \in Seq(SUBSET Entries)
        /\ logs'[n].durable \in 0 .. Len(logs'[n].records)
    BY <1>2, EmptySeq
  <2>. QED
    BY <1>2, <2>1, <2>2 DEF DiskTypes
<1>5. In(n)' = {} /\ DurableIn(n)' = {}
  <2>1. n \in DOMAIN logs'
    BY <1>2
  <2>2. Len(logs'[n].records) = 0 /\ logs'[n].durable = 0
    BY <1>2, EmptySeq
  <2>3. /\ In(n)' = UNION {logs'[n].records[i] : i \in 1 .. 0}
        /\ DurableIn(n)' = UNION {logs'[n].records[i] : i \in 1 .. 0}
    BY <1>2, EmptySeq DEF In, EntriesIn, Range, DurableIn
  <2>. QED
    BY <2>3
<1>6. ASSUME NEW l
      PROVE  /\ UNION {In(m)' : m \in LogsFrom(l)'} = UNION {In(m) : m \in LogsFrom(l)}
             /\ UNION {DurableIn(m)' : m \in LogsFrom(l)'} = UNION {DurableIn(m) : m \in LogsFrom(l)}
  <2>1. LogsFrom(l) \subseteq LogsFrom(l)' /\ LogsFrom(l)' \subseteq LogsFrom(l) \cup {n}
    BY <1>2 DEF LogsFrom
  <2>2. \A m \in LogsFrom(l) : In(m)' = In(m) /\ DurableIn(m)' = DurableIn(m)
    BY <1>3 DEF LogsFrom
  <2>. QED
    BY <1>5, <2>1, <2>2
<1>7. ASSUME NEW k
      PROVE  All(k)' = All(k) /\ Least(k)' = Least(k)
  <2>. PICK l : l = E[k].log
    OBVIOUS
  <2>1. All(k)' = EntriesOf(Ver(k)) \cup UNION {In(m)' : m \in LogsFrom(l)'}
    BY <1>1 DEF All
  <2>2. Least(k)' = EntriesOf(Ver(k)) \cup UNION {DurableIn(m)' : m \in LogsFrom(l)'}
    BY <1>1 DEF Least
  <2>3. /\ All(k) = EntriesOf(Ver(k)) \cup UNION {In(m) : m \in LogsFrom(l)}
        /\ Least(k) = EntriesOf(Ver(k)) \cup UNION {DurableIn(m) : m \in LogsFrom(l)}
    BY DEF All, Least
  <2>. QED
    BY <1>6, <2>1, <2>2, <2>3
<1>8. OnDisk' = OnDisk
  BY <1>1, <1>7 DEF OnDisk
<1>9. ASSUME UNCHANGED synced PROVE DiskInv'
  BY <1>1, <1>7, <1>8, <1>9 DEF DiskInv, Readable
<1>. QED
  BY <1>1, <1>2, <1>3, <1>4, <1>5, <1>7, <1>8, <1>9

\* A new table is in no version yet.
LEMMA NewTable ==
  ASSUME DiskTypes, DiskInv, NEW n \in Nat, NEW x \in SUBSET Entries,
         \A k \in Kept : n \notin TablesOf(Ver(k)),
         tables' = NewFile(tables, n, x), UNCHANGED <<logs, manifests, current>>
  PROVE  /\ DiskTypes' /\ E' = E /\ Kept' = Kept /\ Synced' = Synced /\ OnDisk' = OnDisk
         /\ \A k : Ver(k)' = Ver(k)
         /\ \A k \in Kept : All(k)' = All(k) /\ Least(k)' = Least(k)
         /\ \A m : In(m)' = In(m)
         /\ \A l : LogsFrom(l)' = LogsFrom(l)
         /\ DOMAIN tables' = DOMAIN tables \cup {n} /\ tables'[n] = x
         /\ \A m \in DOMAIN tables \ {n} : tables'[m] = tables[m]
         /\ UNCHANGED synced => DiskInv'
<1>1. /\ E' = E /\ Kept' = Kept /\ Synced' = Synced /\ \A k : Ver(k)' = Ver(k)
      /\ \A m : In(m)' = In(m) /\ DurableIn(m)' = DurableIn(m)
      /\ \A l : LogsFrom(l)' = LogsFrom(l)
  BY DEF E, Kept, Synced, Ver, In, DurableIn, LogsFrom, EntriesIn
<1>2. /\ DOMAIN tables' = DOMAIN tables \cup {n} /\ tables'[n] = x
      /\ \A m \in DOMAIN tables \ {n} : tables'[m] = tables[m]
  BY DEF NewFile
<1>3. DiskTypes'
  BY <1>2 DEF DiskTypes
<1>4. ASSUME NEW k \in Kept
      PROVE  /\ \A m \in TablesOf(Ver(k)) : m \in DOMAIN tables \ {n}
             /\ EntriesOf(Ver(k))' = EntriesOf(Ver(k))
  <2>1. \A m \in TablesOf(Ver(k)) : m \in DOMAIN tables \ {n}
    BY DEF DiskInv, Readable
  <2>. QED
    BY <1>1, <1>2, <2>1 DEF EntriesOf
<1>5. ASSUME NEW k \in Kept
      PROVE  All(k)' = All(k) /\ Least(k)' = Least(k)
  BY <1>1, <1>4 DEF All, Least
<1>6. OnDisk' = OnDisk
  BY <1>1, <1>5, ManifestIs DEF OnDisk
<1>7. ASSUME UNCHANGED synced, NEW k \in Kept
      PROVE  Readable(Ver(k), E[k].next, E[k].seq)'
  BY <1>1, <1>2, <1>4 DEF DiskInv, Readable
<1>8. ASSUME UNCHANGED synced PROVE DiskInv'
  BY <1>1, <1>5, <1>6, <1>7, <1>8 DEF DiskInv
<1>. QED
  BY <1>1, <1>2, <1>3, <1>5, <1>6, <1>8

\* A record at the end of the log reaches what recovery finds, whatever edits are left.
LEMMA RecordAdded ==
  ASSUME DiskTypes, DiskInv, NEW f \in DOMAIN logs, NEW x \in SUBSET Entries,
         \A k \in Kept : E[k].log <= f,
         logs' = [logs EXCEPT ![f].records = Append(@, x)],
         UNCHANGED <<tables, manifests, current, synced>>
  PROVE  /\ DiskTypes' /\ DiskInv' /\ E' = E /\ Kept' = Kept /\ Synced' = Synced
         /\ OnDisk' = OnDisk \cup x
         /\ \A k : Ver(k)' = Ver(k)
         /\ \A m \in DOMAIN logs \ {f} : In(m)' = In(m)
         /\ In(f)' = In(f) \cup x /\ DurableIn(f)' = DurableIn(f)
         /\ \A l : LogsFrom(l)' = LogsFrom(l)
<1>1. /\ E' = E /\ Kept' = Kept /\ Synced' = Synced /\ \A k : Ver(k)' = Ver(k)
      /\ \A v : EntriesOf(v)' = EntriesOf(v)
  BY DEF E, Kept, Synced, Ver, EntriesOf
<1>. DEFINE rs == logs[f].records
            d == logs[f].durable
<1>2. /\ rs \in Seq(SUBSET Entries) /\ d \in 0 .. Len(rs) /\ Len(rs) \in Nat
      /\ logs[f] = [records |-> rs, durable |-> d]
  BY LenProperties DEF DiskTypes
<1>. HIDE DEF rs, d
<1>3. /\ DOMAIN logs' = DOMAIN logs
      /\ \A m \in DOMAIN logs \ {f} : logs'[m] = logs[m]
      /\ logs'[f] = [records |-> Append(rs, x), durable |-> d]
  BY <1>2 DEF rs, d
<1>. PICK more : more = Append(rs, x)
  OBVIOUS
<1>31. logs'[f].records = more /\ logs'[f].durable = d
  BY <1>3
<1>4. /\ more \in Seq(SUBSET Entries) /\ Len(more) = Len(rs) + 1 /\ DOMAIN more = 1 .. Len(rs) + 1
      /\ \A i \in 1 .. Len(rs) : more[i] = rs[i]
      /\ more[Len(rs) + 1] = x
  <2>1. more \in Seq(SUBSET Entries) /\ Len(more) = Len(rs) + 1
    BY <1>2, AppendProperties
  <2>2. DOMAIN more = 1 .. Len(rs) + 1
    BY <2>1, LenProperties
  <2>. QED
    BY <1>2, <2>1, <2>2, AppendProperties
<1>5. DiskTypes'
  <2>1. \A m \in DOMAIN logs \ {f} : /\ logs'[m] = [records |-> logs'[m].records, durable |-> logs'[m].durable]
                                     /\ logs'[m].records \in Seq(SUBSET Entries)
                                     /\ logs'[m].durable \in 0 .. Len(logs'[m].records)
    BY <1>3 DEF DiskTypes
  <2>2. /\ logs'[f] = [records |-> logs'[f].records, durable |-> logs'[f].durable]
        /\ logs'[f].records \in Seq(SUBSET Entries)
        /\ logs'[f].durable \in 0 .. Len(logs'[f].records)
    <3>1. logs'[f] = [records |-> more, durable |-> d] /\ d \in 0 .. Len(more)
      BY <1>2, <1>3, <1>4
    <3>. QED
      BY <1>4, <1>31, <3>1
  <2>. QED
    BY <1>3, <2>1, <2>2 DEF DiskTypes
<1>6. \A m \in DOMAIN logs \ {f} : In(m)' = In(m) /\ DurableIn(m)' = DurableIn(m)
  BY <1>3 DEF In, DurableIn, EntriesIn
<1>7. DurableIn(f)' = DurableIn(f)
  <2>1. SubSeq(more, 1, d) = SubSeq(rs, 1, d)
    BY <1>2, PrefixOfAppend
  <2>2. DurableIn(f)' = UNION Range(SubSeq(more, 1, d))
    BY <1>31 DEF DurableIn
  <2>3. DurableIn(f) = UNION Range(SubSeq(rs, 1, d))
    BY DEF DurableIn, rs, d
  <2>. QED
    BY <2>1, <2>2, <2>3
<1>8. In(f)' = In(f) \cup x
  <2>1. In(f) = UNION {rs[i] : i \in 1 .. Len(rs)}
    BY LogIs DEF rs
  <2>3. In(f)' = UNION {more[i] : i \in 1 .. Len(rs) + 1}
    <3>1. In(f)' = UNION Range(more)
      BY <1>31 DEF In, EntriesIn
    <3>2. Range(more) = {more[i] : i \in 1 .. Len(rs) + 1}
      BY <1>4 DEF Range
    <3>. QED
      BY <3>1, <3>2
  <2>4. \A e : e \in In(f)' <=> \E i \in 1 .. Len(rs) + 1 : e \in more[i]
    BY <2>3
  <2>5. \A e : e \in In(f) <=> \E i \in 1 .. Len(rs) : e \in rs[i]
    BY <2>1
  <2>6. \A i : i \in 1 .. Len(rs) + 1 <=> i \in 1 .. Len(rs) \/ i = Len(rs) + 1
    BY <1>2
  <2>. QED
    BY <1>4, <2>4, <2>5, <2>6
<1>9. \A l : LogsFrom(l)' = LogsFrom(l)
  BY <1>3 DEF LogsFrom
<1>10. ASSUME NEW k \in Kept
       PROVE  All(k)' = All(k) \cup x /\ Least(k)' = Least(k)
  <2>. PICK l : l = E[k].log
    OBVIOUS
  <2>1. f \in LogsFrom(l) /\ LogsFrom(l) \subseteq DOMAIN logs
    BY DEF LogsFrom
  <2>2. All(k)' = EntriesOf(Ver(k)) \cup UNION {In(m)' : m \in LogsFrom(l)}
    BY <1>1, <1>9 DEF All
  <2>3. Least(k)' = EntriesOf(Ver(k)) \cup UNION {DurableIn(m)' : m \in LogsFrom(l)}
    BY <1>1, <1>9 DEF Least
  <2>4. /\ All(k) = EntriesOf(Ver(k)) \cup UNION {In(m) : m \in LogsFrom(l)}
        /\ Least(k) = EntriesOf(Ver(k)) \cup UNION {DurableIn(m) : m \in LogsFrom(l)}
    BY DEF All, Least
  <2>5. \A m \in LogsFrom(l) : /\ DurableIn(m)' = DurableIn(m)
                               /\ (m # f => In(m)' = In(m))
    BY <1>6, <1>7, <2>1
  <2>6. ASSUME NEW e
        PROVE  (\E m \in LogsFrom(l) : e \in In(m)') <=> (\E m \in LogsFrom(l) : e \in In(m)) \/ e \in x
    <3>1. ASSUME NEW m \in LogsFrom(l), e \in In(m)'
          PROVE  e \in In(m) \/ e \in x
      <4>1. CASE m = f
        BY <1>8, <3>1, <4>1
      <4>2. CASE m # f
        BY <2>5, <3>1, <4>2
      <4>. QED
        BY <4>1, <4>2
    <3>2. ASSUME NEW m \in LogsFrom(l), e \in In(m)
          PROVE  e \in In(m)'
      <4>1. CASE m = f
        BY <1>8, <3>2, <4>1
      <4>2. CASE m # f
        BY <2>5, <3>2, <4>2
      <4>. QED
        BY <4>1, <4>2
    <3>3. e \in x => e \in In(f)'
      BY <1>8
    <3>. QED
      BY <2>1, <3>1, <3>2, <3>3
  <2>7. \A e : e \in All(k)' <=> e \in All(k) \/ e \in x
    BY <2>2, <2>4, <2>6
  <2>8. Least(k)' = Least(k)
    <3>1. {DurableIn(m)' : m \in LogsFrom(l)} = {DurableIn(m) : m \in LogsFrom(l)}
      BY <2>5
    <3>. QED
      BY <2>3, <2>4, <3>1
  <2>. QED
    BY <2>7, <2>8
<1>11. OnDisk' = OnDisk \cup x
  BY <1>1, <1>10, ManifestIs DEF OnDisk
<1>12. DiskInv'
  BY <1>1, <1>10, <1>11, ManifestIs DEF DiskInv, Readable
<1>. QED
  BY <1>1, <1>5, <1>6, <1>7, <1>8, <1>9, <1>11, <1>12

\* A synced log loses nothing any more.
LEMMA LogSynced ==
  ASSUME DiskTypes, DiskInv, NEW f \in DOMAIN logs,
         logs' = [logs EXCEPT ![f].durable = Len(logs[f].records)],
         UNCHANGED <<tables, manifests, current, synced>>
  PROVE  /\ DiskTypes' /\ DiskInv' /\ E' = E /\ Kept' = Kept /\ Synced' = Synced
         /\ OnDisk' = OnDisk
         /\ \A k : Ver(k)' = Ver(k)
         /\ DOMAIN logs' = DOMAIN logs
         /\ \A m \in DOMAIN logs : In(m)' = In(m)
         /\ DurableIn(f)' = In(f)
         /\ \A l : LogsFrom(l)' = LogsFrom(l)
<1>1. /\ E' = E /\ Kept' = Kept /\ Synced' = Synced /\ \A k : Ver(k)' = Ver(k)
      /\ \A v : EntriesOf(v)' = EntriesOf(v)
  BY DEF E, Kept, Synced, Ver, EntriesOf
<1>. DEFINE rs == logs[f].records
<1>2. /\ rs \in Seq(SUBSET Entries) /\ Len(rs) \in Nat
      /\ logs[f] = [records |-> rs, durable |-> logs[f].durable]
  BY LenProperties DEF DiskTypes
<1>. HIDE DEF rs
<1>3. /\ DOMAIN logs' = DOMAIN logs
      /\ \A m \in DOMAIN logs \ {f} : logs'[m] = logs[m]
      /\ logs'[f] = [records |-> rs, durable |-> Len(rs)]
  BY <1>2 DEF rs
<1>4. DiskTypes'
  <2>1. \A m \in DOMAIN logs \ {f} : /\ logs'[m] = [records |-> logs'[m].records, durable |-> logs'[m].durable]
                                     /\ logs'[m].records \in Seq(SUBSET Entries)
                                     /\ logs'[m].durable \in 0 .. Len(logs'[m].records)
    BY <1>3 DEF DiskTypes
  <2>2. /\ logs'[f] = [records |-> logs'[f].records, durable |-> logs'[f].durable]
        /\ logs'[f].records \in Seq(SUBSET Entries)
        /\ logs'[f].durable \in 0 .. Len(logs'[f].records)
    BY <1>2, <1>3
  <2>. QED
    BY <1>3, <2>1, <2>2 DEF DiskTypes
<1>5. \A m \in DOMAIN logs \ {f} : In(m)' = In(m) /\ DurableIn(m)' = DurableIn(m)
  BY <1>3 DEF In, DurableIn, EntriesIn
<1>6. In(f)' = In(f)
  BY <1>2, <1>3 DEF In, EntriesIn
<1>7. DurableIn(f)' = In(f)
  <2>1. SubSeq(rs, 1, Len(rs)) = rs
    BY <1>2, WholePrefix
  <2>2. DurableIn(f)' = UNION Range(rs)
    BY <1>3, <2>1 DEF DurableIn
  <2>. QED
    BY <2>2 DEF In, EntriesIn, rs
<1>8. DurableIn(f) \subseteq In(f)
  BY LogIs
<1>9. \A l : LogsFrom(l)' = LogsFrom(l)
  BY <1>3 DEF LogsFrom
<1>10. ASSUME NEW k
       PROVE  All(k)' = All(k) /\ Least(k) \subseteq Least(k)'
  <2>. PICK l : l = E[k].log
    OBVIOUS
  <2>1. LogsFrom(l) \subseteq DOMAIN logs
    BY DEF LogsFrom
  <2>2. All(k)' = EntriesOf(Ver(k)) \cup UNION {In(m)' : m \in LogsFrom(l)}
    BY <1>1, <1>9 DEF All
  <2>3. Least(k)' = EntriesOf(Ver(k)) \cup UNION {DurableIn(m)' : m \in LogsFrom(l)}
    BY <1>1, <1>9 DEF Least
  <2>4. /\ All(k) = EntriesOf(Ver(k)) \cup UNION {In(m) : m \in LogsFrom(l)}
        /\ Least(k) = EntriesOf(Ver(k)) \cup UNION {DurableIn(m) : m \in LogsFrom(l)}
    BY DEF All, Least
  <2>5. UNION {In(m)' : m \in LogsFrom(l)} = UNION {In(m) : m \in LogsFrom(l)}
    BY <1>5, <1>6, <2>1
  <2>6. UNION {DurableIn(m) : m \in LogsFrom(l)} \subseteq UNION {DurableIn(m)' : m \in LogsFrom(l)}
    BY <1>5, <1>7, <1>8, <2>1
  <2>. QED
    BY <2>2, <2>3, <2>4, <2>5, <2>6
<1>11. OnDisk' = OnDisk
  BY <1>1, <1>10 DEF OnDisk
<1>12. DiskInv'
  <2>1. ASSUME NEW k \in Kept PROVE synced \subseteq Least(k)'
    BY <1>10 DEF DiskInv
  <2>2. ASSUME NEW k \in Kept PROVE Readable(Ver(k), E[k].next, E[k].seq)'
    BY <1>1 DEF DiskInv, Readable
  <2>. QED
    BY <1>1, <1>10, <1>11, <2>1, <2>2 DEF DiskInv
<1>. QED
  BY <1>1, <1>3, <1>4, <1>5, <1>6, <1>7, <1>9, <1>11, <1>12

LEMMA InTables ==
  ASSUME NEW v
  PROVE  \A e : e \in EntriesOf(v) <=> \E n \in TablesOf(v) : e \in tables[n]
BY Zenon DEF EntriesOf

\* What an edit makes of a version: what it adds has what it deletes.
LEMMA ApplyIs ==
  ASSUME NEW v, NEW next \in Nat, NEW seq \in Nat, DiskTypes,
         Readable(v, next, seq), bg.edit.next \in Nat, bg.edit.seq \in Nat,
         next <= bg.edit.next, seq <= bg.edit.seq,
         Readable(Added, bg.edit.next, bg.edit.seq),
         UNION {tables[n] : n \in bg.edit.deleted} \subseteq EntriesOf(Added)
  PROVE  /\ Readable(Apply(v, bg.edit), bg.edit.next, bg.edit.seq)
         /\ EntriesOf(Apply(v, bg.edit)) = EntriesOf(v) \cup EntriesOf(Added)
         /\ TablesOf(Apply(v, bg.edit)) = (TablesOf(v) \ bg.edit.deleted) \cup TablesOf(Added)
<1>1. TablesOf(Apply(v, bg.edit)) = (TablesOf(v) \ bg.edit.deleted) \cup TablesOf(Added)
  BY DEF TablesOf, Apply, Added
<1>2. ASSUME NEW n \in TablesOf(v)
      PROVE  n \in DOMAIN tables /\ n < bg.edit.next /\ tables[n] # {}
             /\ \A e \in tables[n] : e.seq <= bg.edit.seq
  <2>1. /\ n \in DOMAIN tables /\ n < next /\ tables[n] # {} /\ n \in Nat
        /\ \A e \in tables[n] : e.seq <= seq /\ e.seq \in Nat
    BY DEF Readable, DiskTypes, Entries
  <2>. QED
    BY <2>1
<1>3. Readable(Apply(v, bg.edit), bg.edit.next, bg.edit.seq)
  BY <1>1, <1>2 DEF Readable
<1>4. EntriesOf(Apply(v, bg.edit)) = EntriesOf(v) \cup EntriesOf(Added)
  <2>1. ASSUME NEW e \in EntriesOf(Apply(v, bg.edit)) PROVE e \in EntriesOf(v) \cup EntriesOf(Added)
    BY <1>1, InTables
  <2>2. ASSUME NEW e \in EntriesOf(Added) PROVE e \in EntriesOf(Apply(v, bg.edit))
    BY <1>1, InTables
  <2>3. ASSUME NEW e \in EntriesOf(v) PROVE e \in EntriesOf(Apply(v, bg.edit))
    <3>1. PICK n \in TablesOf(v) : e \in tables[n]
      BY InTables
    <3>2. CASE n \in bg.edit.deleted
      BY <2>2, <3>1, <3>2
    <3>3. CASE n \notin bg.edit.deleted
      BY <1>1, <3>1, <3>3, InTables
    <3>. QED
      BY <3>2, <3>3
  <2>. QED
    BY <2>1, <2>2, <2>3
<1>. QED
  BY <1>1, <1>3, <1>4

\* The edit of the background thread: without it nothing is missing, and with it
\* the tables have what the logs before its own had.
LEMMA EditAdded ==
  ASSUME DiskTypes, MemoryTypes, DiskInv, OrderInv, ReadInv, VersionInv, LogInv, WorkInv,
         bg.phase = "manifest", damage = "none",
         NEW d \in {Synced, Len(E) + 1},
         manifests' = [manifests EXCEPT ![current] =
                         [edits |-> Append(E, bg.edit), durable |-> d]],
         UNCHANGED <<logs, tables, current, synced>>
  PROVE  /\ DiskTypes' /\ DiskInv' /\ OnDisk' = OnDisk /\ Synced' = d
         /\ Len(E') = Len(E) + 1 /\ E'[Len(E) + 1] = bg.edit
         /\ \A k \in 1 .. Len(E) : E'[k] = E[k] /\ Ver(k)' = Ver(k)
         /\ \A k : k = Len(E) + 1 => Ver(k)' = Apply(Ver(Len(E)), bg.edit)
<1>. DEFINE n == Len(E)
<1>. PICK w : w = Apply(Ver(n), bg.edit)
  OBVIOUS
<1>1. /\ E \in Seq(Edits) /\ n \in Nat /\ n \in Kept /\ bg.edit \in Edits /\ bg.edit.log \in Nat
      /\ bg.edit.next \in Nat /\ bg.edit.seq \in Nat
      /\ Synced \in 1 .. n /\ n >= 1
  BY ManifestIs DEF WorkInv, ThreadInv, Edits
<1>. PICK more : more = Append(E, bg.edit)
  OBVIOUS
<1>2. /\ more \in Seq(Edits) /\ Len(more) = n + 1
      /\ \A i \in 1 .. n : more[i] = E[i]
      /\ more[n + 1] = bg.edit
  BY <1>1, AppendProperties
<1>3. E' = more /\ Synced' = d /\ DOMAIN manifests' = DOMAIN manifests
  BY DEF E, Synced, DiskTypes
<1>4. DiskTypes'
  <2>1. \A m \in DOMAIN manifests \ {current} : manifests'[m] = manifests[m]
    OBVIOUS
  <2>2. manifests'[current] = [edits |-> more, durable |-> d] /\ d \in 1 .. Len(more)
    BY <1>1, <1>2 DEF DiskTypes
  <2>3. \A m \in DOMAIN manifests \ {current} :
          /\ manifests'[m] = [edits |-> manifests'[m].edits, durable |-> manifests'[m].durable]
          /\ manifests'[m].edits \in Seq(Edits)
          /\ manifests'[m].durable \in 1 .. Len(manifests'[m].edits)
    BY <2>1 DEF DiskTypes
  <2>4. /\ manifests'[current] = [edits |-> manifests'[current].edits, durable |-> manifests'[current].durable]
        /\ manifests'[current].edits \in Seq(Edits)
        /\ manifests'[current].durable \in 1 .. Len(manifests'[current].edits)
    <3>1. manifests'[current].edits = more /\ manifests'[current].durable = d
      BY <2>2
    <3>. QED
      BY <1>2, <2>2, <3>1
  <2>. QED
    BY <1>3, <2>3, <2>4 DEF DiskTypes
<1>5. ASSUME NEW k \in 1 .. n PROVE Ver(k)' = Ver(k)
  <2>1. SubSeq(more, 1, k) = SubSeq(E, 1, k)
    BY <1>1, PrefixOfAppend
  <2>2. Ver(k)' = VersionOf(SubSeq(more, 1, k))
    BY <1>3 DEF Ver
  <2>. QED
    BY <2>1, <2>2 DEF Ver
<1>6. ASSUME NEW k, k = n + 1 PROVE Ver(k)' = w
  <2>1. SubSeq(more, 1, k) = more
    BY <1>2, <1>6, WholePrefix
  <2>2. Ver(k)' = VersionOf(more)
    BY <1>3, <2>1 DEF Ver
  <2>3. VersionOf(more) = Apply(VersionOf(E), bg.edit)
    BY <1>1, VersionAppend
  <2>4. VersionOf(E) = Ver(n)
    BY ManifestIs
  <2>. QED
    BY <2>2, <2>3, <2>4
<1>7. /\ \A v : EntriesOf(v)' = EntriesOf(v)
      /\ \A m : In(m)' = In(m) /\ DurableIn(m)' = DurableIn(m)
      /\ \A l : LogsFrom(l)' = LogsFrom(l)
      /\ \A v, next, seq : Readable(v, next, seq)' = Readable(v, next, seq)
  BY DEF EntriesOf, In, DurableIn, LogsFrom, EntriesIn, Readable
<1>8. ASSUME NEW k \in 1 .. n PROVE All(k)' = All(k) /\ Least(k)' = Least(k)
  BY <1>2, <1>3, <1>5, <1>7, <1>8 DEF All, Least
<1>9. ASSUME NEW k, k = n + 1
      PROVE  /\ All(k)' = EntriesOf(w) \cup UNION {In(m) : m \in LogsFrom(bg.edit.log)}
             /\ Least(k)' = EntriesOf(w) \cup UNION {DurableIn(m) : m \in LogsFrom(bg.edit.log)}
  BY <1>2, <1>3, <1>6, <1>7, <1>9 DEF All, Least
<1>0. /\ Readable(w, bg.edit.next, bg.edit.seq)
      /\ EntriesOf(w) = EntriesOf(Ver(n)) \cup EntriesOf(Added)
  <2>1. Readable(Ver(n), E[n].next, E[n].seq) /\ E[n].next \in Nat /\ E[n].seq \in Nat
    BY <1>1, ManifestIs DEF DiskInv
  <2>2. /\ E[n].next <= bg.edit.next /\ E[n].seq <= bg.edit.seq
        /\ Readable(Added, bg.edit.next, bg.edit.seq)
        /\ UNION {tables[m] : m \in bg.edit.deleted} \subseteq EntriesOf(Added)
    BY DEF WorkInv, ThreadInv
  <2>. QED
    BY <1>1, <2>1, <2>2, ApplyIs
<1>10. /\ EntriesOf(w) \cup UNION {In(m) : m \in LogsFrom(bg.edit.log)} = OnDisk
       /\ synced \subseteq EntriesOf(w) \cup UNION {DurableIn(m) : m \in LogsFrom(bg.edit.log)}
  <2>. PICK c : c = E[n].log
    OBVIOUS
  <2>1. /\ OnDisk = EntriesOf(Ver(n)) \cup UNION {In(m) : m \in LogsFrom(c)}
        /\ synced \subseteq EntriesOf(Ver(n)) \cup UNION {DurableIn(m) : m \in LogsFrom(c)}
    BY <1>1 DEF OnDisk, All, Least, DiskInv
  <2>2. /\ logfileNumber \in DOMAIN logs /\ logNumber \in Nat /\ logfileNumber \in Nat
        /\ logNumber <= logfileNumber /\ c \in Nat /\ logNumber <= c /\ c <= logfileNumber
    BY <1>1, ManifestIs DEF LogInv, MemoryTypes, VersionInv, Noted
  <2>3. LogsFrom(logfileNumber) = {logfileNumber}
    BY <2>2 DEF LogInv, LogsFrom, DiskTypes
  <2>4. /\ LogsFrom(logNumber) = (LogsFrom(logNumber) \ {logfileNumber}) \cup {logfileNumber}
        /\ LogsFrom(c) \subseteq LogsFrom(logNumber)
    <3>1. \A m \in DOMAIN logs : m \in Nat
      BY DEF DiskTypes
    <3>2. logfileNumber \in LogsFrom(logNumber)
      BY <2>2 DEF LogsFrom
    <3>3. LogsFrom(c) \subseteq LogsFrom(logNumber)
      BY <2>2, <3>1 DEF LogsFrom
    <3>. QED
      BY <3>2, <3>3
  <2>5. Imm = UNION {In(m) : m \in LogsFrom(logNumber) \ {logfileNumber}}
    BY DEF LogInv
  <2>6. ASSUME NEW m \in LogsFrom(logNumber) PROVE DurableIn(m) \subseteq In(m)
    BY LogIs DEF LogsFrom
  <2>7. UNION {In(m) : m \in LogsFrom(logNumber)} = Imm \cup In(logfileNumber)
    BY <2>4, <2>5
  <2>8. /\ UNION {In(m) : m \in LogsFrom(c)} \subseteq UNION {In(m) : m \in LogsFrom(logNumber)}
        /\ UNION {DurableIn(m) : m \in LogsFrom(c)}
             \subseteq UNION {DurableIn(m) : m \in LogsFrom(logNumber)}
    BY <2>4
  <2>9. EntriesOf(version) \subseteq OnDisk /\ Imm \subseteq OnDisk /\ In(logfileNumber) \subseteq OnDisk
    BY OpenOnDisk
  <2>10. CASE bg.kind # "flush"
    <3>1. bg.edit.log = logNumber /\ EntriesOf(Added) \subseteq EntriesOf(version)
      BY <2>10 DEF WorkInv, ThreadInv
    <3>2. EntriesOf(w) \cup Imm \cup In(logfileNumber) = OnDisk
      BY <1>0, <2>1, <2>7, <2>8, <2>9, <3>1
    <3>. QED
      BY <1>0, <2>1, <2>7, <2>8, <3>1, <3>2
  <2>11. CASE bg.kind = "flush"
    <3>1. bg.edit.log = logfileNumber /\ EntriesOf(Added) = Imm
      BY <2>11 DEF WorkInv, ThreadInv
    <3>2. UNION {DurableIn(m) : m \in LogsFrom(logNumber)} \subseteq Imm \cup DurableIn(logfileNumber)
      BY <2>4, <2>5, <2>6
    <3>3. /\ UNION {In(m) : m \in LogsFrom(bg.edit.log)} = In(logfileNumber)
          /\ UNION {DurableIn(m) : m \in LogsFrom(bg.edit.log)} = DurableIn(logfileNumber)
      BY <2>3, <3>1
    <3>4. EntriesOf(w) \cup In(logfileNumber) = OnDisk
      BY <1>0, <2>1, <2>7, <2>8, <2>9, <3>1
    <3>. QED
      BY <1>0, <2>1, <2>8, <3>1, <3>2, <3>3, <3>4
  <2>. QED
    BY <2>10, <2>11
<1>11. OnDisk' = OnDisk
  <2>. PICK k : k = n + 1
    OBVIOUS
  <2>1. OnDisk' = All(k)'
    BY <1>2, <1>3 DEF OnDisk
  <2>. QED
    BY <1>9, <1>10, <2>1
<1>12. Kept' \subseteq Kept \cup {n + 1} /\ Kept \subseteq 1 .. n
  BY <1>1, <1>2, <1>3, ManifestIs DEF Kept
<1>13. ASSUME NEW k \in Kept
       PROVE  /\ Readable(Ver(k), E[k].next, E[k].seq)'
              /\ current' < E'[k].next /\ E'[k].log < E'[k].next /\ E'[k].next <= E'[Len(E')].next
              /\ All(k)' = OnDisk'
              /\ synced' \subseteq Least(k)'
  <2>1. k \in 1 .. n /\ E'[k] = E[k] /\ Ver(k)' = Ver(k)
    BY <1>2, <1>3, <1>5, <1>12
  <2>2. Readable(Ver(k), E[k].next, E[k].seq)'
    BY <1>7, <2>1 DEF DiskInv
  <2>3. E[k].next \in Nat /\ E[n].next \in Nat /\ bg.edit.next \in Nat /\ E[k].next <= E[n].next
    BY <1>1, <2>1, ManifestIs DEF DiskInv, Edits
  <2>4. E[n].next <= bg.edit.next /\ E'[Len(E')] = bg.edit
    BY <1>2, <1>3 DEF WorkInv, ThreadInv
  <2>5. E'[k].next <= E'[Len(E')].next
    BY <2>1, <2>3, <2>4
  <2>. QED
    BY <1>8, <1>11, <2>1, <2>2, <2>5 DEF DiskInv
<1>14. ASSUME NEW k, k = n + 1
       PROVE  /\ Readable(Ver(k), E[k].next, E[k].seq)'
              /\ current' < E'[k].next /\ E'[k].log < E'[k].next /\ E'[k].next <= E'[Len(E')].next
              /\ All(k)' = OnDisk'
              /\ synced' \subseteq Least(k)'
  <2>1. E'[k] = bg.edit /\ E'[Len(E')] = bg.edit /\ Ver(k)' = w
    BY <1>2, <1>3, <1>6, <1>14
  <2>2. Readable(Ver(k), E[k].next, E[k].seq)'
    BY <1>0, <1>7, <2>1
  <2>3. bg.edit.next \in Nat
    BY <1>1
  <2>4. /\ current' < E'[k].next /\ E'[k].log < E'[k].next /\ E'[k].next <= E'[Len(E')].next
    BY <2>1, <2>3 DEF WorkInv, ThreadInv
  <2>. QED
    BY <1>9, <1>10, <1>11, <1>14, <2>2, <2>4
<1>15. DiskInv'
  BY <1>12, <1>13, <1>14 DEF DiskInv
<1>. QED
  BY <1>2, <1>3, <1>4, <1>5, <1>6, <1>11, <1>15

\* What DeleteObsoleteFiles removes is needed by no edit that counts.
LEMMA FilesDeleted ==
  ASSUME DiskTypes, DiskInv, Synced = Len(E), manifestNumber = current,
         NEW p, NEW c, DeleteObsoleteFiles(Ver(Len(E)), E[Len(E)].log, p, c),
         UNCHANGED <<current, synced>>
  PROVE  /\ DiskTypes' /\ DiskInv' /\ E' = E /\ Synced' = Synced /\ OnDisk' = OnDisk
         /\ \A k : Ver(k)' = Ver(k)
         /\ DOMAIN logs' = LogsFrom(E[Len(E)].log)
         /\ \A m \in LogsFrom(E[Len(E)].log) : In(m)' = In(m) /\ DurableIn(m)' = DurableIn(m)
         /\ DOMAIN tables' \subseteq DOMAIN tables
         /\ \A m \in (Live(Ver(Len(E)), c) \cup p) \cap DOMAIN tables : m \in DOMAIN tables'
         /\ \A m \in DOMAIN tables' : tables'[m] = tables[m]
<1>. DEFINE k == Len(E)
<1>. PICK l : l = E[k].log
  OBVIOUS
<1>. PICK v : v = Ver(k)
  OBVIOUS
<1>1. /\ k \in Nat /\ k \in Kept /\ Kept = {k} /\ l \in Nat /\ k \in 1 .. Len(E)
  BY ManifestIs DEF Kept
<1>2. /\ DOMAIN logs' = LogsFrom(l) /\ \A m \in LogsFrom(l) : logs'[m] = logs[m]
      /\ LogsFrom(l) \subseteq DOMAIN logs
  BY DEF DeleteObsoleteFiles, Restrict, LogsFrom
<1>3. /\ DOMAIN tables' = DOMAIN tables \cap (Live(v, c) \cup p)
      /\ \A m \in DOMAIN tables' : tables'[m] = tables[m]
  BY DEF DeleteObsoleteFiles, Restrict
<1>4. /\ current \in DOMAIN manifests' /\ DOMAIN manifests' \subseteq DOMAIN manifests
      /\ \A m \in DOMAIN manifests' : manifests'[m] = manifests[m]
  BY DEF DeleteObsoleteFiles, Restrict, DiskTypes
<1>5. /\ E' = E /\ Synced' = Synced /\ Kept' = Kept
  BY <1>4 DEF E, Synced, Kept
<1>6. \A j : Ver(j)' = Ver(j)
  BY <1>5 DEF Ver
<1>7. \A m \in LogsFrom(l) : In(m)' = In(m) /\ DurableIn(m)' = DurableIn(m)
  BY <1>2 DEF In, DurableIn, EntriesIn
<1>8. LogsFrom(l)' = LogsFrom(l)
  BY <1>1, <1>2 DEF LogsFrom
<1>9. DiskTypes'
  <2>1. DOMAIN logs' \subseteq Nat /\ DOMAIN tables' \subseteq Nat /\ DOMAIN manifests' \subseteq Nat
    BY <1>2, <1>3, <1>4 DEF DiskTypes
  <2>2. \A n \in DOMAIN logs' : n \in DOMAIN logs /\ logs'[n] = logs[n]
    BY <1>2
  <2>3. \A n \in DOMAIN tables' : n \in DOMAIN tables /\ tables'[n] = tables[n]
    BY <1>3
  <2>. QED
    BY <1>4, <2>1, <2>2, <2>3 DEF DiskTypes
<1>10. \A m \in TablesOf(v) : m \in DOMAIN tables /\ m \in DOMAIN tables' /\ tables'[m] = tables[m]
  <2>1. \A m \in TablesOf(v) : m \in DOMAIN tables
    BY <1>1 DEF DiskInv, Readable
  <2>. QED
    BY <1>3, <2>1 DEF Live
<1>11. EntriesOf(v)' = EntriesOf(v)
  BY <1>10 DEF EntriesOf
<1>12. All(k)' = All(k) /\ Least(k)' = Least(k)
  <2>1. All(k)' = EntriesOf(v)' \cup UNION {In(m)' : m \in LogsFrom(l)'}
    BY <1>5, <1>6 DEF All
  <2>2. Least(k)' = EntriesOf(v)' \cup UNION {DurableIn(m)' : m \in LogsFrom(l)'}
    BY <1>5, <1>6 DEF Least
  <2>3. /\ All(k) = EntriesOf(v) \cup UNION {In(m) : m \in LogsFrom(l)}
        /\ Least(k) = EntriesOf(v) \cup UNION {DurableIn(m) : m \in LogsFrom(l)}
    BY DEF All, Least
  <2>4. /\ {In(m)' : m \in LogsFrom(l)} = {In(m) : m \in LogsFrom(l)}
        /\ {DurableIn(m)' : m \in LogsFrom(l)} = {DurableIn(m) : m \in LogsFrom(l)}
    BY <1>7
  <2>. QED
    BY <1>8, <1>11, <2>1, <2>2, <2>3, <2>4
<1>13. OnDisk' = OnDisk
  BY <1>5, <1>12 DEF OnDisk
<1>14. Readable(v, E[k].next, E[k].seq)'
  <2>1. Readable(v, E[k].next, E[k].seq)
    BY <1>1 DEF DiskInv
  <2>. QED
    BY <1>5, <1>10, <2>1 DEF Readable
<1>15. DiskInv'
  <2>1. Kept' = {k} /\ E' = E /\ Ver(k)' = v
    BY <1>1, <1>5, <1>6
  <2>2. /\ current' < E[k].next /\ E[k].log < E[k].next /\ synced' \subseteq Least(k)'
    BY <1>1, <1>12 DEF DiskInv
  <2>3. E[k].next <= E[k].next
    BY <1>1, ManifestIs
  <2>. PICK j : j = k
    OBVIOUS
  <2>4. /\ Readable(Ver(j), E[j].next, E[j].seq)'
        /\ current' < E'[j].next /\ E'[j].log < E'[j].next /\ E'[j].next <= E'[Len(E')].next
        /\ All(j)' = OnDisk' /\ synced' \subseteq Least(j)'
    <3>1. Readable(Ver(j), E[j].next, E[j].seq)'
      BY <1>5, <1>6, <1>14
    <3>2. current' < E'[j].next /\ E'[j].log < E'[j].next /\ E'[j].next <= E'[Len(E')].next
      BY <1>5, <2>2, <2>3
    <3>3. All(j)' = OnDisk' /\ synced' \subseteq Least(j)'
      BY <1>5, <1>12, <1>13, <2>2 DEF OnDisk
    <3>. QED
      BY <3>1, <3>2, <3>3
  <2>5. Kept' = {j}
    BY <2>1
  <2>. QED
    BY <2>4, <2>5 DEF DiskInv
<1>. QED
  BY <1>2, <1>3, <1>5, <1>6, <1>7, <1>9, <1>13, <1>15

\* The machine fails: what is left is between what was synced and what was written.
LEMMA FilesCut ==
  ASSUME DiskTypes, DiskInv, NEW cut \in [DOMAIN logs -> 0 .. MaxWrites],
         \A n \in DOMAIN logs : cut[n] \in logs[n].durable .. AllRecords[n],
         logs' = [n \in DOMAIN logs |->
                    [records |-> SubSeq(logs[n].records, 1, cut[n]), durable |-> cut[n]]],
         NEW k \in Kept,
         manifests' = [manifests EXCEPT ![current] =
                         [edits |-> SubSeq(E, 1, k), durable |-> k]],
         UNCHANGED <<tables, current, synced>>
  PROVE  /\ DiskTypes' /\ DiskInv' /\ OnDisk' \subseteq OnDisk /\ synced \subseteq OnDisk'
<1>1. /\ E \in Seq(Edits) /\ k \in 1 .. Len(E) /\ Len(E) \in Nat
  BY ManifestIs
<1>0. PICK less : less = SubSeq(E, 1, k)
  OBVIOUS
<1>2. /\ less \in Seq(Edits) /\ Len(less) = k /\ \A i \in 1 .. k : less[i] = E[i]
  BY <1>0, <1>1, PrefixIs
<1>3. /\ E' = less /\ Synced' = k /\ DOMAIN manifests' = DOMAIN manifests
      /\ \A m \in DOMAIN manifests \ {current} : manifests'[m] = manifests[m]
      /\ manifests'[current] = [edits |-> less, durable |-> k]
  BY <1>0 DEF E, Synced, DiskTypes
<1>4. ASSUME NEW n \in DOMAIN logs
      PROVE  /\ logs'[n] = [records |-> logs'[n].records, durable |-> logs'[n].durable]
             /\ logs'[n].records \in Seq(SUBSET Entries)
             /\ logs'[n].durable \in 0 .. Len(logs'[n].records)
             /\ DurableIn(n) \subseteq DurableIn(n)' /\ DurableIn(n)' = In(n)'
             /\ In(n)' \subseteq In(n)
  <2>. DEFINE rs == logs[n].records
              d == logs[n].durable
  <2>1. rs \in Seq(SUBSET Entries) /\ d \in 0 .. Len(rs) /\ Len(rs) \in Nat
    BY LenProperties DEF DiskTypes
  <2>2. cut[n] \in d .. Len(rs) /\ cut[n] \in 0 .. Len(rs)
    BY <2>1 DEF AllRecords
  <2>. PICK cs : cs = SubSeq(rs, 1, cut[n])
    OBVIOUS
  <2>3. cs \in Seq(SUBSET Entries) /\ Len(cs) = cut[n] /\ \A i \in 1 .. cut[n] : cs[i] = rs[i]
    BY <2>1, <2>2, PrefixIs
  <2>4. logs'[n] = [records |-> cs, durable |-> cut[n]]
    OBVIOUS
  <2>5. logs'[n].records = cs /\ logs'[n].durable = cut[n]
    BY <2>4
  <2>6. DOMAIN cs = 1 .. cut[n]
    BY <2>3, LenProperties
  <2>7. In(n)' = UNION Range(cs)
    BY <2>5 DEF In, EntriesIn
  <2>8. DurableIn(n)' = UNION Range(cs)
    <3>1. SubSeq(cs, 1, cut[n]) = cs
      BY <2>3, WholePrefix
    <3>2. DurableIn(n)' = UNION Range(SubSeq(cs, 1, cut[n]))
      BY <2>5 DEF DurableIn
    <3>. QED
      BY <3>1, <3>2
  <2>9. UNION Range(cs) = UNION {rs[i] : i \in 1 .. cut[n]}
    BY <2>3, <2>6 DEF Range
  <2>10. In(n) = UNION {rs[i] : i \in 1 .. Len(rs)} /\ DurableIn(n) = UNION {rs[i] : i \in 1 .. d}
    BY LogIs
  <2>11. /\ UNION {rs[i] : i \in 1 .. cut[n]} \subseteq UNION {rs[i] : i \in 1 .. Len(rs)}
         /\ UNION {rs[i] : i \in 1 .. d} \subseteq UNION {rs[i] : i \in 1 .. cut[n]}
    <3>. HIDE DEF rs, d
    <3>. QED
      BY <2>1, <2>2
  <2>12. cut[n] \in 0 .. Len(cs)
    BY <2>2, <2>3
  <2>13. logs'[n] = [records |-> logs'[n].records, durable |-> logs'[n].durable]
    BY <2>4, <2>5
  <2>. HIDE DEF rs, d
  <2>. QED
    BY <2>3, <2>5, <2>7, <2>8, <2>9, <2>10, <2>11, <2>12, <2>13
<1>5. DOMAIN logs' = DOMAIN logs
  OBVIOUS
<1>6. DiskTypes'
  <2>1. \A m \in DOMAIN manifests \ {current} :
          /\ manifests'[m] = [edits |-> manifests'[m].edits, durable |-> manifests'[m].durable]
          /\ manifests'[m].edits \in Seq(Edits)
          /\ manifests'[m].durable \in 1 .. Len(manifests'[m].edits)
    BY <1>3 DEF DiskTypes
  <2>2. manifests'[current].edits = less /\ manifests'[current].durable = k
    <3>1. manifests'[current] = [edits |-> less, durable |-> k]
      BY <1>3
    <3>. QED
      BY <3>1
  <2>3. manifests'[current] = [edits |-> manifests'[current].edits, durable |-> manifests'[current].durable]
    BY <1>3, <2>2
  <2>4. k \in 1 .. Len(less)
    BY <1>1, <1>2
  <2>5. \A m \in DOMAIN manifests' :
          /\ manifests'[m] = [edits |-> manifests'[m].edits, durable |-> manifests'[m].durable]
          /\ manifests'[m].edits \in Seq(Edits)
          /\ manifests'[m].durable \in 1 .. Len(manifests'[m].edits)
    BY <1>2, <1>3, <2>1, <2>2, <2>3, <2>4
  <2>6. \A n \in DOMAIN logs' :
           /\ logs'[n] = [records |-> logs'[n].records, durable |-> logs'[n].durable]
           /\ logs'[n].records \in Seq(SUBSET Entries)
           /\ logs'[n].durable \in 0 .. Len(logs'[n].records)
    BY <1>4, <1>5
  <2>7. /\ DOMAIN logs' \subseteq Nat /\ DOMAIN tables' \subseteq Nat /\ DOMAIN manifests' \subseteq Nat
        /\ current' \in DOMAIN manifests'
        /\ \A n \in DOMAIN tables' : tables'[n] \subseteq Entries
    BY <1>3, <1>5 DEF DiskTypes
  <2>. QED
    BY <2>5, <2>6, <2>7 DEF DiskTypes
<1>7. Ver(k)' = Ver(k) /\ E'[k] = E[k] /\ Kept' = {k} /\ Len(E') = k
  <2>1. SubSeq(less, 1, k) = less
    BY <1>1, <1>2, WholePrefix
  <2>2. Ver(k)' = VersionOf(SubSeq(less, 1, k))
    BY <1>3 DEF Ver
  <2>3. Kept' = k .. Len(less)
    BY <1>3 DEF Kept
  <2>. QED
    <3>1. Ver(k)' = Ver(k)
      BY <1>0, <2>1, <2>2 DEF Ver
    <3>2. E'[k] = E[k] /\ Len(E') = k
      BY <1>1, <1>2, <1>3
    <3>3. k .. Len(less) = {k}
      BY <1>1, <1>2
    <3>. QED
      BY <2>3, <3>1, <3>2, <3>3
<1>8. /\ \A v : EntriesOf(v)' = EntriesOf(v)
      /\ \A v, next, seq : Readable(v, next, seq)' = Readable(v, next, seq)
      /\ \A l : LogsFrom(l)' = LogsFrom(l)
  BY <1>5 DEF EntriesOf, Readable, LogsFrom
<1>9. All(k)' \subseteq All(k) /\ Least(k) \subseteq Least(k)' /\ Least(k)' = All(k)'
  <2>. PICK l : l = E[k].log
    OBVIOUS
  <2>1. LogsFrom(l) \subseteq DOMAIN logs
    BY DEF LogsFrom
  <2>2. All(k)' = EntriesOf(Ver(k)) \cup UNION {In(m)' : m \in LogsFrom(l)}
    BY <1>7, <1>8 DEF All
  <2>3. Least(k)' = EntriesOf(Ver(k)) \cup UNION {DurableIn(m)' : m \in LogsFrom(l)}
    BY <1>7, <1>8 DEF Least
  <2>4. /\ All(k) = EntriesOf(Ver(k)) \cup UNION {In(m) : m \in LogsFrom(l)}
        /\ Least(k) = EntriesOf(Ver(k)) \cup UNION {DurableIn(m) : m \in LogsFrom(l)}
    BY DEF All, Least
  <2>5. UNION {In(m)' : m \in LogsFrom(l)} \subseteq UNION {In(m) : m \in LogsFrom(l)}
    BY <1>4, <2>1
  <2>6. UNION {DurableIn(m) : m \in LogsFrom(l)} \subseteq UNION {DurableIn(m)' : m \in LogsFrom(l)}
    <3>1. ASSUME NEW m \in LogsFrom(l) PROVE DurableIn(m) \subseteq DurableIn(m)'
      BY <1>4, <2>1
    <3>. QED
      BY <3>1
  <2>7. {DurableIn(m)' : m \in LogsFrom(l)} = {In(m)' : m \in LogsFrom(l)}
    BY <1>4, <2>1
  <2>. QED
    BY <2>2, <2>3, <2>4, <2>5, <2>6, <2>7
<1>10. OnDisk' = All(k)'
  BY <1>7 DEF OnDisk
<1>11. /\ OnDisk' \subseteq OnDisk /\ synced \subseteq Least(k)'
  BY <1>9, <1>10 DEF DiskInv
<1>12. Readable(Ver(k), E[k].next, E[k].seq)'
  BY <1>7, <1>8 DEF DiskInv
<1>13. DiskInv'
  <2>1. E'[k].next <= E'[Len(E')].next
    BY <1>1, <1>7, ManifestIs
  <2>2. current' < E'[k].next /\ E'[k].log < E'[k].next
    BY <1>7 DEF DiskInv
  <2>. QED
    BY <1>7, <1>10, <1>11, <1>12, <2>1, <2>2 DEF DiskInv
<1>. QED
  BY <1>6, <1>9, <1>10, <1>11, <1>13

-----------------------------------------------------------------------------
(***************************************************************************)
(* Calls, and the leader of the queue.                                     *)
(***************************************************************************)

LEMMA FrameDiskTypes ==
  ASSUME DiskTypes, UNCHANGED disk
  PROVE  DiskTypes'
BY DEF DiskTypes, disk

LEMMA FrameMemoryTypes ==
  ASSUME MemoryTypes, UNCHANGED <<memory, vset>>
  PROVE  MemoryTypes'
<1>1. Imm' = Imm
  BY DEF Imm, memory
<1>. QED
  BY <1>1 DEF MemoryTypes, memory, vset

LEMMA FrameWorkTypes ==
  ASSUME WorkTypes, UNCHANGED <<bg, compaction, damage>>
  PROVE  WorkTypes'
BY DEF WorkTypes

\* The files keep their contents, the memtable that is on its way into a table too.
LEMMA FrameWork ==
  ASSUME WorkInv, WorkTypes, MemoryTypes,
         UNCHANGED <<tables, manifests, current, version, logNumber, bg, compaction, pendingOutputs>>,
         nextFile' \in Nat, nextFile' >= nextFile, lastSequence' \in Nat, lastSequence' >= lastSequence,
         bg.kind = "flush" => UNCHANGED <<imm, logfileNumber>>
  PROVE  WorkInv'
<1>1. /\ E' = E /\ Kept' = Kept /\ \A k : Ver(k)' = Ver(k)
      /\ Compacting' = Compacting /\ Added' = Added
      /\ bg.kind = "flush" => Imm' = Imm
  BY DEF E, Kept, Synced, Ver, Compacting, Added, Imm
<1>2. /\ \A v : EntriesOf(v)' = EntriesOf(v)
      /\ \A v, next, seq : Readable(v, next, seq)' = Readable(v, next, seq)
  BY DEF EntriesOf, Readable
<1>3. /\ EntriesOf(Added)' = EntriesOf(Added) /\ EntriesOf(version)' = EntriesOf(version)
      /\ EntriesOf(compaction.inputs)' = EntriesOf(compaction.inputs)
      /\ Readable(version, bg.edit.next, bg.edit.seq)' = Readable(version, bg.edit.next, bg.edit.seq)
      /\ Readable(Added, bg.edit.next, bg.edit.seq)' = Readable(Added, bg.edit.next, bg.edit.seq)
  BY <1>1, <1>2
<1>4. /\ nextFile \in Nat /\ lastSequence \in Nat /\ bg.number \in Nat
      /\ compaction.outputs \subseteq Nat
  BY DEF WorkTypes, MemoryTypes
<1>5. ASSUME bg.phase \in {"manifest", "install"}
      PROVE  bg.edit.next <= nextFile' /\ bg.edit.seq <= lastSequence'
  <2>1. /\ bg.edit.next \in Nat /\ bg.edit.seq \in Nat
        /\ bg.edit.next <= nextFile /\ bg.edit.seq <= lastSequence
    BY <1>5 DEF WorkInv, ThreadInv, Edits
  <2>. QED
    BY <1>4, <2>1
<1>6. ThreadInv'
  <2>1. bg.phase = "build" => bg.number < nextFile'
    BY <1>4 DEF WorkInv, ThreadInv
  <2>2. bg.kind = "flush" => imm' = imm /\ logfileNumber' = logfileNumber
    OBVIOUS
  <2>3. bg.phase = "build" => \A k \in Kept' : bg.number \notin TablesOf(Ver(k)')
    BY <1>1 DEF WorkInv, ThreadInv
  <2>. QED
    BY <1>1, <1>2, <1>3, <1>5, <2>1, <2>2, <2>3 DEF WorkInv, ThreadInv
<1>7. CompactionInv'
  <2>1. \A n \in compaction.outputs : n < nextFile => n < nextFile'
    BY <1>4
  <2>2. (\A k \in Kept : TablesOf(Ver(k)) \cap compaction.outputs = {})
          => \A k \in Kept' : TablesOf(Ver(k)') \cap compaction.outputs = {}
    BY <1>1
  <2>. QED
    BY <1>1, <1>3, <2>1, <2>2 DEF WorkInv, CompactionInv
<1>. QED
  BY <1>6, <1>7 DEF WorkInv

LEMMA FrameReaderAll ==
  ASSUME ReaderInv, UNCHANGED <<reader, tables, bg, compaction, nextFile>>
  PROVE  ReaderInv'
<1>1. \A v : EntriesOf(v)' = EntriesOf(v)
  BY DEF EntriesOf
<1>. QED
  BY <1>1 DEF ReaderInv

\* The files the background thread and readers use, and what they are at, stay.
LEMMA FrameWorks ==
  ASSUME DiskTypes, MemoryTypes, WorkTypes, VersionInv, WorkInv, ReaderInv,
         UNCHANGED <<tables, manifests, current, damage, version, logNumber, manifestNumber,
                     logfileNumber, imm, nextFile, bg, compaction, pendingOutputs, reader>>,
         bgError => bgError', lastSequence' \in Nat, lastSequence' >= lastSequence
  PROVE  WorkTypes' /\ VersionInv' /\ WorkInv' /\ ReaderInv'
<1>1. /\ nextFile' \in Nat /\ nextFile' >= nextFile /\ lastSequence \in Nat
      /\ E[Len(E)].next \in Nat /\ E[Len(E)].seq \in Nat
  BY ManifestIs DEF MemoryTypes
<1>2. E[Len(E)].seq <= lastSequence'
  BY <1>1 DEF VersionInv
<1>3. VersionInv'
  BY <1>1, <1>2, FrameVersion
<1>4. WorkInv'
  BY <1>1, FrameWork
<1>. QED
  BY <1>3, <1>4, FrameReaderAll, FrameWorkTypes

\* What a step that only concerns the writers and their leader leaves alone.
LEMMA FrameQuiet ==
  ASSUME Inv, phase = "open", UNCHANGED <<memory, vset, bgVars, reader, disk, phase, unreplayed>>
  PROVE  /\ DiskTypes' /\ MemoryTypes' /\ WorkTypes' /\ VersionInv' /\ WorkInv' /\ ReaderInv'
         /\ UNCHANGED synced => DiskInv'
<1>1. /\ DiskTypes /\ MemoryTypes /\ WorkTypes /\ DiskInv /\ VersionInv /\ WorkInv /\ ReaderInv
  BY DEF Inv, Types, OpenInv
<1>2. UNCHANGED <<logfileNumber, lastSequence, mem, imm, version, logNumber, nextFile,
                  manifestNumber, bg, compaction, bgError, pendingOutputs, tables, manifests,
                  current, damage>>
  BY DEF memory, vset, bgVars, disk
<1>3. DiskTypes' /\ MemoryTypes' /\ WorkTypes'
  BY <1>1, <1>2, FrameDiskTypes, FrameMemoryTypes, FrameWorkTypes
<1>4. lastSequence' \in Nat /\ lastSequence' >= lastSequence
  BY <1>1, <1>2 DEF MemoryTypes
<1>5. VersionInv' /\ WorkInv' /\ ReaderInv'
  BY <1>1, <1>2, <1>4, FrameWorks
<1>6. UNCHANGED synced => DiskInv'
  BY <1>1, FrameDisk
<1>. QED
  BY <1>3, <1>5, <1>6

LEMMA CallKeeps ==
  ASSUME Inv, NEW k \in Kinds, Call(k)
  PROVE  Inv'
<1>1. /\ phase = "open" /\ phase' = "open" /\ unreplayed' = unreplayed /\ unreplayed = {}
      /\ Types /\ DiskInv /\ OrderInv /\ OpenInv
  BY DEF Inv, Call, Running, history
<1>2. UNCHANGED <<leader, memory, vset, bgVars, reader, disk, phase, unreplayed, synced,
                  acknowledged, errors, crashes>>
  BY DEF Call, history
<1>3. /\ DiskTypes' /\ MemoryTypes' /\ WorkTypes' /\ VersionInv' /\ WorkInv' /\ ReaderInv' /\ DiskInv'
  BY <1>1, <1>2, FrameQuiet
<1>. DEFINE i == calls + 1
<1>4. /\ i \in Ids /\ calls \in Nat /\ calls' = i /\ i <= MaxWrites
      /\ \A j \in Ids : j # i => kind'[j] = kind[j]
      /\ kind' \in [Ids -> Kinds \cup {"none"}] /\ kind'[i] = k
      /\ writers' = Append(writers, i)
  BY <1>1, BoundsAssumption DEF Call, Types, CallTypes, Ids
<1>5. /\ Len(writers) \in Nat /\ Len(writers') = Len(writers) + 1 /\ writers' \in Seq(Ids)
      /\ \A j \in 1 .. Len(writers) : writers'[j] = writers[j] /\ writers[j] \in Ids /\ writers[j] <= calls
      /\ writers'[Len(writers) + 1] = i
  BY <1>1, <1>4, GroupIs, AppendProperties DEF Types, CallTypes, OpenInv, QueueInv
<1>6. CallTypes'
  BY <1>1, <1>2, <1>4, <1>5 DEF Types, CallTypes
<1>7. OtherTypes'
  <2>1. result' \in [Ids -> {"none", "pending", "waiting", "ok", "error", "lost"}]
    BY <1>1, <1>4 DEF Call, Types, OtherTypes
  <2>2. ASSUME NEW j \in Ids PROVE before'[j] \subseteq Entries
    <3>1. acknowledged \subseteq Entries /\ before[j] \subseteq Entries
      BY <1>1, OnDiskEntries DEF Types, OtherTypes, OrderInv
    <3>. QED
      BY <3>1 DEF Call
  <2>3. UNCHANGED <<scheduled, bgError, pendingOutputs>>
    BY <1>2 DEF bgVars
  <2>. QED
    BY <1>1, <1>2, <2>1, <2>2, <2>3 DEF Types, OtherTypes
<1>8. OrderInv'
  <2>1. OnDisk' = OnDisk
    BY <1>2, DiskSame
  <2>2. \A e \in OnDisk : e.id <= calls'
    <3>1. \A e \in OnDisk : e.id \in Ids
      BY <1>1, OnDiskEntries DEF Types, Entries
    <3>. QED
      BY <1>1, <1>4, <3>1 DEF OrderInv, Ids
  <2>3. \A j \in 1 .. calls' : kind'[j] # "none"
    <3>1. ASSUME NEW j \in 1 .. calls PROVE kind'[j] # "none"
      <4>1. j \in Ids /\ j # i
        BY <1>4, BoundsAssumption DEF Ids
      <4>. QED
        BY <1>1, <1>4, <4>1 DEF OrderInv
    <3>2. kind'[i] # "none"
      BY <1>4 DEF Kinds
    <3>. QED
      BY <1>4, <3>1, <3>2
  <2>. QED
    BY <1>1, <1>2, <2>1, <2>2, <2>3 DEF OrderInv
<1>9. leader.taken \in 0 .. Len(writers) /\ leader.group \in Seq(Entries)
  BY <1>1 DEF Types, CallTypes
<1>10. QueueInv'
  <2>. USE <1>1, <1>2 DEF OpenInv, Types
  <2>1. \A j \in 1 .. Len(writers') : writers'[j] <= calls'
    BY <1>4, <1>5 DEF Ids
  <2>2. \A j, m \in 1 .. Len(writers') : j < m => writers'[j] < writers'[m]
    BY <1>4, <1>5 DEF QueueInv, Ids
  <2>3. writers' # <<>>
    BY <1>5, EmptySeq
  <2>4. ASSUME NEW m \in 1 .. Len(leader.group)
        PROVE  /\ leader.group[m].seq = lastSequence' + m
               /\ \E j \in 1 .. leader.taken : leader.group[m].id = writers'[j]
               /\ kind'[leader.group[m].id] = "sync" => kind'[writers'[1]] = "sync"
    <3>1. PICK j \in 1 .. leader.taken : leader.group[m].id = writers[j]
      BY DEF QueueInv
    <3>2. j \in 1 .. Len(writers) /\ 1 \in 1 .. Len(writers)
      BY <1>5, <1>9, <3>1
    <3>3. kind'[writers[j]] = kind[writers[j]] /\ kind'[writers[1]] = kind[writers[1]]
      BY <1>4, <1>5, <3>2 DEF Ids
    <3>4. lastSequence' = lastSequence
      BY DEF memory
    <3>. QED
      BY <1>5, <3>1, <3>2, <3>3, <3>4 DEF QueueInv
  <2>5. leader' = leader
    OBVIOUS
  <2>. QED
    BY <2>1, <2>2, <2>3, <2>4, <2>5 DEF QueueInv
<1>11. FreshInv'
  <2>1. OnDisk' = OnDisk /\ lastSequence' = lastSequence /\ Group' = Group /\ leader' = leader
    BY <1>2, DiskSame DEF memory, Group
  <2>2. ASSUME NEW e \in OnDisk, NEW m \in leader.taken + 1 .. Len(writers')
        PROVE  e.id < writers'[m]
    <3>1. e.id \in Nat /\ e.id <= calls
      BY <1>1, OnDiskEntries DEF OrderInv, Types, Entries, Ids
    <3>2. CASE m = Len(writers) + 1
      BY <1>4, <1>5, <3>1, <3>2
    <3>3. CASE m # Len(writers) + 1
      <4>1. m \in leader.taken + 1 .. Len(writers) /\ m \in 1 .. Len(writers)
        BY <1>5, <1>9, <3>3
      <4>. QED
        BY <1>1, <1>5, <4>1 DEF OpenInv, FreshInv
    <3>. QED
      BY <3>2, <3>3
  <2>. QED
    BY <1>1, <2>1, <2>2 DEF OpenInv, FreshInv
<1>12. LogInv'
  <2>1. ASSUME leader.phase # "none" PROVE kind'[writers'[1]] = kind[writers[1]]
    <3>1. 1 \in 1 .. Len(writers)
      BY <1>1, <1>5, <2>1, EmptySeq DEF OpenInv, QueueInv, Types, CallTypes
    <3>. QED
      BY <1>4, <1>5, <3>1 DEF Ids
  <2>2. /\ UNCHANGED <<logfileNumber, logNumber, imm, mem, bgError, nextFile, leader>>
        /\ Imm' = Imm /\ Group' = Group
    BY <1>2 DEF memory, vset, bgVars, Imm, Group
  <2>3. /\ \A n : In(n)' = In(n) /\ DurableIn(n)' = DurableIn(n)
        /\ \A l : LogsFrom(l)' = LogsFrom(l)
        /\ logs' = logs
    BY <1>2, DiskSame DEF disk
  <2>4. /\ In(logfileNumber)' = In(logfileNumber)
        /\ DurableIn(logfileNumber)' = DurableIn(logfileNumber)
        /\ LogsFrom(logNumber)' = LogsFrom(logNumber)
    BY <2>2, <2>3
  <2>5. UNION {In(n) : n \in LogsFrom(logNumber) \ {logfileNumber}}'
          = UNION {In(n) : n \in LogsFrom(logNumber) \ {logfileNumber}}
    BY <2>2, <2>3
  <2>. QED
    BY <1>1, <2>1, <2>2, <2>3, <2>4, <2>5 DEF OpenInv, LogInv
<1>13. ReadInv'
  <2>1. /\ CallTypes /\ MemoryTypes /\ ReadInv /\ nextFile \in Nat
    BY <1>1 DEF Types, OpenInv, MemoryTypes
  <2>2. /\ leader' = leader
        /\ UNCHANGED <<mem, imm, version, lastSequence, acknowledged, tables, nextFile>>
    BY <1>2 DEF memory, vset, disk
  <2>3. \A n \in TablesOf(version) : n \in DOMAIN tables' /\ tables'[n] = tables[n]
    BY <2>1, <2>2 DEF ReadInv, Readable
  <2>. QED
    BY <2>1, <2>2, <2>3, FrameRead DEF Alike
<1>. QED
  BY <1>1, <1>3, <1>6, <1>7, <1>8, <1>10, <1>11, <1>12, <1>13 DEF Inv, Types, OpenInv

\* Before the group is in the log, the leader changes nothing but itself.
LEMMA LeaderMoves ==
  ASSUME Inv, phase = "open",
         UNCHANGED <<callers, writers, memory, vset, bgVars, reader, disk, phase, unreplayed,
                     acknowledged, synced, crashes>>,
         errors' \in 0 .. MaxErrors,
         leader.phase \in {"none", "room", "wait"},
         leader'.phase \in {"room", "wait", "append", "finish"},
         leader'.phase = "finish" /\ leader'.ok => Group' = {},
         CallTypes', QueueInv', FreshInv'
  PROVE  Inv'
<1>1. Types /\ DiskInv /\ OrderInv /\ OpenInv /\ unreplayed = {}
  BY DEF Inv
<1>2. /\ DiskTypes' /\ MemoryTypes' /\ WorkTypes' /\ VersionInv' /\ WorkInv' /\ ReaderInv' /\ DiskInv'
  BY FrameQuiet
<1>3. UNCHANGED <<calls, kind, before, result, logfileNumber, lastSequence, mem, imm, version,
                  logNumber, nextFile, scheduled, bgError, pendingOutputs, logs, tables>>
  BY DEF callers, memory, vset, bgVars, disk
<1>4. OtherTypes'
  BY <1>1, <1>3 DEF Types, OtherTypes
<1>5. OrderInv'
  BY <1>1, <1>3, FrameOrder
<1>6. LogInv'
  <2>1. /\ \A n : In(n)' = In(n)
        /\ \A l : LogsFrom(l)' = LogsFrom(l)
    BY DiskSame
  <2>2. In(logfileNumber)' = In(logfileNumber) /\ LogsFrom(logNumber)' = LogsFrom(logNumber) /\ Imm' = Imm
    BY <1>3, <2>1 DEF Imm
  <2>3. UNION {In(n) : n \in LogsFrom(logNumber) \ {logfileNumber}}'
          = UNION {In(n) : n \in LogsFrom(logNumber) \ {logfileNumber}}
    BY <1>3, <2>1
  <2>. QED
    BY <1>1, <1>3, <2>2, <2>3 DEF OpenInv, LogInv
<1>7. ReadInv'
  <2>1. EntriesOf(version)' = EntriesOf(version) /\ Imm' = Imm
    BY <1>3 DEF EntriesOf, Imm
  <2>2. Readable(version, nextFile, lastSequence)'
    BY <1>1, <1>3 DEF OpenInv, ReadInv, Readable
  <2>. QED
    BY <1>1, <1>3, <2>1, <2>2 DEF OpenInv, ReadInv
<1>. QED
  BY <1>1, <1>2, <1>4, <1>5, <1>6, <1>7 DEF Inv, Types, OpenInv

LEMMA LeadKeeps ==
  ASSUME Inv, Lead
  PROVE  Inv'
<1>1. /\ phase = "open" /\ Types /\ OpenInv
  BY DEF Inv, Lead, Running
<1>2. UNCHANGED <<callers, writers, memory, vset, bgVars, reader, disk, phase, unreplayed,
                  acknowledged, synced, errors, crashes>>
  BY DEF Lead, history
<1>3. /\ leader = Idle /\ writers # <<>>
      /\ leader' = [phase |-> "room", force |-> leader'.force, group |-> <<>>, taken |-> 0, ok |-> TRUE]
  BY DEF Lead, Idle
<1>4. /\ leader.phase = "none" /\ leader.group = <<>> /\ leader.taken = 0
      /\ leader'.phase = "room" /\ leader'.group = <<>> /\ leader'.taken = 0 /\ leader'.ok
  BY <1>3 DEF Idle
<1>5. UNCHANGED <<calls, kind, lastSequence>>
  BY <1>2 DEF callers, memory
<1>6. CallTypes'
  <2>1. leader' = [phase |-> leader'.phase, force |-> leader'.force, group |-> leader'.group,
                   taken |-> leader'.taken, ok |-> leader'.ok]
    BY <1>3
  <2>2. <<>> \in Seq(Entries) /\ 0 \in 0 .. Len(writers)
    BY <1>1, GroupIs, EmptySeq DEF Types
  <2>. QED
    BY <1>1, <1>2, <1>4, <1>5, <2>1, <2>2 DEF Types, CallTypes
<1>7. QueueInv'
  <2>1. Len(<<>>) = 0
    OBVIOUS
  <2>. QED
    BY <1>1, <1>2, <1>3, <1>4, <1>5, <2>1 DEF OpenInv, QueueInv
<1>8. FreshInv'
  <2>1. Group' = Group /\ OnDisk' = OnDisk
    BY <1>2, <1>4, DiskSame DEF Group
  <2>. QED
    BY <1>1, <1>2, <1>4, <1>5, <2>1 DEF OpenInv, FreshInv
<1>. QED
  BY <1>1, <1>2, <1>4, <1>6, <1>7, <1>8, LeaderMoves DEF Types, OtherTypes

LEMMA WaitForRoomKeeps ==
  ASSUME Inv, phase = "open", WaitForRoom
  PROVE  Inv'
<1>1. /\ Types /\ OpenInv
  BY DEF Inv
<1>2. UNCHANGED <<callers, writers, memory, vset, bgVars, reader, disk, phase, unreplayed,
                  acknowledged, synced, errors, crashes>>
  BY DEF WaitForRoom, history
<1>3. /\ leader.phase = "room"
      /\ leader' = [phase |-> "wait", force |-> leader.force, group |-> leader.group,
                    taken |-> leader.taken, ok |-> leader.ok]
  BY <1>1 DEF WaitForRoom, Types, CallTypes
<1>4. /\ leader'.phase = "wait" /\ leader'.group = leader.group /\ leader'.taken = leader.taken
      /\ leader'.ok = leader.ok
      /\ leader' = [phase |-> leader'.phase, force |-> leader'.force, group |-> leader'.group,
                    taken |-> leader'.taken, ok |-> leader'.ok]
  BY <1>3
<1>5. UNCHANGED <<calls, kind, lastSequence>>
  BY <1>2 DEF callers, memory
<1>6. CallTypes'
  BY <1>1, <1>2, <1>4, <1>5 DEF Types, CallTypes
<1>7. QueueInv'
  BY <1>1, <1>2, <1>3, <1>4, <1>5 DEF OpenInv, QueueInv
<1>8. FreshInv'
  <2>1. Group' = Group /\ OnDisk' = OnDisk
    BY <1>2, <1>4, DiskSame DEF Group
  <2>. QED
    BY <1>1, <1>2, <1>4, <1>5, <2>1 DEF OpenInv, FreshInv
<1>. QED
  BY <1>1, <1>2, <1>3, <1>4, <1>6, <1>7, <1>8, LeaderMoves DEF Types, OtherTypes

LEMMA NoRoomKeeps ==
  ASSUME Inv, phase = "open", NoRoom
  PROVE  Inv'
<1>1. /\ Types /\ OpenInv
  BY DEF Inv
<1>2. UNCHANGED <<callers, writers, memory, vset, bgVars, reader, disk, phase, unreplayed,
                  acknowledged, synced, crashes>>
  BY DEF NoRoom
<1>3. /\ leader.phase = "room"
      /\ leader' = [phase |-> "finish", force |-> leader.force, group |-> leader.group,
                    taken |-> 1, ok |-> FALSE]
  BY <1>1 DEF NoRoom, Types, CallTypes
<1>4. /\ leader'.phase = "finish" /\ leader'.group = leader.group /\ leader'.taken = 1
      /\ leader'.ok = FALSE
      /\ leader' = [phase |-> leader'.phase, force |-> leader'.force, group |-> leader'.group,
                    taken |-> leader'.taken, ok |-> leader'.ok]
  BY <1>3
<1>5. UNCHANGED <<calls, kind, lastSequence>>
  BY <1>2 DEF callers, memory
<1>6. writers # <<>> /\ Len(writers) \in Nat /\ Len(writers) >= 1
  BY <1>1, <1>3, GroupIs, EmptySeq DEF OpenInv, QueueInv, Types, CallTypes
<1>7. leader.group = <<>> /\ Len(leader.group) = 0 /\ leader.taken = 0
  BY <1>1, <1>3, EmptySeq DEF OpenInv, QueueInv
<1>8. CallTypes'
  BY <1>1, <1>2, <1>4, <1>5, <1>6 DEF Types, CallTypes
<1>9. QueueInv'
  BY <1>1, <1>2, <1>4, <1>5, <1>6, <1>7 DEF OpenInv, QueueInv
<1>10. FreshInv'
  <2>1. Group' = Group /\ OnDisk' = OnDisk
    BY <1>2, <1>4, DiskSame DEF Group
  <2>2. 1 + 1 .. Len(writers) \subseteq 0 + 1 .. Len(writers)
    BY <1>6
  <2>. QED
    BY <1>1, <1>2, <1>4, <1>5, <1>7, <2>1, <2>2 DEF OpenInv, FreshInv
<1>11. errors' \in 0 .. MaxErrors
  BY <1>1, BoundsAssumption DEF NoRoom, Types, OtherTypes
<1>. QED
  BY <1>2, <1>3, <1>4, <1>8, <1>9, <1>10, <1>11, LeaderMoves

LEMMA BuildBatchGroupKeeps ==
  ASSUME Inv, phase = "open", BuildBatchGroup
  PROVE  Inv'
<1>1. /\ Types /\ OpenInv
  BY DEF Inv
<1>2. UNCHANGED <<callers, writers, memory, vset, bgVars, reader, disk, phase, unreplayed,
                  acknowledged, synced, errors, crashes>>
  BY DEF BuildBatchGroup, history
<1>3. PICK n \in GroupSizes :
        \E ids \in InOrder({writers[k] : k \in {j \in 1 .. n : kind[writers[j]] # "flush"}}) :
           leader' = [leader EXCEPT
             !.group = [k \in DOMAIN ids |-> Entry(ids[k], lastSequence + k)],
             !.taken = n,
             !.phase = IF ids = <<>> THEN "finish" ELSE "append"]
  BY DEF BuildBatchGroup
<1>. DEFINE S == {writers[k] : k \in {j \in 1 .. n : kind[writers[j]] # "flush"}}
<1>4. PICK ids \in InOrder(S) :
           leader' = [leader EXCEPT
             !.group = [k \in DOMAIN ids |-> Entry(ids[k], lastSequence + k)],
             !.taken = n,
             !.phase = IF ids = <<>> THEN "finish" ELSE "append"]
  BY <1>3
<1>5. /\ Len(writers) \in Nat /\ DOMAIN writers = 1 .. Len(writers) /\ n \in 1 .. Len(writers)
      /\ \A k \in 1 .. Len(writers) : writers[k] \in Ids
      /\ \A k \in 2 .. n : kind[writers[k]] = "sync" => kind[writers[1]] = "sync"
  BY <1>1, GroupIs DEF GroupSizes, Types
<1>6. \A i \in S : i \in Ids /\ \E j \in 1 .. n : i = writers[j]
  BY <1>5
<1>7. Cardinality(S) \in Nat
  <2>1. S \subseteq 1 .. MaxWrites
    BY <1>6 DEF Ids
  <2>2. IsFiniteSet(1 .. MaxWrites)
    BY FS_Interval, BoundsAssumption
  <2>. HIDE DEF S
  <2>. QED
    BY <2>1, <2>2, FS_Subset, FS_CardinalityType
<1>. DEFINE c == Cardinality(S)
<1>8. /\ ids \in [1 .. c -> S] /\ DOMAIN ids = 1 .. c
      /\ \A j, k \in 1 .. c : j < k => ids[j] < ids[k]
  BY <1>4 DEF InOrder
<1>. DEFINE group == [k \in DOMAIN ids |-> Entry(ids[k], lastSequence + k)]
<1>9. /\ leader' = [phase |-> IF ids = <<>> THEN "finish" ELSE "append", force |-> leader.force,
                    group |-> group, taken |-> n, ok |-> leader.ok]
      /\ leader.phase = "room"
  BY <1>1, <1>4 DEF Types, CallTypes, BuildBatchGroup
<1>. HIDE DEF S, c, group
<1>10. lastSequence \in Nat /\ leader.ok /\ leader.group = <<>> /\ leader.taken = 0 /\ writers # <<>>
  BY <1>1, <1>9 DEF OpenInv, QueueInv, Types, MemoryTypes
<1>11. /\ DOMAIN group = 1 .. c
       /\ \A k \in 1 .. c : group[k] = [id |-> ids[k], seq |-> lastSequence + k]
  BY <1>8 DEF group, Entry
<1>12. c \in Nat
  BY <1>7 DEF c
<1>13. ASSUME NEW k \in 1 .. c
       PROVE  /\ group[k] \in Entries /\ group[k].seq = lastSequence + k /\ group[k].id = ids[k]
              /\ ids[k] \in S
  BY <1>6, <1>8, <1>10, <1>11, <1>12 DEF Entries
<1>14. group \in Seq(Entries) /\ Len(group) = c
  <2>1. group \in [1 .. c -> Entries]
    BY <1>11, <1>13 DEF group
  <2>. QED
    BY <1>12, <2>1, SeqDef, LenProperties
<1>15. /\ leader'.phase \in {"append", "finish"} /\ leader'.group = group /\ leader'.taken = n
       /\ leader'.ok = leader.ok
       /\ leader' = [phase |-> leader'.phase, force |-> leader'.force, group |-> leader'.group,
                     taken |-> leader'.taken, ok |-> leader'.ok]
  BY <1>9
<1>16. UNCHANGED <<calls, kind, lastSequence>>
  BY <1>2 DEF callers, memory
<1>17. CallTypes'
  BY <1>1, <1>2, <1>5, <1>14, <1>15, <1>16 DEF Types, CallTypes
<1>18. QueueInv'
  <2>1. ASSUME NEW k \in 1 .. c
        PROVE  /\ \E j \in 1 .. n : group[k].id = writers[j]
               /\ kind[group[k].id] = "sync" => kind[writers[1]] = "sync"
    <3>1. PICK j \in 1 .. n : group[k].id = writers[j]
      BY <1>6, <1>13
    <3>2. j = 1 \/ j \in 2 .. n
      BY <1>5
    <3>. QED
      BY <1>5, <3>1, <3>2
  <2>2. \A j, k \in 1 .. c : j < k => group[j].id < group[k].id
    BY <1>8, <1>13
  <2>. QED
    BY <1>1, <1>2, <1>10, <1>13, <1>14, <1>15, <1>16, <2>1, <2>2 DEF OpenInv, QueueInv
<1>19. Group' = {group[k] : k \in 1 .. c}
  BY <1>11, <1>15 DEF Group, Range
<1>20. FreshInv'
  <2>1. OnDisk' = OnDisk /\ Group = {}
    BY <1>2, <1>10, DiskSame DEF Group, Range
  <2>2. ASSUME NEW e \in OnDisk
        PROVE  /\ e.seq <= lastSequence /\ \A g \in Group' : e.id < g.id
               /\ \A k \in n + 1 .. Len(writers) : e.id < writers[k]
    <3>1. e.seq <= lastSequence /\ \A k \in 1 .. Len(writers) : e.id < writers[k]
      BY <1>1, <1>10, <2>1 DEF OpenInv, FreshInv
    <3>2. ASSUME NEW g \in Group' PROVE e.id < g.id
      <4>1. PICK k \in 1 .. c : g = group[k]
        BY <1>19
      <4>2. PICK j \in 1 .. n : g.id = writers[j]
        BY <1>6, <1>13, <4>1
      <4>3. j \in 1 .. Len(writers)
        BY <1>5
      <4>. QED
        BY <3>1, <4>2, <4>3
    <3>3. \A k \in n + 1 .. Len(writers) : k \in 1 .. Len(writers)
      BY <1>5
    <3>. QED
      BY <3>1, <3>2, <3>3
  <2>. QED
    BY <1>2, <1>15, <1>16, <2>1, <2>2 DEF FreshInv
<1>21. leader'.phase = "finish" => Group' = {}
  <2>1. ASSUME leader'.phase = "finish" PROVE c = 0
    <3>1. ids = <<>>
      BY <1>9, <2>1
    <3>2. DOMAIN ids = {}
      BY <3>1
    <3>. QED
      BY <1>8, <1>12, <3>2
  <2>. QED
    BY <1>19, <2>1
<1>22. errors' \in 0 .. MaxErrors
  BY <1>1, <1>2 DEF Types, OtherTypes
<1>. QED
  BY <1>2, <1>9, <1>15, <1>17, <1>18, <1>20, <1>21, <1>22, LeaderMoves

\* The group is in the log from now on, or the append fails.
LEMMA AppendLogKeeps ==
  ASSUME Inv, phase = "open", NEW ok \in BOOLEAN, AppendLog(ok)
  PROVE  Inv'
<1>1. /\ Types /\ OpenInv /\ DiskInv /\ OrderInv /\ unreplayed = {}
  BY DEF Inv
<1>2. UNCHANGED <<callers, writers, memory, vset, bgVars, reader, tables, manifests, current,
                  damage, phase, unreplayed, acknowledged, synced, crashes>>
  BY DEF AppendLog
<1>3. UNCHANGED <<calls, kind, before, result, logfileNumber, lastSequence, mem, imm, version,
                  logNumber, nextFile, manifestNumber, scheduled, bg, compaction, bgError, pendingOutputs>>
  BY <1>2 DEF callers, memory, vset, bgVars
<1>4. leader.phase = "append" /\ leader.ok
  BY <1>1 DEF AppendLog, OpenInv, QueueInv
<1>5. CASE ~ok
  <2>1. /\ logs' = logs /\ errors' \in 0 .. MaxErrors
        /\ leader' = [phase |-> "finish", force |-> leader.force, group |-> leader.group,
                      taken |-> leader.taken, ok |-> FALSE]
    <3>1. /\ logs' = logs /\ errors < MaxErrors /\ errors' = errors + 1
          /\ leader' = [leader EXCEPT !.phase = "finish", !.ok = FALSE]
      BY <1>5 DEF AppendLog
    <3>2. errors' \in 0 .. MaxErrors
      BY <1>1, <3>1, BoundsAssumption DEF Types, OtherTypes
    <3>. QED
      BY <1>1, <3>1, <3>2 DEF Types, CallTypes
  <2>2. /\ leader'.phase = "finish" /\ leader'.group = leader.group /\ leader'.taken = leader.taken
        /\ leader'.ok = FALSE
        /\ leader' = [phase |-> leader'.phase, force |-> leader'.force, group |-> leader'.group,
                      taken |-> leader'.taken, ok |-> leader'.ok]
    BY <2>1
  <2>3. UNCHANGED disk
    BY <1>2, <2>1 DEF disk
  <2>4. CallTypes'
    BY <1>1, <1>2, <1>3, <2>2 DEF Types, CallTypes
  <2>5. QueueInv'
    BY <1>1, <1>2, <1>3, <1>4, <2>2 DEF OpenInv, QueueInv
  <2>6. FreshInv'
    <3>1. Group' = Group /\ OnDisk' = OnDisk
      BY <2>2, <2>3, DiskSame DEF Group
    <3>. QED
      BY <1>1, <1>2, <1>3, <2>2, <3>1 DEF OpenInv, FreshInv
  <2>7. /\ DiskTypes' /\ MemoryTypes' /\ WorkTypes' /\ VersionInv' /\ WorkInv' /\ ReaderInv' /\ DiskInv'
    BY <1>2, <2>3, FrameQuiet
  <2>8. OtherTypes'
    BY <1>1, <1>2, <1>3, <2>1 DEF Types, OtherTypes
  <2>9. OrderInv'
    BY <1>1, <1>2, <1>3, <2>3, FrameOrder
  <2>10. LogInv'
    <3>1. /\ \A n : In(n)' = In(n)
          /\ \A l : LogsFrom(l)' = LogsFrom(l)
      BY <2>3, DiskSame
    <3>2. In(logfileNumber)' = In(logfileNumber) /\ LogsFrom(logNumber)' = LogsFrom(logNumber) /\ Imm' = Imm
      BY <1>3, <3>1 DEF Imm
    <3>3. UNION {In(n) : n \in LogsFrom(logNumber) \ {logfileNumber}}'
            = UNION {In(n) : n \in LogsFrom(logNumber) \ {logfileNumber}}
      BY <1>3, <3>1
    <3>. QED
      BY <1>1, <1>3, <1>4, <2>1, <2>2, <3>2, <3>3 DEF OpenInv, LogInv
  <2>11. ReadInv'
    <3>1. EntriesOf(version)' = EntriesOf(version) /\ Imm' = Imm
      BY <1>2, <1>3 DEF EntriesOf, Imm
    <3>2. Readable(version, nextFile, lastSequence)'
      BY <1>1, <1>2, <1>3 DEF OpenInv, ReadInv, Readable
    <3>. QED
      BY <1>1, <1>2, <1>3, <1>4, <2>2, <3>1, <3>2 DEF OpenInv, ReadInv
  <2>. QED
    BY <1>1, <1>2, <2>4, <2>5, <2>6, <2>7, <2>8, <2>9, <2>10, <2>11 DEF Inv, Types, OpenInv
<1>6. CASE ok
  <2>1. /\ logs' = [logs EXCEPT ![logfileNumber].records = Append(@, Group)] /\ errors' = errors
        /\ leader'.phase \in {"sync", "insert"}
        /\ leader'.phase = "insert" => kind[Head(writers)] # "sync"
        /\ leader' = [phase |-> leader'.phase, force |-> leader.force, group |-> leader.group,
                      taken |-> leader.taken, ok |-> leader.ok]
    BY <1>1, <1>6 DEF AppendLog, Types, CallTypes, Group
  <2>2. /\ leader'.group = leader.group /\ leader'.taken = leader.taken /\ leader'.ok = leader.ok
        /\ Group' = Group
    BY <2>1 DEF Group
  <2>3. leader' = [phase |-> leader'.phase, force |-> leader'.force, group |-> leader'.group,
                   taken |-> leader'.taken, ok |-> leader'.ok]
    BY <2>1
  <2>4. Head(writers) = writers[1]
    OBVIOUS
  <2>5. Group \in SUBSET Entries
    BY <1>1, GroupIs DEF Types
  <2>6. /\ logfileNumber \in DOMAIN logs
        /\ \A k \in Kept : E[k].log <= logfileNumber
    BY <1>1 DEF OpenInv, LogInv, VersionInv
  <2>7. /\ DiskTypes' /\ DiskInv' /\ E' = E /\ Kept' = Kept /\ Synced' = Synced
        /\ OnDisk' = OnDisk \cup Group
        /\ \A k : Ver(k)' = Ver(k)
        /\ \A m \in DOMAIN logs \ {logfileNumber} : In(m)' = In(m)
        /\ In(logfileNumber)' = In(logfileNumber) \cup Group
        /\ \A l : LogsFrom(l)' = LogsFrom(l)
    <3>. PICK f : f = logfileNumber
      OBVIOUS
    <3>1. /\ f \in DOMAIN logs /\ \A k \in Kept : E[k].log <= f
          /\ logs' = [logs EXCEPT ![f].records = Append(@, Group)]
      BY <2>1, <2>6
    <3>2. /\ DiskTypes' /\ DiskInv' /\ E' = E /\ Kept' = Kept /\ Synced' = Synced
          /\ OnDisk' = OnDisk \cup Group
          /\ \A k : Ver(k)' = Ver(k)
          /\ \A m \in DOMAIN logs \ {f} : In(m)' = In(m)
          /\ In(f)' = In(f) \cup Group
          /\ \A l : LogsFrom(l)' = LogsFrom(l)
      BY <1>1, <1>2, <2>5, <3>1, RecordAdded DEF Types
    <3>3. logfileNumber' = f
      BY <1>3
    <3>. QED
      BY <3>2, <3>3
  <2>8. DOMAIN logs' = DOMAIN logs
    BY <2>1
  <2>9. CallTypes' /\ MemoryTypes' /\ WorkTypes' /\ OtherTypes'
    <3>1. CallTypes'
      BY <1>1, <1>2, <1>3, <2>1, <2>2, <2>3 DEF Types, CallTypes
    <3>2. MemoryTypes' /\ WorkTypes'
      BY <1>1, <1>2, <1>3, FrameMemoryTypes, FrameWorkTypes DEF Types
    <3>3. OtherTypes'
      BY <1>1, <1>2, <1>3, <2>1 DEF Types, OtherTypes
    <3>. QED
      BY <3>1, <3>2, <3>3
  <2>10. QueueInv'
    BY <1>1, <1>2, <1>3, <1>4, <2>1, <2>2 DEF OpenInv, QueueInv
  <2>11. ASSUME NEW g \in Group
         PROVE  /\ g.seq > lastSequence /\ g.id <= calls /\ g.seq \in Nat /\ g.id \in Ids
                /\ \A k \in leader.taken + 1 .. Len(writers) : g.id < writers[k]
                /\ \A h \in Group : (g.id < h.id => g.seq < h.seq) /\ (g.id = h.id => g = h)
    <3>1. /\ Group = {leader.group[k] : k \in 1 .. Len(leader.group)} /\ Len(leader.group) \in Nat
          /\ \A k \in 1 .. Len(leader.group) : leader.group[k] \in Entries
          /\ \A k \in 1 .. Len(writers) : writers[k] \in Ids
          /\ Len(writers) \in Nat /\ leader.taken \in 0 .. Len(writers)
      BY <1>1, GroupIs DEF Types, CallTypes
    <3>2. PICK k \in 1 .. Len(leader.group) : g = leader.group[k]
      BY <3>1
    <3>3. g.seq = lastSequence + k /\ lastSequence \in Nat
      BY <1>1, <3>2 DEF OpenInv, QueueInv, Types, MemoryTypes
    <3>4. PICK j \in 1 .. leader.taken : g.id = writers[j]
      BY <1>1, <3>2 DEF OpenInv, QueueInv
    <3>5. j \in 1 .. Len(writers)
      BY <3>1
    <3>6. g.id <= calls
      BY <1>1, <3>4, <3>5 DEF OpenInv, QueueInv
    <3>7. \A m \in leader.taken + 1 .. Len(writers) : g.id < writers[m]
      BY <1>1, <3>1, <3>4, <3>5 DEF OpenInv, QueueInv
    <3>8. ASSUME NEW h \in Group
          PROVE  (g.id < h.id => g.seq < h.seq) /\ (g.id = h.id => g = h)
      <4>1. PICK m \in 1 .. Len(leader.group) : h = leader.group[m]
        BY <3>1
      <4>2. h.seq = lastSequence + m
        BY <1>1, <4>1 DEF OpenInv, QueueInv
      <4>3. (k < m => g.id < h.id) /\ (m < k => h.id < g.id)
        BY <1>1, <3>2, <4>1 DEF OpenInv, QueueInv
      <4>4. g.id \in Nat /\ h.id \in Nat
        <5>1. g \in Entries /\ h \in Entries
          BY <3>1, <3>2, <4>1
        <5>. QED
          BY <5>1 DEF Entries, Ids
      <4>5. g.id < h.id => k < m
        BY <4>3, <4>4, <3>2, <4>1
      <4>6. g.id = h.id => k = m
        BY <4>3, <4>4
      <4>. QED
        BY <3>2, <3>3, <4>1, <4>2, <4>5, <4>6
    <3>. QED
      BY <3>1, <3>2, <3>3, <3>6, <3>7, <3>8 DEF Entries
  <2>12. ASSUME NEW e \in OnDisk
         PROVE  /\ e \in Entries
                /\ \A k \in leader.taken + 1 .. Len(writers) : e.id < writers[k]
                /\ e \in Group \/ (e.seq <= lastSequence /\ \A g \in Group : e.id < g.id)
    BY <1>1, OnDiskEntries DEF Types, OpenInv, FreshInv
  <2>13. FreshInv'
    BY <1>2, <1>3, <2>2, <2>7, <2>11, <2>12 DEF FreshInv
  <2>14. OrderInv'
    <3>1. ASSUME NEW e \in OnDisk \cup Group, NEW f \in OnDisk \cup Group
          PROVE  (e.id < f.id => e.seq < f.seq) /\ (e.id = f.id => e = f)
      <4>1. lastSequence \in Nat
        BY <1>1 DEF Types, MemoryTypes
      <4>2. CASE e \in OnDisk /\ f \in OnDisk
        BY <1>1, <4>2 DEF OrderInv
      <4>3. CASE e \in Group /\ f \in Group
        BY <2>11, <4>3
      <4>4. CASE e \in OnDisk /\ f \in Group /\ e \notin Group
        <5>1. e.seq <= lastSequence /\ e.id < f.id /\ f.seq > lastSequence
          BY <2>11, <2>12, <4>4
        <5>2. e.id \in Nat /\ e.seq \in Nat /\ f.id \in Nat /\ f.seq \in Nat
          BY <2>11, <2>12, <4>4 DEF Entries, Ids
        <5>. QED
          BY <4>1, <5>1, <5>2
      <4>5. CASE f \in OnDisk /\ e \in Group /\ f \notin Group
        <5>1. f.seq <= lastSequence /\ f.id < e.id /\ e.seq > lastSequence
          BY <2>11, <2>12, <4>5
        <5>2. e.id \in Nat /\ e.seq \in Nat /\ f.id \in Nat /\ f.seq \in Nat
          BY <2>11, <2>12, <4>5 DEF Entries, Ids
        <5>. QED
          BY <4>1, <5>1, <5>2
      <4>. QED
        BY <4>2, <4>3, <4>4, <4>5
    <3>2. \A e \in OnDisk \cup Group : e.id <= calls
      BY <1>1, <2>11 DEF OrderInv
    <3>. QED
      BY <1>1, <1>2, <1>3, <2>7, <3>1, <3>2 DEF OrderInv
  <2>15. LogInv'
    <3>1. Imm' = Imm /\ LogsFrom(logNumber)' = LogsFrom(logNumber)
      BY <1>3, <2>7 DEF Imm
    <3>2. UNION {In(n) : n \in LogsFrom(logNumber) \ {logfileNumber}}'
            = UNION {In(n) : n \in LogsFrom(logNumber) \ {logfileNumber}}
      <4>1. \A n \in LogsFrom(logNumber) \ {logfileNumber} : In(n)' = In(n)
        BY <2>7 DEF LogsFrom
      <4>2. {In(n)' : n \in LogsFrom(logNumber) \ {logfileNumber}}
              = {In(n) : n \in LogsFrom(logNumber) \ {logfileNumber}}
        BY <4>1
      <4>. QED
        BY <1>3, <3>1, <4>2
    <3>3. ~bgError => In(logfileNumber) \subseteq mem
      BY <1>1, <1>4 DEF OpenInv, LogInv
    <3>. QED
      BY <1>1, <1>2, <1>3, <2>1, <2>2, <2>4, <2>7, <2>8, <3>1, <3>2, <3>3 DEF OpenInv, LogInv
  <2>16. ReadInv'
    <3>1. EntriesOf(version)' = EntriesOf(version) /\ Imm' = Imm
      BY <1>2, <1>3 DEF EntriesOf, Imm
    <3>2. Readable(version, nextFile, lastSequence)'
      BY <1>1, <1>2, <1>3 DEF OpenInv, ReadInv, Readable
    <3>. QED
      BY <1>1, <1>2, <1>3, <1>4, <2>1, <3>1, <3>2 DEF OpenInv, ReadInv
  <2>17. VersionInv' /\ WorkInv' /\ ReaderInv'
    <3>1. lastSequence' \in Nat /\ lastSequence' >= lastSequence
      BY <1>1, <1>3 DEF Types, MemoryTypes
    <3>. QED
      BY <1>1, <1>2, <1>3, <3>1, FrameWorks DEF Types, OpenInv
  <2>. QED
    BY <1>1, <1>2, <2>7, <2>9, <2>10, <2>13, <2>14, <2>15, <2>16, <2>17 DEF Inv, Types, OpenInv
<1>. QED
  BY <1>5, <1>6

\* A synced group is safe before it is in the memtable; a sync that fails leaves
\* it in the log.
LEMMA SyncLogKeeps ==
  ASSUME Inv, phase = "open", NEW ok \in BOOLEAN, SyncLog(ok)
  PROVE  Inv'
<1>1. /\ Types /\ OpenInv /\ DiskInv /\ OrderInv /\ unreplayed = {}
  BY DEF Inv
<1>2. UNCHANGED <<callers, writers, memory, vset, scheduled, bg, compaction, pendingOutputs, reader,
                  tables, manifests, current, damage, phase, unreplayed, acknowledged, synced, crashes>>
  BY DEF SyncLog
<1>3. UNCHANGED <<calls, kind, before, result, logfileNumber, lastSequence, mem, imm, version,
                  logNumber, nextFile, manifestNumber>>
  BY <1>2 DEF callers, memory, vset
<1>4. leader.phase = "sync" /\ leader.ok
  BY <1>1 DEF SyncLog, OpenInv, QueueInv
<1>5. /\ leader' = [phase |-> leader'.phase, force |-> leader'.force, group |-> leader'.group,
                    taken |-> leader'.taken, ok |-> leader'.ok]
      /\ leader'.group = leader.group /\ leader'.taken = leader.taken /\ Group' = Group
      /\ (ok /\ leader'.phase = "insert" /\ leader'.ok = leader.ok /\ bgError' = bgError /\ errors' = errors)
           \/ (~ok /\ leader'.phase = "finish" /\ leader'.ok = FALSE /\ bgError' = TRUE
                 /\ logs' = logs /\ errors < MaxErrors /\ errors' = errors + 1)
  <2>1. CASE ok
    <3>1. leader' = [leader EXCEPT !.phase = "insert"] /\ bgError' = bgError /\ errors' = errors
      BY <2>1 DEF SyncLog
    <3>2. leader' = [phase |-> "insert", force |-> leader.force, group |-> leader.group,
                     taken |-> leader.taken, ok |-> leader.ok]
      BY <1>1, <3>1 DEF Types, CallTypes
    <3>3. /\ leader'.phase = "insert" /\ leader'.group = leader.group /\ leader'.taken = leader.taken
          /\ leader'.ok = leader.ok /\ leader'.force = leader.force
      BY <3>2
    <3>. QED
      BY <2>1, <3>1, <3>2, <3>3 DEF Group
  <2>2. CASE ~ok
    <3>1. /\ leader' = [leader EXCEPT !.phase = "finish", !.ok = FALSE] /\ bgError' = TRUE
          /\ logs' = logs /\ errors < MaxErrors /\ errors' = errors + 1
      BY <2>2 DEF SyncLog
    <3>2. leader' = [phase |-> "finish", force |-> leader.force, group |-> leader.group,
                     taken |-> leader.taken, ok |-> FALSE]
      BY <1>1, <3>1 DEF Types, CallTypes
    <3>3. /\ leader'.phase = "finish" /\ leader'.group = leader.group /\ leader'.taken = leader.taken
          /\ leader'.ok = FALSE /\ leader'.force = leader.force
      BY <3>2
    <3>. QED
      BY <2>2, <3>1, <3>2, <3>3 DEF Group
  <2>. QED
    BY <2>1, <2>2
<1>6. /\ DiskTypes' /\ DiskInv' /\ E' = E /\ Kept' = Kept /\ Synced' = Synced
      /\ OnDisk' = OnDisk /\ DOMAIN logs' = DOMAIN logs
      /\ \A k : Ver(k)' = Ver(k)
      /\ \A m \in DOMAIN logs : In(m)' = In(m)
      /\ \A l : LogsFrom(l)' = LogsFrom(l)
      /\ ok => DurableIn(logfileNumber)' = In(logfileNumber)
  <2>1. CASE ok
    <3>. PICK f : f = logfileNumber
      OBVIOUS
    <3>1. f \in DOMAIN logs /\ logs' = [logs EXCEPT ![f].durable = Len(logs[f].records)]
      BY <1>1, <2>1 DEF SyncLog, OpenInv, LogInv
    <3>2. /\ DiskTypes' /\ DiskInv' /\ E' = E /\ Kept' = Kept /\ Synced' = Synced
          /\ OnDisk' = OnDisk /\ DOMAIN logs' = DOMAIN logs
          /\ \A k : Ver(k)' = Ver(k)
          /\ \A m \in DOMAIN logs : In(m)' = In(m)
          /\ DurableIn(f)' = In(f)
          /\ \A l : LogsFrom(l)' = LogsFrom(l)
      BY <1>1, <1>2, <3>1, LogSynced DEF Types
    <3>3. logfileNumber' = f
      BY <1>3
    <3>. QED
      BY <3>2, <3>3
  <2>2. CASE ~ok
    <3>1. UNCHANGED disk /\ logs' = logs
      BY <1>2, <1>5, <2>2 DEF disk
    <3>. QED
      BY <1>1, <1>2, <2>2, <3>1, DiskSame, FrameDisk, FrameDiskTypes DEF Types
  <2>. QED
    BY <2>1, <2>2
<1>7. CallTypes' /\ MemoryTypes' /\ WorkTypes'
  <2>1. CallTypes'
    BY <1>1, <1>2, <1>3, <1>5 DEF Types, CallTypes
  <2>2. MemoryTypes' /\ WorkTypes'
    BY <1>1, <1>2, FrameMemoryTypes, FrameWorkTypes DEF Types
  <2>. QED
    BY <2>1, <2>2
<1>8. OtherTypes'
  <2>1. errors' \in 0 .. MaxErrors
    BY <1>1, <1>5, BoundsAssumption DEF Types, OtherTypes
  <2>2. bgError' \in BOOLEAN
    BY <1>1, <1>5, Zenon DEF Types, OtherTypes
  <2>. QED
    BY <1>1, <1>2, <1>3, <2>1, <2>2 DEF Types, OtherTypes
<1>9. QueueInv'
  <2>1. leader'.phase # "finish" => leader'.ok
    BY <1>4, <1>5
  <2>2. /\ leader'.phase \in {"insert", "finish"}
        /\ leader'.group = leader.group /\ leader'.taken = leader.taken
    BY <1>5
  <2>. QED
    BY <1>1, <1>2, <1>3, <1>4, <2>1, <2>2 DEF OpenInv, QueueInv
<1>10. FreshInv'
  BY <1>1, <1>2, <1>3, <1>5, <1>6 DEF OpenInv, FreshInv
<1>11. OrderInv'
  BY <1>1, <1>2, <1>3, <1>6 DEF OrderInv
<1>12. LogInv'
  <2>1. Imm' = Imm /\ LogsFrom(logNumber)' = LogsFrom(logNumber) /\ logfileNumber \in DOMAIN logs
    BY <1>1, <1>3, <1>6 DEF Imm, OpenInv, LogInv
  <2>2. UNION {In(n) : n \in LogsFrom(logNumber) \ {logfileNumber}}'
          = UNION {In(n) : n \in LogsFrom(logNumber) \ {logfileNumber}}
    <3>1. \A n \in LogsFrom(logNumber) \ {logfileNumber} : In(n)' = In(n)
      BY <1>6 DEF LogsFrom
    <3>2. {In(n)' : n \in LogsFrom(logNumber) \ {logfileNumber}}
            = {In(n) : n \in LogsFrom(logNumber) \ {logfileNumber}}
      BY <3>1
    <3>. QED
      BY <1>3, <2>1, <3>2
  <2>3. In(logfileNumber)' = In(logfileNumber)
    <3>. PICK f : f = logfileNumber
      OBVIOUS
    <3>1. In(f)' = In(f) /\ logfileNumber' = f
      BY <1>3, <1>6, <2>1
    <3>. QED
      BY <3>1
  <2>4. Group \subseteq In(logfileNumber)
    BY <1>1, <1>4 DEF OpenInv, LogInv
  <2>5. ~bgError' => In(logfileNumber)' \subseteq
                   mem' \cup (IF leader'.phase \in {"sync", "insert"} THEN Group' ELSE {})
    BY <1>1, <1>3, <1>4, <1>5, <2>3 DEF OpenInv, LogInv
  <2>6. leader'.phase = "insert" \/ (leader'.phase = "finish" /\ leader'.ok) =>
          Group' \subseteq DurableIn(logfileNumber)'
    BY <1>5, <1>6, <2>4
  <2>. QED
    BY <1>1, <1>2, <1>3, <1>4, <1>5, <1>6, <2>1, <2>2, <2>3, <2>4, <2>5, <2>6 DEF OpenInv, LogInv
<1>13. ReadInv'
  <2>1. EntriesOf(version)' = EntriesOf(version) /\ Imm' = Imm
    BY <1>2, <1>3 DEF EntriesOf, Imm
  <2>2. Readable(version, nextFile, lastSequence)'
    BY <1>1, <1>2, <1>3 DEF OpenInv, ReadInv, Readable
  <2>. QED
    BY <1>1, <1>2, <1>3, <1>4, <1>5, <2>1, <2>2 DEF OpenInv, ReadInv
<1>14. VersionInv' /\ WorkInv' /\ ReaderInv'
  <2>1. lastSequence' \in Nat /\ lastSequence' >= lastSequence /\ (bgError => bgError')
    BY <1>1, <1>3, <1>5 DEF Types, MemoryTypes
  <2>. QED
    BY <1>1, <1>2, <1>3, <2>1, FrameWorks DEF Types, OpenInv
<1>. QED
  BY <1>1, <1>2, <1>6, <1>7, <1>8, <1>9, <1>10, <1>11, <1>12, <1>13, <1>14 DEF Inv, Types, OpenInv

\* The leader's entries are in the memtable, and readers do not see them yet.
LEMMA InsertIntoMemTableKeeps ==
  ASSUME Inv, phase = "open", InsertIntoMemTable
  PROVE  Inv'
<1>1. /\ Types /\ OpenInv /\ DiskInv /\ OrderInv /\ unreplayed = {}
  BY DEF Inv
<1>2. UNCHANGED <<callers, writers, imm, logfileNumber, lastSequence, vset, bgVars, reader, disk,
                  phase, unreplayed, acknowledged, synced, errors, crashes>>
  BY DEF InsertIntoMemTable, history
<1>3. UNCHANGED <<calls, kind, before, result, version, logNumber, nextFile, manifestNumber,
                  scheduled, bg, compaction, bgError, pendingOutputs, logs, tables, manifests,
                  current, damage>>
  BY <1>2 DEF callers, vset, bgVars, disk
<1>4. /\ leader.phase = "insert" /\ leader.ok
      /\ leader' = [phase |-> "finish", force |-> leader.force, group |-> leader.group,
                    taken |-> leader.taken, ok |-> leader.ok]
      /\ mem' = mem \cup Group
  BY <1>1 DEF InsertIntoMemTable, OpenInv, QueueInv, Types, CallTypes, Group
<1>5. /\ leader'.phase = "finish" /\ leader'.group = leader.group /\ leader'.taken = leader.taken
      /\ leader'.ok /\ Group' = Group
      /\ leader' = [phase |-> leader'.phase, force |-> leader'.force, group |-> leader'.group,
                    taken |-> leader'.taken, ok |-> leader'.ok]
  BY <1>4 DEF Group
<1>6. CallTypes' /\ DiskTypes' /\ WorkTypes' /\ OtherTypes'
  <2>1. CallTypes'
    BY <1>1, <1>2, <1>3, <1>5 DEF Types, CallTypes
  <2>2. DiskTypes' /\ WorkTypes'
    BY <1>1, <1>2, <1>3, FrameDiskTypes, FrameWorkTypes DEF Types
  <2>3. OtherTypes'
    BY <1>1, <1>2, <1>3 DEF Types, OtherTypes
  <2>. QED
    BY <2>1, <2>2, <2>3
<1>7. MemoryTypes'
  <2>1. Imm' = Imm /\ Group \subseteq Entries
    BY <1>1, <1>2, GroupIs DEF Imm, Types
  <2>. QED
    BY <1>1, <1>2, <1>3, <1>4, <2>1 DEF Types, MemoryTypes
<1>8. DiskInv' /\ OrderInv'
  BY <1>1, <1>2, <1>3, FrameDisk, FrameOrder
<1>9. QueueInv'
  <2>1. leader'.phase = "finish" /\ leader'.group = leader.group /\ leader'.taken = leader.taken
    BY <1>5
  <2>2. QueueInv
    BY <1>1 DEF OpenInv
  <2>. QED
    BY <1>2, <1>3, <1>4, <2>1, <2>2 DEF QueueInv
<1>10. FreshInv'
  <2>1. OnDisk' = OnDisk
    BY <1>2, DiskSame
  <2>. QED
    BY <1>1, <1>2, <1>3, <1>5, <2>1 DEF OpenInv, FreshInv
<1>11. LogInv'
  <2>1. /\ \A n : In(n)' = In(n) /\ DurableIn(n)' = DurableIn(n)
        /\ \A l : LogsFrom(l)' = LogsFrom(l)
    BY <1>2, DiskSame
  <2>2. /\ In(logfileNumber)' = In(logfileNumber) /\ LogsFrom(logNumber)' = LogsFrom(logNumber)
        /\ DurableIn(logfileNumber)' = DurableIn(logfileNumber) /\ Imm' = Imm
    BY <1>2, <1>3, <2>1 DEF Imm
  <2>3. UNION {In(n) : n \in LogsFrom(logNumber) \ {logfileNumber}}'
          = UNION {In(n) : n \in LogsFrom(logNumber) \ {logfileNumber}}
    BY <1>2, <1>3, <2>1
  <2>. QED
    BY <1>1, <1>2, <1>3, <1>4, <1>5, <2>2, <2>3 DEF OpenInv, LogInv
<1>12. ReadInv'
  <2>1. EntriesOf(version)' = EntriesOf(version) /\ Imm' = Imm
    BY <1>2, <1>3 DEF EntriesOf, Imm
  <2>2. Readable(version, nextFile, lastSequence)'
    BY <1>1, <1>2, <1>3 DEF OpenInv, ReadInv, Readable
  <2>3. ASSUME NEW g \in Group PROVE ~(g.seq <= lastSequence)
    <3>1. /\ Group = {leader.group[k] : k \in 1 .. Len(leader.group)} /\ Len(leader.group) \in Nat
          /\ lastSequence \in Nat
      BY <1>1, GroupIs DEF Types, MemoryTypes
    <3>2. PICK k \in 1 .. Len(leader.group) : g = leader.group[k]
      BY <3>1
    <3>3. g.seq = lastSequence + k
      BY <1>1, <3>2 DEF OpenInv, QueueInv
    <3>. QED
      BY <3>1, <3>3
  <2>4. \A e \in mem : e.seq <= lastSequence
    BY <1>1, <1>4 DEF OpenInv, ReadInv
  <2>5. \A e \in mem' : e.seq <= lastSequence \/ e \in Group
    BY <1>4, <2>4
  <2>6. {e \in mem' \cup Imm \cup EntriesOf(version) : e.seq <= lastSequence}
          = {e \in mem \cup Imm \cup EntriesOf(version) : e.seq <= lastSequence}
    BY <1>4, <2>3
  <2>7. acknowledged = {e \in mem' \cup Imm \cup EntriesOf(version) : e.seq <= lastSequence}
    BY <1>1, <2>6 DEF OpenInv, ReadInv
  <2>8. \A e \in Imm : e.seq <= lastSequence
    BY <1>1 DEF OpenInv, ReadInv
  <2>. QED
    BY <1>2, <1>5, <2>1, <2>2, <2>5, <2>7, <2>8 DEF ReadInv
<1>13. VersionInv' /\ WorkInv' /\ ReaderInv'
  <2>1. lastSequence' \in Nat /\ lastSequence' >= lastSequence
    BY <1>1, <1>2 DEF Types, MemoryTypes
  <2>. QED
    BY <1>1, <1>2, <1>3, <2>1, FrameWorks DEF Types, OpenInv
<1>. QED
  BY <1>1, <1>2, <1>6, <1>7, <1>8, <1>9, <1>10, <1>11, <1>12, <1>13 DEF Inv, Types, OpenInv

\* The group is acknowledged: what readers see from now on.
LEMMA FinishGroupKeeps ==
  ASSUME Inv, phase = "open", FinishGroup
  PROVE  Inv'
<1>1. /\ Types /\ OpenInv /\ DiskInv /\ OrderInv /\ unreplayed = {}
  BY DEF Inv
<1>2. UNCHANGED <<calls, kind, before, mem, imm, logfileNumber, vset, bgVars, reader, disk,
                  phase, unreplayed, errors, crashes>>
  BY DEF FinishGroup
<1>3. UNCHANGED <<version, logNumber, nextFile, manifestNumber, scheduled, bg, compaction,
                  bgError, pendingOutputs, logs, tables, manifests, current, damage>>
  BY <1>2 DEF vset, bgVars, disk
<1>. DEFINE t == leader.taken
            n == Len(leader.group)
<1>4. /\ Group = {leader.group[k] : k \in 1 .. n} /\ n \in Nat
      /\ \A k \in 1 .. n : leader.group[k] \in Entries
      /\ Group \subseteq Entries
      /\ Len(writers) \in Nat /\ DOMAIN writers = 1 .. Len(writers)
      /\ \A k \in 1 .. Len(writers) : writers[k] \in Ids
      /\ t \in 0 .. Len(writers) /\ writers \in Seq(Ids) /\ lastSequence \in Nat
  BY <1>1, GroupIs DEF Types, CallTypes, MemoryTypes
<1>5. leader.phase = "finish" /\ leader' = Idle /\ lastSequence' = lastSequence + n
      /\ writers' = SubSeq(writers, t + 1, Len(writers))
      /\ acknowledged' = (IF leader.ok THEN acknowledged \cup Group ELSE acknowledged)
      /\ synced' = (IF leader.ok THEN synced \cup {e \in Group : kind[e.id] = "sync"} ELSE synced)
  BY DEF FinishGroup, Group
<1>6. /\ leader'.phase = "none" /\ leader'.group = <<>> /\ leader'.taken = 0 /\ leader'.ok
      /\ leader' = [phase |-> leader'.phase, force |-> leader'.force, group |-> leader'.group,
                    taken |-> leader'.taken, ok |-> leader'.ok]
      /\ Len(leader'.group) = 0 /\ Group' = {}
  BY <1>5, EmptySeq DEF Idle, Group, Range
<1>7. /\ writers' \in Seq(Ids) /\ Len(writers') = Len(writers) - t
      /\ \A k \in 1 .. Len(writers) - t : writers'[k] = writers[t + k] /\ t + k \in t + 1 .. Len(writers)
                                          /\ t + k \in 1 .. Len(writers)
  <2>1. /\ SubSeq(writers, t + 1, Len(writers)) \in Seq(Ids)
        /\ Len(SubSeq(writers, t + 1, Len(writers))) = Len(writers) - t
        /\ \A k \in 1 .. Len(writers) - t : SubSeq(writers, t + 1, Len(writers))[k] = writers[t + k]
    BY <1>4, SuffixIs
  <2>2. \A k \in 1 .. Len(writers) - t : t + k \in t + 1 .. Len(writers) /\ t + k \in 1 .. Len(writers)
    BY <1>4
  <2>. QED
    BY <1>5, <2>1, <2>2
<1>8. CallTypes' /\ DiskTypes' /\ WorkTypes' /\ MemoryTypes'
  <2>1. CallTypes'
    <3>1. <<>> \in Seq(Entries) /\ 0 \in 0 .. Len(writers')
      BY <1>4, <1>7
    <3>. QED
      BY <1>1, <1>2, <1>6, <1>7, <3>1 DEF Types, CallTypes
  <2>2. DiskTypes' /\ WorkTypes'
    BY <1>1, <1>2, <1>3, FrameDiskTypes, FrameWorkTypes DEF Types
  <2>3. MemoryTypes'
    <3>1. Imm' = Imm /\ lastSequence' \in Nat
      BY <1>2, <1>4, <1>5 DEF Imm
    <3>. QED
      BY <1>1, <1>2, <1>3, <3>1 DEF Types, MemoryTypes
  <2>. QED
    BY <2>1, <2>2, <2>3
<1>9. OtherTypes'
  <2>1. result' \in [Ids -> {"none", "pending", "waiting", "ok", "error", "lost"}]
    BY <1>1 DEF FinishGroup, Types, OtherTypes
  <2>. QED
    BY <1>1, <1>2, <1>3, <2>1 DEF Types, OtherTypes
<1>10. /\ E' = E /\ Kept' = Kept /\ OnDisk' = OnDisk
       /\ \A k : Ver(k)' = Ver(k) /\ All(k)' = All(k) /\ Least(k)' = Least(k)
       /\ \A m : In(m)' = In(m) /\ DurableIn(m)' = DurableIn(m)
       /\ \A l : LogsFrom(l)' = LogsFrom(l)
       /\ \A v, next, seq : Readable(v, next, seq)' = Readable(v, next, seq)
  BY <1>2, <1>3, DiskSame DEF Readable
<1>11. leader.ok => Group \subseteq mem /\ mem \subseteq In(logfileNumber) /\ logfileNumber \in DOMAIN logs
  BY <1>1, <1>5 DEF OpenInv, LogInv
<1>12. ASSUME leader.ok PROVE Group \subseteq OnDisk
  BY <1>1, <1>11, <1>12, OpenOnDisk DEF Types, OpenInv
<1>13. ASSUME leader.ok, NEW e \in Group, kind[e.id] = "sync", NEW k \in Kept
       PROVE  e \in Least(k)
  <2>1. PICK j \in 1 .. n : e = leader.group[j]
    BY <1>4, <1>13
  <2>2. kind[writers[1]] = "sync"
    BY <1>1, <1>13, <2>1 DEF OpenInv, QueueInv
  <2>3. e \in DurableIn(logfileNumber)
    BY <1>1, <1>5, <1>13, <2>2 DEF OpenInv, LogInv
  <2>4. logfileNumber \in LogsFrom(E[k].log)
    BY <1>1, <1>11, <1>13 DEF OpenInv, VersionInv, LogsFrom
  <2>. QED
    BY <2>3, <2>4 DEF Least
<1>14. DiskInv'
  <2>1. ASSUME NEW k \in Kept PROVE synced' \subseteq Least(k)
    <3>1. synced \subseteq Least(k)
      BY <1>1 DEF DiskInv
    <3>. QED
      BY <1>5, <1>13, <3>1
  <2>2. current' = current
    BY <1>3
  <2>. QED
    BY <1>1, <1>10, <2>1, <2>2 DEF DiskInv
<1>15. OrderInv'
  <2>1. synced' \subseteq acknowledged' /\ acknowledged' \subseteq OnDisk
    BY <1>1, <1>5, <1>12 DEF OrderInv
  <2>. QED
    BY <1>1, <1>2, <1>10, <2>1 DEF OrderInv
<1>16. QueueInv'
  <2>1. ASSUME NEW k \in 1 .. Len(writers') PROVE writers'[k] <= calls
    <3>1. writers'[k] = writers[t + k] /\ t + k \in 1 .. Len(writers)
      BY <1>7
    <3>. QED
      BY <1>1, <3>1 DEF OpenInv, QueueInv
  <2>2. ASSUME NEW j \in 1 .. Len(writers'), NEW k \in 1 .. Len(writers'), j < k
        PROVE  writers'[j] < writers'[k]
    <3>1. /\ writers'[k] = writers[t + k] /\ t + k \in 1 .. Len(writers)
          /\ writers'[j] = writers[t + j] /\ t + j \in 1 .. Len(writers)
          /\ t + j < t + k
      BY <1>4, <1>7, <2>2
    <3>. QED
      BY <1>1, <3>1 DEF OpenInv, QueueInv
  <2>. QED
    BY <1>2, <1>6, <2>1, <2>2 DEF QueueInv
<1>17. FreshInv'
  <2>1. ASSUME NEW e \in OnDisk PROVE e.seq <= lastSequence + n
    <3>1. e.seq \in Nat
      BY <1>1, OnDiskEntries DEF Types, Entries
    <3>2. CASE e \in Group
      <4>1. PICK k \in 1 .. n : e = leader.group[k]
        BY <1>4, <3>2
      <4>2. e.seq = lastSequence + k
        BY <1>1, <4>1 DEF OpenInv, QueueInv
      <4>. QED
        BY <1>4, <4>2
    <3>3. CASE e \notin Group
      BY <1>1, <1>4, <3>1, <3>3 DEF OpenInv, FreshInv
    <3>. QED
      BY <3>2, <3>3
  <2>2. ASSUME NEW e \in OnDisk, NEW k \in 1 .. Len(writers') PROVE e.id < writers'[k]
    <3>1. writers'[k] = writers[t + k] /\ t + k \in t + 1 .. Len(writers)
      BY <1>7
    <3>. QED
      BY <1>1, <3>1 DEF OpenInv, FreshInv
  <2>3. \A e \in OnDisk' : e.seq <= lastSequence' /\ \A g \in Group' : e.id < g.id
    BY <1>5, <1>6, <1>10, <2>1
  <2>4. leader'.taken + 1 .. Len(writers') = 1 .. Len(writers')
    BY <1>6
  <2>5. \A e \in OnDisk' : \A k \in leader'.taken + 1 .. Len(writers') : e.id < writers'[k]
    BY <1>10, <2>2, <2>4
  <2>. QED
    BY <2>3, <2>5 DEF FreshInv
<1>18. LogInv'
  <2>1. /\ In(logfileNumber)' = In(logfileNumber) /\ LogsFrom(logNumber)' = LogsFrom(logNumber)
        /\ Imm' = Imm
    BY <1>2, <1>3, <1>10 DEF Imm
  <2>2. UNION {In(m) : m \in LogsFrom(logNumber) \ {logfileNumber}}'
          = UNION {In(m) : m \in LogsFrom(logNumber) \ {logfileNumber}}
    BY <1>2, <1>3, <1>10
  <2>. QED
    BY <1>1, <1>2, <1>3, <1>5, <1>6, <2>1, <2>2 DEF OpenInv, LogInv
<1>19. ReadInv'
  <2>1. EntriesOf(version)' = EntriesOf(version) /\ Imm' = Imm
    BY <1>2, <1>3 DEF EntriesOf, Imm
  <2>2. \A m \in TablesOf(version) : m \in DOMAIN tables /\ tables[m] \subseteq Entries
    BY <1>1 DEF OpenInv, ReadInv, Readable, Types, DiskTypes
  <2>3. Readable(version, nextFile, lastSequence)'
    <3>1. \A m \in TablesOf(version) : \A e \in tables[m] : e.seq <= lastSequence + n
      <4>1. \A m \in TablesOf(version) : \A e \in tables[m] : e.seq <= lastSequence /\ e.seq \in Nat
        BY <1>1, <2>2 DEF OpenInv, ReadInv, Readable, Entries
      <4>. QED
        BY <1>4, <4>1
    <3>. QED
      BY <1>1, <1>2, <1>3, <1>5, <3>1 DEF OpenInv, ReadInv, Readable
  <2>4. ASSUME NEW e \in mem \cup Imm \cup EntriesOf(version)
        PROVE  /\ e.seq \in Nat /\ e.seq <= lastSequence + n
               /\ e.seq <= lastSequence \/ (leader.ok /\ e \in Group)
    <3>1. e \in Entries
      BY <1>1, <2>2 DEF Types, MemoryTypes, EntriesOf
    <3>2. e.seq <= lastSequence \/ (leader.ok /\ e \in Group)
      <4>1. CASE e \in EntriesOf(version)
        BY <1>1, <4>1 DEF OpenInv, ReadInv, Readable, EntriesOf
      <4>2. CASE e \in mem \cup Imm
        BY <1>1, <4>2 DEF OpenInv, ReadInv
      <4>. QED
        BY <4>1, <4>2
    <3>3. e \in Group => e.seq <= lastSequence + n
      <4>1. ASSUME e \in Group PROVE e.seq <= lastSequence + n
        <5>1. PICK k \in 1 .. n : e = leader.group[k]
          BY <1>4, <4>1
        <5>2. e.seq = lastSequence + k
          BY <1>1, <5>1 DEF OpenInv, QueueInv
        <5>. QED
          BY <1>4, <5>2
      <4>. QED
        BY <4>1
    <3>4. e.seq \in Nat
      BY <3>1 DEF Entries
    <3>. QED
      BY <1>4, <3>2, <3>3, <3>4
  <2>5. acknowledged = {e \in mem \cup Imm \cup EntriesOf(version) : e.seq <= lastSequence}
    BY <1>1 DEF OpenInv, ReadInv
  <2>6. acknowledged' = mem \cup Imm \cup EntriesOf(version)
    <3>1. CASE leader.ok
      <4>1. acknowledged' = acknowledged \cup Group
        BY <1>5, <3>1
      <4>2. Group \subseteq mem
        BY <1>11, <3>1
      <4>. QED
        BY <2>4, <2>5, <4>1, <4>2
    <3>2. CASE ~leader.ok
      <4>1. acknowledged' = acknowledged
        BY <1>5, <3>2
      <4>2. \A e \in mem \cup Imm \cup EntriesOf(version) : e.seq <= lastSequence
        BY <2>4, <3>2
      <4>. QED
        BY <2>5, <4>1, <4>2
    <3>. QED
      BY <3>1, <3>2
  <2>7. {e \in mem \cup Imm \cup EntriesOf(version) : e.seq <= lastSequence'}
          = mem \cup Imm \cup EntriesOf(version)
    BY <1>5, <2>4
  <2>. QED
    BY <1>2, <1>5, <2>1, <2>3, <2>4, <2>6, <2>7 DEF ReadInv
<1>20. VersionInv' /\ WorkInv' /\ ReaderInv'
  <2>1. lastSequence' \in Nat /\ lastSequence' >= lastSequence
    BY <1>4, <1>5
  <2>. QED
    BY <1>1, <1>2, <1>3, <2>1, FrameWorks DEF Types, OpenInv
<1>. QED
  BY <1>1, <1>2, <1>8, <1>9, <1>14, <1>15, <1>16, <1>17, <1>18, <1>19, <1>20
     DEF Inv, Types, OpenInv

\* The memtable becomes imm_; the log it was written to stays until it is a table.
LEMMA SwitchMemTableKeeps ==
  ASSUME Inv, phase = "open", SwitchMemTable
  PROVE  Inv'
<1>1. /\ Types /\ OpenInv /\ DiskInv /\ OrderInv /\ unreplayed = {}
  BY DEF Inv
<1>2. /\ UNCHANGED <<callers, writers, lastSequence, version, logNumber, manifestNumber,
                     bg, compaction, bgError, pendingOutputs, reader, tables, manifests,
                     current, damage, phase, unreplayed, acknowledged, synced, errors, crashes>>
      /\ leader.phase = "room" /\ ~bgError /\ imm = {}
      /\ nextFile' = nextFile + 1 /\ logs' = NewFile(logs, nextFile, EmptyLog)
      /\ logfileNumber' = nextFile /\ imm' = {mem} /\ mem' = {}
      /\ scheduled' = TRUE
      /\ leader' = [leader EXCEPT !.force = FALSE]
  BY DEF SwitchMemTable, history
<1>3. UNCHANGED <<calls, kind, before, result>>
  BY <1>2 DEF callers
<1>4. /\ leader' = [phase |-> leader'.phase, force |-> leader'.force, group |-> leader'.group,
                    taken |-> leader'.taken, ok |-> leader'.ok]
      /\ leader'.phase = "room" /\ leader'.group = leader.group /\ leader'.taken = leader.taken
      /\ leader'.ok = leader.ok /\ Group' = Group
  BY <1>1, <1>2 DEF Types, CallTypes, Group
<1>5. /\ {nextFile, logfileNumber, logNumber, lastSequence} \subseteq Nat
      /\ logfileNumber \in DOMAIN logs /\ logfileNumber < nextFile /\ nextFile \notin DOMAIN logs
      /\ \A n \in DOMAIN logs : n \in Nat /\ n <= logfileNumber
  BY <1>1 DEF Types, DiskTypes, MemoryTypes, OpenInv, LogInv
<1>. PICK f : f = nextFile
  OBVIOUS
<1>6. /\ DiskTypes' /\ E' = E /\ Kept' = Kept /\ Synced' = Synced /\ OnDisk' = OnDisk
      /\ \A k : Ver(k)' = Ver(k) /\ All(k)' = All(k) /\ Least(k)' = Least(k)
      /\ DOMAIN logs' = DOMAIN logs \cup {f}
      /\ \A m \in DOMAIN logs : In(m)' = In(m) /\ DurableIn(m)' = DurableIn(m)
      /\ In(f)' = {}
      /\ DiskInv'
  <2>1. f \in Nat /\ f \notin DOMAIN logs /\ logs' = NewFile(logs, f, EmptyLog)
    BY <1>2, <1>5
  <2>. QED
    BY <1>1, <1>2, <2>1, NewLog DEF Types
<1>7. Imm = {} /\ Imm' = mem
  BY <1>2 DEF Imm
<1>8. CallTypes' /\ MemoryTypes' /\ WorkTypes' /\ OtherTypes'
  <2>1. CallTypes'
    BY <1>1, <1>2, <1>3, <1>4 DEF Types, CallTypes
  <2>2. MemoryTypes'
    <3>1. nextFile + 1 \in Nat
      BY <1>5
    <3>. QED
      BY <1>1, <1>2, <1>5, <1>7, <3>1 DEF Types, MemoryTypes
  <2>3. WorkTypes' /\ OtherTypes'
    BY <1>1, <1>2, <1>3, FrameWorkTypes DEF Types, OtherTypes
  <2>. QED
    BY <2>1, <2>2, <2>3
<1>9. OrderInv'
  BY <1>1, <1>2, <1>3, <1>6 DEF OrderInv
<1>10. QueueInv'
  BY <1>1, <1>2, <1>3, <1>4 DEF OpenInv, QueueInv
<1>11. FreshInv'
  BY <1>1, <1>2, <1>4, <1>6 DEF OpenInv, FreshInv
<1>12. mem = In(logfileNumber)
  BY <1>1, <1>2 DEF OpenInv, LogInv
<1>13. LogInv'
  <2>1. logNumber = logfileNumber
    BY <1>1, <1>2 DEF OpenInv, LogInv
  <2>. PICK l : l = logfileNumber
    OBVIOUS
  <2>2. LogsFrom(l)' = {l, f}
    BY <1>5, <1>6 DEF LogsFrom
  <2>3. {l, f} \ {f} = {l}
    BY <1>5
  <2>4. In(l)' = mem
    BY <1>5, <1>6, <1>12
  <2>5. LogsFrom(logNumber)' = {l, f} /\ logfileNumber' = f
    BY <1>2, <2>1, <2>2
  <2>6. UNION {In(n) : n \in LogsFrom(logNumber) \ {logfileNumber}}' = mem
    BY <2>3, <2>4, <2>5
  <2>7. In(logfileNumber)' = {}
    BY <1>6, <2>5
  <2>8. /\ logfileNumber' \in DOMAIN logs' /\ \A n \in DOMAIN logs' : n <= logfileNumber'
        /\ logfileNumber' < nextFile' /\ logNumber' <= logfileNumber'
    BY <1>2, <1>5, <1>6, <2>1
  <2>. QED
    BY <1>2, <1>4, <1>7, <2>6, <2>7, <2>8 DEF LogInv
<1>14. bg.kind # "flush"
  BY <1>1, <1>2 DEF OpenInv, WorkInv, ThreadInv, NoWork
<1>15. EntriesOf(version)' = EntriesOf(version) /\ After' = After /\ Noted' = Noted
  BY <1>2 DEF EntriesOf, After, Noted
<1>16. ReadInv'
  <2>1. Readable(version, nextFile, lastSequence)'
    <3>1. TablesOf(version) \subseteq Nat
      BY <1>1 DEF Types, MemoryTypes, Versions, TablesOf
    <3>. QED
      BY <1>1, <1>2, <1>5, <3>1 DEF OpenInv, ReadInv, Readable
  <2>2. \A e \in mem : e.seq <= lastSequence
    BY <1>1, <1>2 DEF OpenInv, ReadInv
  <2>. QED
    BY <1>1, <1>2, <1>7, <1>15, <2>1, <2>2 DEF OpenInv, ReadInv
<1>17. VersionInv'
  <2>1. ASSUME NEW k \in Kept PROVE E[k].log <= nextFile
    <3>1. E[k].log \in Nat
      BY <1>1, ManifestIs DEF Types
    <3>. QED
      BY <1>1, <1>5, <3>1 DEF OpenInv, VersionInv
  <2>2. E[Len(E)].next <= nextFile + 1
    <3>1. E[Len(E)].next \in Nat
      BY <1>1, ManifestIs DEF Types
    <3>. QED
      BY <1>1, <1>5, <3>1 DEF OpenInv, VersionInv
  <2>3. Ver(Len(E))' = Ver(Len(E))
    BY <1>6
  <2>. QED
    BY <1>1, <1>2, <1>6, <1>15, <2>1, <2>2, <2>3 DEF OpenInv, VersionInv
<1>18. WorkInv'
  <2>1. /\ nextFile' \in Nat /\ nextFile' >= nextFile
        /\ lastSequence' \in Nat /\ lastSequence' >= lastSequence
    BY <1>2, <1>5
  <2>. QED
    BY <1>1, <1>2, <1>14, <2>1, FrameWork DEF Types, OpenInv
<1>19. ReaderInv'
  <2>1. ASSUME reader # None PROVE TablesOf(reader.version) \subseteq Nat
    BY <1>1, <2>1 DEF OpenInv, ReaderInv, Types, DiskTypes
  <2>2. ASSUME reader # None, NEW n \in TablesOf(reader.version) PROVE n \in DOMAIN tables' /\ tables'[n] = tables[n]
    BY <1>1, <1>2, <2>2 DEF OpenInv, ReaderInv
  <2>3. nextFile' \in Nat /\ nextFile' >= nextFile
    BY <1>2, <1>5
  <2>. QED
    BY <1>1, <1>2, <2>1, <2>2, <2>3, FrameReader DEF OpenInv, Types
<1>. QED
  BY <1>1, <1>2, <1>6, <1>8, <1>9, <1>10, <1>11, <1>13, <1>16, <1>17, <1>18, <1>19
     DEF Inv, Types, OpenInv

-----------------------------------------------------------------------------
(***************************************************************************)
(* The background thread.                                                  *)
(***************************************************************************)

\* What the invariant says of the numbers of files and of what is in tables.
LEMMA NumbersAre ==
  ASSUME Inv, phase = "open"
  PROVE  /\ {nextFile, lastSequence, logNumber, logfileNumber} \subseteq Nat
         /\ 0 < nextFile /\ current < nextFile
         /\ logNumber < nextFile /\ logfileNumber < nextFile
         /\ \A k \in Kept : \A m \in TablesOf(Ver(k)) : m \in Nat /\ m < nextFile
         /\ \A m \in TablesOf(version) :
              /\ m \in DOMAIN tables /\ m \in Nat /\ m < nextFile /\ tables[m] # {}
              /\ tables[m] \subseteq Entries /\ \A e \in tables[m] : e.seq <= lastSequence
         /\ \A m \in compaction.outputs : m \in Nat /\ 0 < m /\ m < nextFile
         /\ reader # None =>
              \A m \in TablesOf(reader.version) : m \in DOMAIN tables /\ m \in Nat /\ m < nextFile
<1>1. /\ DiskTypes /\ MemoryTypes /\ WorkTypes /\ DiskInv
      /\ LogInv /\ ReadInv /\ VersionInv /\ WorkInv /\ ReaderInv
  BY DEF Inv, Types, OpenInv
<1>2. /\ {nextFile, lastSequence, logNumber, logfileNumber} \subseteq Nat
      /\ DOMAIN tables \subseteq Nat /\ DOMAIN manifests \subseteq Nat /\ current \in DOMAIN manifests
  BY <1>1 DEF DiskTypes, MemoryTypes
<1>3. 0 < nextFile /\ logNumber < nextFile /\ logfileNumber < nextFile
  BY <1>1, <1>2 DEF LogInv
<1>4. /\ Len(E) \in Kept /\ \A k \in Kept : E[k].next \in Nat
      /\ \A k \in Kept : E[k].next <= E[Len(E)].next /\ current < E[k].next
      /\ E[Len(E)].next <= nextFile
  BY <1>1, ManifestIs DEF DiskInv, VersionInv
<1>5. current < nextFile
  BY <1>2, <1>4
<1>6. ASSUME NEW k \in Kept, NEW m \in TablesOf(Ver(k)) PROVE m \in Nat /\ m < nextFile
  <2>1. m \in DOMAIN tables /\ m < E[k].next
    BY <1>1 DEF DiskInv, Readable
  <2>. QED
    BY <1>2, <1>4, <2>1
<1>7. ASSUME NEW m \in TablesOf(version)
      PROVE  /\ m \in DOMAIN tables /\ m \in Nat /\ m < nextFile /\ tables[m] # {}
             /\ tables[m] \subseteq Entries /\ \A e \in tables[m] : e.seq <= lastSequence
  BY <1>1 DEF ReadInv, Readable, DiskTypes
<1>8. ASSUME NEW m \in compaction.outputs PROVE m \in Nat /\ 0 < m /\ m < nextFile
  <2>1. Compacting
    BY DEF Compacting, NoCompaction
  <2>. QED
    BY <1>1, <2>1 DEF WorkInv, CompactionInv, WorkTypes
<1>9. ASSUME reader # None, NEW m \in TablesOf(reader.version)
      PROVE  m \in DOMAIN tables /\ m \in Nat /\ m < nextFile
  BY <1>1, <1>2, <1>9 DEF ReaderInv
<1>. QED
  BY <1>2, <1>3, <1>5, <1>6, <1>7, <1>8, <1>9

LEMMA ErrorCounted ==
  ASSUME Types, errors < MaxErrors, errors' = errors + 1
  PROVE  errors' \in 0 .. MaxErrors
BY BoundsAssumption DEF Types, OtherTypes

\* A step of the thread that keeps what recovery finds, the version and its tables.
LEMMA FrameThread ==
  ASSUME Inv, phase = "open",
         UNCHANGED <<callers, writers, memory, version, logNumber, manifestNumber, reader, logs,
                     current, phase, unreplayed, acknowledged, synced, crashes>>,
         Alike, bgError => bgError', bgError' \in BOOLEAN, scheduled' \in BOOLEAN,
         pendingOutputs' \subseteq Nat, errors' \in 0 .. MaxErrors,
         nextFile' \in Nat, nextFile' >= nextFile,
         DiskTypes', DiskInv', OnDisk' = OnDisk,
         \A m \in TablesOf(version) : m \in DOMAIN tables' /\ tables'[m] = tables[m],
         WorkTypes', VersionInv', WorkInv', ReaderInv'
  PROVE  Inv'
<1>1. Types /\ OpenInv /\ OrderInv /\ unreplayed = {}
  BY DEF Inv
<1>2. UNCHANGED <<calls, kind, before, result, logfileNumber, lastSequence, mem, imm>>
  BY DEF callers, memory
<1>3. CallTypes' /\ MemoryTypes' /\ OtherTypes'
  <2>1. CallTypes'
    BY <1>1, <1>2, FrameCalls DEF Types
  <2>2. Imm' = Imm
    BY <1>2 DEF Imm
  <2>3. MemoryTypes'
    BY <1>1, <1>2, <2>2 DEF Types, MemoryTypes
  <2>4. OtherTypes'
    BY <1>1, <1>2 DEF Types, OtherTypes
  <2>. QED
    BY <2>1, <2>3, <2>4
<1>4. OrderInv'
  BY <1>1, <1>2 DEF OrderInv
<1>5. QueueInv' /\ FreshInv' /\ LogInv' /\ ReadInv'
  BY <1>1, <1>2, FrameQueue, FrameFresh, FrameLog, FrameRead DEF Types, OpenInv
<1>. QED
  BY <1>1, <1>3, <1>4, <1>5 DEF Inv, Types, OpenInv

\* A step of the thread that leaves the files alone.
LEMMA FrameFiles ==
  ASSUME Inv, phase = "open",
         UNCHANGED <<callers, writers, memory, version, logNumber, manifestNumber, reader, logs,
                     tables, manifests, current, phase, unreplayed, acknowledged, synced, crashes>>,
         Alike, bgError => bgError', bgError' \in BOOLEAN, scheduled' \in BOOLEAN,
         pendingOutputs' \subseteq Nat, errors' \in 0 .. MaxErrors,
         nextFile' \in Nat, nextFile' >= nextFile,
         bg' = bg \/ {bg.phase, bg'.phase} \cap {"install"} = {},
         damage' = "none" => damage = "none", damage' = damage \/ bgError',
         bg' = bg \/ bg'.phase # "build" \/ bg'.number = nextFile,
         compaction'.outputs \subseteq compaction.outputs \cup {nextFile},
         WorkTypes', WorkInv'
  PROVE  Inv'
<1>1. /\ DiskTypes /\ MemoryTypes /\ DiskInv /\ ReadInv /\ VersionInv /\ ReaderInv
  BY DEF Inv, Types, OpenInv
<1>2. logfileNumber' = logfileNumber /\ lastSequence' = lastSequence
  BY DEF memory
<1>3. DiskTypes'
  BY <1>1 DEF DiskTypes
<1>4. /\ E' = E /\ Kept' = Kept /\ OnDisk' = OnDisk
      /\ \A k : Ver(k)' = Ver(k) /\ All(k)' = All(k) /\ Least(k)' = Least(k)
  BY DEF E, Synced, Kept, OnDisk, Ver, All, Least, In, DurableIn, LogsFrom, EntriesOf, EntriesIn
<1>5. DiskInv'
  BY <1>1, <1>4 DEF DiskInv, Readable
<1>6. VersionInv'
  <2>1. E[Len(E)].next \in Nat /\ E[Len(E)].seq <= lastSequence'
    BY <1>1, <1>2, ManifestIs DEF VersionInv
  <2>. QED
    BY <1>1, <1>2, <2>1, FrameVersion
<1>7. ReaderInv'
  BY <1>1, NumbersAre, FrameReader
<1>8. \A m \in TablesOf(version) : m \in DOMAIN tables' /\ tables'[m] = tables[m]
  BY <1>1 DEF ReadInv, Readable
<1>. QED
  BY <1>3, <1>4, <1>5, <1>6, <1>7, <1>8, FrameThread

LEMMA NoWorkLeftKeeps ==
  ASSUME Inv, NoWorkLeft
  PROVE  Inv'
<1>1. /\ phase = "open" /\ Types /\ OpenInv
      /\ UNCHANGED <<callers, writers, memory, vset, compaction, bgError, pendingOutputs, reader,
                     disk, phase, unreplayed, acknowledged, synced, errors, crashes>>
      /\ bg' = bg /\ Alike
  BY DEF NoWorkLeft, Running, history, EndBackgroundCall, Alike, Inv
<1>2. UNCHANGED <<version, logNumber, nextFile, manifestNumber, logs, tables, manifests, current,
                  damage, lastSequence, logfileNumber, imm>>
  BY <1>1 DEF vset, disk, memory
<1>3. scheduled' \in BOOLEAN
  BY DEF NoWorkLeft, EndBackgroundCall, Schedulable
<1>4. /\ bgError' \in BOOLEAN /\ pendingOutputs' \subseteq Nat /\ errors' \in 0 .. MaxErrors
      /\ nextFile' \in Nat /\ nextFile' >= nextFile
      /\ lastSequence' \in Nat /\ lastSequence' >= lastSequence
  BY <1>1, <1>2 DEF Types, OtherTypes, MemoryTypes
<1>5. WorkTypes' /\ WorkInv'
  BY <1>1, <1>2, <1>4, FrameWorkTypes, FrameWork DEF Types, OpenInv
<1>. QED
  BY <1>1, <1>2, <1>3, <1>4, <1>5, FrameFiles

\* The memtable's table gets a number that no file has.
LEMMA CompactMemTableKeeps ==
  ASSUME Inv, phase = "open", CompactMemTable,
         bg = NoWork \/ bg.phase = "merge"
  PROVE  Inv'
<1>1. Types /\ WorkTypes /\ WorkInv /\ ThreadInv /\ CompactionInv
  BY DEF Inv, OpenInv, WorkInv, Types
<1>2. /\ UNCHANGED <<callers, writers, leader, memory, version, logNumber, manifestNumber, scheduled,
                     compaction, bgError, reader, disk, phase, unreplayed, acknowledged, synced,
                     errors, crashes>>
      /\ imm # {} /\ nextFile' = nextFile + 1 /\ pendingOutputs' = pendingOutputs \cup {nextFile}
      /\ bg' = [phase |-> "build", kind |-> "flush", number |-> nextFile, edit |-> None]
  BY DEF CompactMemTable, history
<1>3. UNCHANGED <<logs, tables, manifests, current, damage, imm>>
  BY <1>2 DEF disk, memory
<1>4. /\ bg'.phase = "build" /\ bg'.kind = "flush" /\ bg'.number = nextFile /\ bg'.edit = None
      /\ bg' = [phase |-> bg'.phase, kind |-> bg'.kind, number |-> bg'.number, edit |-> bg'.edit]
  BY <1>2
<1>5. /\ nextFile \in Nat /\ nextFile' \in Nat /\ nextFile' >= nextFile /\ nextFile < nextFile'
      /\ nextFile \notin TablesOf(version) /\ nextFile \notin compaction.outputs
      /\ \A k \in Kept : nextFile \notin TablesOf(Ver(k))
      /\ \A m \in compaction.outputs : m < nextFile'
  BY <1>2, NumbersAre
<1>6. WorkTypes'
  BY <1>1, <1>2, <1>3, <1>4, <1>5 DEF WorkTypes
<1>7. /\ Kept' = Kept /\ \A k : Ver(k)' = Ver(k)
      /\ Compacting' = Compacting /\ EntriesOf(compaction.inputs)' = EntriesOf(compaction.inputs)
  BY <1>2, <1>3 DEF Kept, Synced, E, Ver, Compacting, EntriesOf
<1>8. ThreadInv'
  BY <1>2, <1>3, <1>4, <1>5, <1>7 DEF ThreadInv
<1>9. CompactionInv'
  <2>1. Compacting => bg.phase = "merge"
    BY <1>1 DEF ThreadInv, NoWork
  <2>2. Compacting => \A k \in Kept : TablesOf(Ver(k)) \cap compaction.outputs = {}
    BY <1>1, <2>1 DEF CompactionInv
  <2>3. Compacting => \A k \in Kept' : TablesOf(Ver(k)') \cap compaction'.outputs = {}
    BY <1>2, <1>7, <2>2
  <2>. QED
    BY <1>1, <1>2, <1>3, <1>4, <1>5, <1>7, <2>3 DEF CompactionInv
<1>10. /\ Alike /\ bgError' \in BOOLEAN /\ scheduled' \in BOOLEAN /\ pendingOutputs' \subseteq Nat
       /\ errors' \in 0 .. MaxErrors /\ bg.phase # "install"
  <2>1. OtherTypes /\ bg.phase # "install"
    BY <1>1 DEF Types, NoWork
  <2>2. scheduled' \in BOOLEAN /\ bgError' \in BOOLEAN
    BY <1>2, <2>1 DEF OtherTypes
  <2>3. pendingOutputs' \subseteq Nat /\ errors' \in 0 .. MaxErrors
    BY <1>2, <1>5, <2>1 DEF OtherTypes
  <2>. QED
    BY <1>2, <2>1, <2>2, <2>3 DEF Alike
<1>. QED
  BY <1>2, <1>3, <1>4, <1>5, <1>6, <1>8, <1>9, <1>10, FrameFiles DEF WorkInv

\* A compaction has no outputs yet, and merges tables of the version.
LEMMA PickCompactionKeeps ==
  ASSUME Inv, PickCompaction
  PROVE  Inv'
<1>1. /\ phase = "open" /\ Types /\ WorkTypes /\ ThreadInv /\ MemoryTypes
  BY DEF Inv, OpenInv, WorkInv, Types, PickCompaction, Picks, Begins, Running
<1>2. /\ UNCHANGED <<callers, writers, leader, memory, vset, scheduled, bgError, pendingOutputs,
                     reader, disk, phase, unreplayed, acknowledged, synced, errors, crashes>>
      /\ bg = NoWork /\ imm = {} /\ bg' = Merging
  BY DEF PickCompaction, Picks, Begins, history
<1>3. UNCHANGED <<version, logNumber, manifestNumber, nextFile, logs, tables, manifests, current,
                  damage, imm>>
  BY <1>2 DEF disk, memory, vset
<1>. PICK i : /\ i \in [level0 : SUBSET version.level0, base : SUBSET version.base]
              /\ i.level0 # {} /\ compaction' = [NoCompaction EXCEPT !.inputs = i]
  BY DEF PickCompaction
<1>4. /\ compaction' = [inputs |-> i, merged |-> {}, outputs |-> {}, open |-> 0]
      /\ compaction'.inputs = i /\ compaction'.merged = {} /\ compaction'.outputs = {}
      /\ compaction'.open = 0
      /\ compaction' = [inputs |-> compaction'.inputs, merged |-> compaction'.merged,
                        outputs |-> compaction'.outputs, open |-> compaction'.open]
  BY DEF NoCompaction
<1>5. /\ bg'.phase = "merge" /\ bg'.kind = "compact" /\ bg'.number = 0 /\ bg'.edit = None
      /\ bg' = [phase |-> bg'.phase, kind |-> bg'.kind, number |-> bg'.number, edit |-> bg'.edit]
  BY <1>2 DEF Merging
<1>6. i \in Versions /\ TablesOf(i) \subseteq TablesOf(version)
  BY <1>1 DEF MemoryTypes, Versions, TablesOf
<1>7. WorkTypes'
  BY <1>1, <1>3, <1>4, <1>5, <1>6 DEF WorkTypes
<1>8. Compacting'
  BY <1>4 DEF Compacting, NoCompaction, NoTables
<1>9. ThreadInv'
  BY <1>2, <1>5, <1>8 DEF ThreadInv
<1>10. CompactionInv'
  BY <1>3, <1>4, <1>5, <1>6 DEF CompactionInv
<1>11. /\ Alike /\ bgError' \in BOOLEAN /\ scheduled' \in BOOLEAN /\ pendingOutputs' \subseteq Nat
       /\ errors' \in 0 .. MaxErrors /\ bg.phase # "install"
       /\ nextFile' \in Nat /\ nextFile' >= nextFile
  BY <1>1, <1>2, <1>3 DEF Types, OtherTypes, MemoryTypes, Alike, NoWork
<1>. QED
  BY <1>1, <1>2, <1>3, <1>4, <1>5, <1>7, <1>9, <1>10, <1>11, FrameFiles DEF WorkInv

LEMMA MoveTableKeeps ==
  ASSUME Inv, MoveTable
  PROVE  Inv'
<1>1. /\ phase = "open" /\ Types /\ WorkTypes /\ WorkInv /\ DiskInv /\ VersionInv
  BY DEF Inv, OpenInv, Types, MoveTable, Picks, Begins, Running
<1>2. /\ UNCHANGED <<callers, writers, leader, memory, vset, scheduled, compaction, bgError,
                     pendingOutputs, reader, disk, phase, unreplayed, acknowledged, synced, errors,
                     crashes>>
      /\ bg = NoWork
  BY DEF MoveTable, Picks, Begins, history
<1>3. UNCHANGED <<version, logNumber, manifestNumber, nextFile, lastSequence, logs, tables,
                  manifests, current, damage>>
  BY <1>2 DEF disk, memory, vset
<1>. PICK n \in version.level0 :
       bg' = [phase |-> "manifest", kind |-> "move", number |-> 0,
              edit |-> [level0 |-> {}, base |-> {n}, deleted |-> {n}, log |-> logNumber,
                        next |-> nextFile, seq |-> lastSequence]]
  BY DEF MoveTable
<1>. PICK e : e = [level0 |-> {}, base |-> {n}, deleted |-> {n}, log |-> logNumber,
                   next |-> nextFile, seq |-> lastSequence]
  OBVIOUS
<1>4. /\ e.level0 = {} /\ e.base = {n} /\ e.deleted = {n} /\ e.log = logNumber
      /\ e.next = nextFile /\ e.seq = lastSequence
  OBVIOUS
<1>5. /\ bg'.phase = "manifest" /\ bg'.kind = "move" /\ bg'.number = 0 /\ bg'.edit = e
      /\ bg' = [phase |-> bg'.phase, kind |-> bg'.kind, number |-> bg'.number, edit |-> bg'.edit]
  OBVIOUS
<1>6. n \in TablesOf(version) /\ n \in Nat
  BY <1>1, NumbersAre DEF TablesOf
<1>7. e \in Edits
  BY <1>1, <1>6, NumbersAre DEF Edits
<1>8. WorkTypes'
  BY <1>1, <1>3, <1>2, <1>5, <1>7 DEF WorkTypes
<1>9. ~Compacting /\ ~Compacting'
  BY <1>1, <1>2 DEF WorkInv, ThreadInv, Compacting, NoWork
<1>10. E' = E
  BY <1>3 DEF E
<1>11. /\ Added' = [level0 |-> {}, base |-> {n}] /\ TablesOf(Added)' = {n}
  BY <1>4, <1>5 DEF Added, TablesOf
<1>12. /\ EntriesOf(Added)' = tables[n] /\ tables[n] \subseteq EntriesOf(version)
       /\ EntriesOf(version)' = EntriesOf(version)
  BY <1>3, <1>6, <1>11 DEF EntriesOf
<1>13. /\ Readable(version, nextFile, lastSequence) /\ Readable(Added', nextFile, lastSequence)
  BY <1>1, <1>6, <1>11, NumbersAre DEF Readable
<1>14. /\ Readable(version, bg.edit.next, bg.edit.seq)' /\ Readable(Added, bg.edit.next, bg.edit.seq)'
  BY <1>3, <1>4, <1>5, <1>13 DEF Readable
<1>15. ThreadInv'
  <2>1. /\ E[Len(E)].next <= nextFile /\ E[Len(E)].seq <= lastSequence
        /\ current < nextFile /\ logNumber < nextFile
        /\ nextFile <= nextFile /\ lastSequence <= lastSequence
    BY <1>1, NumbersAre DEF VersionInv
  <2>2. UNION {tables[m] : m \in {n}} = tables[n]
    OBVIOUS
  <2>. QED
    BY <1>3, <1>4, <1>5, <1>7, <1>9, <1>10, <1>12, <1>14, <2>1, <2>2 DEF ThreadInv
<1>16. CompactionInv'
  BY <1>9 DEF CompactionInv
<1>17. /\ Alike /\ bgError' \in BOOLEAN /\ scheduled' \in BOOLEAN /\ pendingOutputs' \subseteq Nat
       /\ errors' \in 0 .. MaxErrors /\ bg.phase # "install"
       /\ nextFile' \in Nat /\ nextFile' >= nextFile
  BY <1>1, <1>2, <1>3, NumbersAre DEF Types, OtherTypes, Alike, NoWork
<1>. QED
  BY <1>1, <1>2, <1>3, <1>5, <1>8, <1>15, <1>16, <1>17, FrameFiles DEF WorkInv

\* What the thread is at when it gave up its work, or a flush in the middle of it.
LEMMA WorkFailed ==
  ASSUME Inv, phase = "open", FailWork, bg.phase \in {"build", "merge", "manifest"},
         UNCHANGED <<tables, version, nextFile>>, damage' \in {"none", "tail", "spoiled"},
         bg.kind = "flush" /\ Compacting =>
           \A k \in Kept' : TablesOf(Ver(k)') \cap compaction.outputs = {}
  PROVE  /\ WorkTypes' /\ WorkInv' /\ Alike /\ bgError' /\ bgError' \in BOOLEAN
         /\ scheduled' \in BOOLEAN /\ pendingOutputs' \subseteq Nat /\ errors' \in 0 .. MaxErrors
         /\ bg'.phase \in {"none", "merge"}
         /\ compaction'.outputs \subseteq compaction.outputs
         /\ bg' = [phase |-> bg'.phase, kind |-> bg'.kind, number |-> bg'.number, edit |-> bg'.edit]
<1>1. /\ Types /\ WorkTypes /\ WorkInv /\ ThreadInv /\ CompactionInv
  BY DEF Inv, OpenInv, WorkInv, Types
<1>2. /\ errors < MaxErrors /\ errors' = errors + 1 /\ bgError' = TRUE
  BY DEF FailWork
<1>3. errors' \in 0 .. MaxErrors
  BY <1>1, <1>2, ErrorCounted
<1>4. pendingOutputs \subseteq Nat /\ scheduled \in BOOLEAN
  BY <1>1 DEF Types, OtherTypes
<1>5. CASE bg.kind = "flush" /\ Compacting
  <2>1. /\ bg' = Merging /\ leader' = Awake /\ scheduled' = scheduled
        /\ pendingOutputs' = pendingOutputs \ {bg.number} /\ compaction' = compaction
    BY <1>5 DEF FailWork, EndCompactMemTable
  <2>2. /\ bg'.phase = "merge" /\ bg'.kind = "compact" /\ bg'.number = 0 /\ bg'.edit = None
        /\ bg' = [phase |-> bg'.phase, kind |-> bg'.kind, number |-> bg'.number, edit |-> bg'.edit]
    BY <2>1 DEF Merging
  <2>3. WorkTypes'
    BY <1>1, <2>1, <2>2 DEF WorkTypes
  <2>4. Compacting' /\ EntriesOf(compaction.inputs)' = EntriesOf(compaction.inputs)
    BY <1>5, <2>1 DEF Compacting, EntriesOf
  <2>5. ThreadInv'
    BY <2>1, <2>2, <2>4 DEF ThreadInv
  <2>6. bg.number \notin compaction.outputs
    BY <1>1, <1>5 DEF CompactionInv
  <2>7. CompactionInv'
    BY <1>1, <1>5, <2>1, <2>2, <2>4, <2>6 DEF CompactionInv
  <2>. QED
    BY <1>2, <1>3, <1>4, <2>1, <2>2, <2>3, <2>5, <2>7 DEF Alike, WorkInv
<1>6. CASE ~(bg.kind = "flush" /\ Compacting)
  <2>1. /\ bg' = NoWork /\ leader' = Awake /\ scheduled' \in BOOLEAN
        /\ pendingOutputs' \subseteq pendingOutputs /\ compaction' = NoCompaction
    <3>1. CASE bg.kind = "flush"
      BY <1>6, <3>1 DEF FailWork, EndCompactMemTable, EndBackgroundCall, Schedulable, Compacting
    <3>2. CASE bg.kind # "flush"
      BY <3>2 DEF FailWork, EndBackgroundCall, Schedulable
    <3>. QED
      BY <3>1, <3>2
  <2>2. /\ bg'.phase = "none" /\ bg'.kind = "none" /\ bg'.number = 0 /\ bg'.edit = None
        /\ bg' = [phase |-> bg'.phase, kind |-> bg'.kind, number |-> bg'.number, edit |-> bg'.edit]
    BY <2>1 DEF NoWork
  <2>3. /\ compaction'.inputs = NoTables /\ compaction'.merged = {} /\ compaction'.outputs = {}
        /\ compaction'.open = 0
        /\ compaction' = [inputs |-> compaction'.inputs, merged |-> compaction'.merged,
                          outputs |-> compaction'.outputs, open |-> compaction'.open]
    BY <2>1 DEF NoCompaction
  <2>4. WorkTypes'
    BY <2>2, <2>3 DEF WorkTypes, Versions, NoTables
  <2>5. ~Compacting'
    BY <2>1 DEF Compacting
  <2>6. ThreadInv' /\ CompactionInv'
    BY <2>1, <2>2, <2>5 DEF ThreadInv, CompactionInv
  <2>. QED
    BY <1>2, <1>3, <1>4, <2>1, <2>2, <2>3, <2>4, <2>6 DEF Alike, WorkInv
<1>. QED
  BY <1>5, <1>6

LEMMA BuildFailsKeeps ==
  ASSUME Inv, phase = "open", BuildFails
  PROVE  Inv'
<1>1. /\ Types /\ ThreadInv /\ CompactionInv /\ VersionInv
  BY DEF Inv, OpenInv, WorkInv
<1>2. /\ bg.phase \in {"build", "merge"} /\ FailWork
      /\ UNCHANGED <<callers, writers, memory, vset, reader, disk, phase, unreplayed, acknowledged,
                     synced, crashes>>
  BY DEF BuildFails
<1>3. UNCHANGED <<version, logNumber, manifestNumber, nextFile, logs, tables, manifests, current,
                  damage>>
  BY <1>2 DEF vset, disk
<1>4. bg.kind = "flush" /\ Compacting =>
        \A k \in Kept' : TablesOf(Ver(k)') \cap compaction.outputs = {}
  <2>1. Kept' = Kept /\ \A k : Ver(k)' = Ver(k)
    BY <1>3 DEF Kept, Synced, E, Ver
  <2>. QED
    BY <1>1, <2>1 DEF CompactionInv
<1>5. /\ damage' \in {"none", "tail", "spoiled"} /\ nextFile' \in Nat /\ nextFile' >= nextFile
  BY <1>1, <1>3 DEF Types, WorkTypes, MemoryTypes
<1>6. /\ WorkTypes' /\ WorkInv' /\ Alike /\ bgError' /\ bgError' \in BOOLEAN
      /\ scheduled' \in BOOLEAN /\ pendingOutputs' \subseteq Nat /\ errors' \in 0 .. MaxErrors
      /\ bg'.phase \in {"none", "merge"} /\ compaction'.outputs \subseteq compaction.outputs
  BY <1>2, <1>3, <1>4, <1>5, WorkFailed
<1>. QED
  BY <1>2, <1>3, <1>5, <1>6, FrameFiles

\* The outputs have what was merged, and nothing else is in what they replace.
LEMMA InstallCompactionResultsKeeps ==
  ASSUME Inv, phase = "open", InstallCompactionResults
  PROVE  Inv'
<1>1. /\ Types /\ WorkTypes /\ ThreadInv /\ CompactionInv /\ VersionInv
  BY DEF Inv, OpenInv, Types, WorkInv
<1>2. /\ UNCHANGED <<callers, writers, leader, memory, vset, scheduled, compaction, bgError,
                     pendingOutputs, reader, disk, phase, unreplayed, acknowledged, synced, errors,
                     crashes>>
      /\ bg.phase = "merge" /\ compaction.open = 0 /\ Left = {}
  BY DEF InstallCompactionResults, history
<1>3. UNCHANGED <<version, logNumber, manifestNumber, nextFile, lastSequence, logs, tables,
                  manifests, current, damage>>
  BY <1>2 DEF disk, memory, vset
<1>. PICK e : e = [level0 |-> {}, base |-> compaction.outputs, deleted |-> TablesOf(compaction.inputs),
                   log |-> logNumber, next |-> nextFile, seq |-> lastSequence]
  OBVIOUS
<1>4. /\ e.level0 = {} /\ e.base = compaction.outputs /\ e.deleted = TablesOf(compaction.inputs)
      /\ e.log = logNumber /\ e.next = nextFile /\ e.seq = lastSequence
  OBVIOUS
<1>5. bg = Merging /\ bg.kind = "compact" /\ Compacting
  BY <1>1, <1>2 DEF ThreadInv, Merging
<1>6. /\ bg' = [phase |-> "manifest", kind |-> "compact", number |-> 0, edit |-> e]
      /\ bg'.phase = "manifest" /\ bg'.kind = "compact" /\ bg'.number = 0 /\ bg'.edit = e
      /\ bg' = [phase |-> bg'.phase, kind |-> bg'.kind, number |-> bg'.number, edit |-> bg'.edit]
  <2>1. bg' = [bg EXCEPT !.phase = "manifest", !.edit = e]
    BY DEF InstallCompactionResults
  <2>2. bg' = [phase |-> "manifest", kind |-> "compact", number |-> 0, edit |-> e]
    BY <1>5, <2>1 DEF Merging
  <2>. QED
    BY <2>2
<1>7. /\ compaction.outputs \subseteq Nat /\ TablesOf(compaction.inputs) \subseteq Nat
      /\ TablesOf(compaction.inputs) \subseteq TablesOf(version)
  BY <1>1, <1>5 DEF WorkTypes, CompactionInv, Versions, TablesOf
<1>8. e \in Edits
  BY <1>4, <1>7, NumbersAre DEF Edits
<1>9. WorkTypes'
  BY <1>1, <1>2, <1>3, <1>6, <1>8 DEF WorkTypes
<1>10. Added' = [level0 |-> {}, base |-> compaction.outputs] /\ TablesOf(Added)' = compaction.outputs
  BY <1>4, <1>6 DEF Added, TablesOf
<1>11. compaction.outputs \ {compaction.open} = compaction.outputs
  BY <1>2, NumbersAre
<1>12. /\ \A m \in compaction.outputs : m \in DOMAIN tables /\ tables[m] # {}
       /\ compaction.merged = UNION {tables[m] : m \in compaction.outputs}
       /\ compaction.merged = EntriesOf(compaction.inputs)
  BY <1>1, <1>2, <1>5, <1>11 DEF CompactionInv, Left
<1>13. EntriesOf(compaction.inputs) \subseteq EntriesOf(version)
  BY <1>7, InTables
<1>14. /\ EntriesOf(Added)' = EntriesOf(compaction.inputs)
       /\ EntriesOf(version)' = EntriesOf(version)
       /\ UNION {tables[m] : m \in e.deleted} = EntriesOf(compaction.inputs)
       /\ EntriesOf(compaction.inputs)' = EntriesOf(compaction.inputs)
  BY <1>2, <1>3, <1>4, <1>10, <1>12 DEF EntriesOf
<1>15. Readable(version, nextFile, lastSequence) /\ Readable(Added', nextFile, lastSequence)
  <2>1. \A x \in EntriesOf(version) : x.seq <= lastSequence
    BY NumbersAre, InTables
  <2>2. ASSUME NEW m \in compaction.outputs, NEW x \in tables[m] PROVE x.seq <= lastSequence
    <3>1. x \in EntriesOf(compaction.inputs)
      BY <1>12
    <3>. QED
      BY <1>13, <2>1, <3>1
  <2>. QED
    BY <1>10, <1>12, <2>2, NumbersAre DEF Readable
<1>16. /\ Readable(version, bg.edit.next, bg.edit.seq)' /\ Readable(Added, bg.edit.next, bg.edit.seq)'
  BY <1>3, <1>4, <1>6, <1>15 DEF Readable
<1>17. E' = E /\ Compacting'
  BY <1>2, <1>3, <1>5 DEF E, Compacting
<1>18. ThreadInv'
  <2>1. /\ E[Len(E)].next <= nextFile /\ E[Len(E)].seq <= lastSequence
        /\ current < nextFile /\ logNumber < nextFile
        /\ nextFile <= nextFile /\ lastSequence <= lastSequence
    BY <1>1, NumbersAre DEF VersionInv
  <2>. QED
    BY <1>3, <1>4, <1>6, <1>8, <1>13, <1>14, <1>16, <1>17, <2>1 DEF ThreadInv
<1>19. CompactionInv'
  BY <1>1, <1>2, <1>3, <1>5, <1>6, <1>14 DEF CompactionInv
<1>20. /\ Alike /\ bgError' \in BOOLEAN /\ scheduled' \in BOOLEAN /\ pendingOutputs' \subseteq Nat
       /\ errors' \in 0 .. MaxErrors
       /\ nextFile' \in Nat /\ nextFile' >= nextFile
  BY <1>1, <1>2, <1>3, NumbersAre DEF Types, OtherTypes, Alike
<1>. QED
  BY <1>2, <1>3, <1>6, <1>9, <1>18, <1>19, <1>20, FrameFiles DEF WorkInv

\* A step of the thread that makes or fills a table no version has.
LEMMA FrameTable ==
  ASSUME Inv, phase = "open", NEW n \in Nat, NEW x \in SUBSET Entries, tables' = NewFile(tables, n, x),
         UNCHANGED <<callers, writers, leader, memory, version, logNumber, manifestNumber, scheduled,
                     bgError, reader, logs, manifests, current, damage, phase, unreplayed,
                     acknowledged, synced, errors, crashes>>,
         \A k \in Kept : n \notin TablesOf(Ver(k)), n \notin TablesOf(version),
         reader # None => n \notin TablesOf(reader.version),
         {bg.phase, bg'.phase} \cap {"install"} = {}, bg'.phase # "build",
         compaction'.outputs \subseteq compaction.outputs \cup {nextFile},
         nextFile' \in Nat, nextFile' >= nextFile, pendingOutputs' \subseteq Nat,
         WorkTypes', WorkInv'
  PROVE  Inv'
<1>1. /\ Types /\ DiskTypes /\ MemoryTypes /\ DiskInv /\ VersionInv /\ ReaderInv
  BY DEF Inv, Types, OpenInv
<1>2. logfileNumber' = logfileNumber /\ lastSequence' = lastSequence
  BY DEF memory
<1>3. /\ DiskTypes' /\ DiskInv' /\ OnDisk' = OnDisk
      /\ \A m \in DOMAIN tables \ {n} : m \in DOMAIN tables' /\ tables'[m] = tables[m]
  <2>1. /\ DiskTypes' /\ E' = E /\ Kept' = Kept /\ Synced' = Synced /\ OnDisk' = OnDisk
        /\ \A k : Ver(k)' = Ver(k)
        /\ DOMAIN tables' = DOMAIN tables \cup {n} /\ tables'[n] = x
        /\ \A m \in DOMAIN tables \ {n} : tables'[m] = tables[m]
        /\ DiskInv'
    BY <1>1, NewTable
  <2>. QED
    BY <2>1
<1>4. \A m \in TablesOf(version) : m \in DOMAIN tables' /\ tables'[m] = tables[m]
  BY <1>3, NumbersAre
<1>5. reader # None => /\ TablesOf(reader.version) \subseteq Nat
                       /\ \A m \in TablesOf(reader.version) : m \in DOMAIN tables' /\ tables'[m] = tables[m]
  BY <1>3, NumbersAre
<1>6. ReaderInv'
  BY <1>1, <1>5, FrameReader
<1>7. VersionInv'
  <2>1. E[Len(E)].next \in Nat /\ E[Len(E)].seq <= lastSequence'
    BY <1>1, <1>2, ManifestIs DEF VersionInv
  <2>. QED
    BY <1>1, <1>2, <2>1, FrameVersion
<1>8. /\ Alike /\ bgError' \in BOOLEAN /\ scheduled' \in BOOLEAN /\ errors' \in 0 .. MaxErrors
  BY <1>1 DEF Types, OtherTypes, Alike
<1>. QED
  BY <1>3, <1>4, <1>6, <1>7, <1>8, FrameThread

\* The table has what is in the memtable.
LEMMA BuildTableKeeps ==
  ASSUME Inv, phase = "open", BuildTable
  PROVE  Inv'
<1>1. /\ Types /\ DiskTypes /\ WorkTypes /\ WorkInv /\ ThreadInv /\ CompactionInv /\ VersionInv /\ ReaderInv
      /\ ReadInv /\ MemoryTypes /\ LogInv
  BY DEF Inv, OpenInv, Types, WorkInv
<1>2. UNCHANGED <<callers, writers, leader, memory, vset, scheduled, compaction, bgError, reader,
                  logs, manifests, current, damage, phase, unreplayed, acknowledged, synced, errors,
                  crashes>>
  BY DEF BuildTable, history
<1>3. UNCHANGED <<version, logNumber, manifestNumber, nextFile, lastSequence, logfileNumber, imm>>
  BY <1>2 DEF memory, vset
<1>. PICK n : n = bg.number
  OBVIOUS
<1>. DEFINE made == IF Imm = {} THEN {} ELSE {n}
<1>. PICK lower \in SUBSET made :
       bg' = [bg EXCEPT !.phase = "manifest", !.edit =
         [level0 |-> made \ lower, base |-> lower, deleted |-> {}, log |-> logfileNumber,
          next |-> nextFile, seq |-> lastSequence]]
  BY DEF BuildTable, Imm
<1>. PICK e : e = [level0 |-> made \ lower, base |-> lower, deleted |-> {}, log |-> logfileNumber,
                   next |-> nextFile, seq |-> lastSequence]
  OBVIOUS
<1>4. /\ bg.phase = "build" /\ bg.kind = "flush"
      /\ tables' = (IF Imm = {} THEN tables ELSE NewFile(tables, n, Imm))
      /\ pendingOutputs' = pendingOutputs \ {n}
  BY <1>1 DEF BuildTable, Imm, ThreadInv
<1>5. /\ e.level0 = made \ lower /\ e.base = lower /\ e.deleted = {} /\ e.log = logfileNumber
      /\ e.next = nextFile /\ e.seq = lastSequence
  OBVIOUS
<1>6. /\ bg'.phase = "manifest" /\ bg'.kind = "flush" /\ bg'.number = n /\ bg'.edit = e
      /\ bg' = [phase |-> bg'.phase, kind |-> bg'.kind, number |-> bg'.number, edit |-> bg'.edit]
  BY <1>1, <1>4 DEF WorkTypes
<1>7. /\ n \in Nat /\ n < nextFile /\ n \notin TablesOf(version) /\ imm # {}
      /\ \A k \in Kept : n \notin TablesOf(Ver(k))
      /\ reader # None => n \notin TablesOf(reader.version)
      /\ Compacting => n \notin compaction.outputs
  BY <1>1, <1>4 DEF WorkTypes, ThreadInv, ReaderInv, CompactionInv
<1>8. made \subseteq Nat /\ (made \ lower) \cup lower = made
  BY <1>7
<1>9. e \in Edits
  BY <1>5, <1>8, NumbersAre DEF Edits
<1>10. /\ \A m \in DOMAIN tables \ {n} : m \in DOMAIN tables' /\ tables'[m] = tables[m]
       /\ Imm # {} => n \in DOMAIN tables' /\ tables'[n] = Imm
  BY <1>4 DEF NewFile
<1>11. Imm \subseteq Entries /\ (\A x \in Imm : x.seq <= lastSequence) /\ Imm' = Imm
  BY <1>1, <1>3 DEF MemoryTypes, ReadInv, Imm
<1>12. WorkTypes'
  BY <1>1, <1>2, <1>6, <1>7, <1>9 DEF WorkTypes
<1>13. TablesOf(Added)' = made
  BY <1>5, <1>6, <1>8 DEF Added, TablesOf
<1>14. EntriesOf(Added)' = Imm
  <2>1. CASE Imm = {}
    BY <1>13, <2>1 DEF EntriesOf
  <2>2. CASE Imm # {}
    BY <1>10, <1>13, <2>2 DEF EntriesOf
  <2>. QED
    BY <2>1, <2>2
<1>15. \A m \in TablesOf(version) : m \in DOMAIN tables' /\ tables'[m] = tables[m]
  BY <1>7, <1>10, NumbersAre
<1>16. Readable(version, bg.edit.next, bg.edit.seq)' /\ Readable(Added, bg.edit.next, bg.edit.seq)'
  <2>1. Readable(version, nextFile, lastSequence)'
    BY <1>3, <1>15, NumbersAre DEF Readable
  <2>2. Readable(Added, nextFile, lastSequence)'
    BY <1>3, <1>7, <1>10, <1>11, <1>13 DEF Readable
  <2>3. bg'.edit.next = nextFile' /\ bg'.edit.seq = lastSequence'
    BY <1>3, <1>5, <1>6
  <2>. QED
    BY <2>1, <2>2, <2>3 DEF Readable
<1>17. /\ E' = E /\ Kept' = Kept /\ (\A k : Ver(k)' = Ver(k)) /\ Compacting' = Compacting
  BY <1>2 DEF E, Kept, Synced, Ver, Compacting
<1>18. ThreadInv'
  <2>1. /\ E[Len(E)].next <= nextFile /\ E[Len(E)].seq <= lastSequence
        /\ current < nextFile /\ logfileNumber < nextFile
        /\ nextFile <= nextFile /\ lastSequence <= lastSequence
    BY <1>1, NumbersAre DEF VersionInv
  <2>2. UNION {tables'[m] : m \in {}} \subseteq EntriesOf(Added)'
    OBVIOUS
  <2>. HIDE DEF made
  <2>. QED
    BY <1>2, <1>3, <1>5, <1>6, <1>7, <1>9, <1>11, <1>14, <1>16, <1>17, <2>1, <2>2 DEF ThreadInv
<1>19. CompactionInv'
  <2>. SUFFICES ASSUME Compacting PROVE CompactionInv'
    BY <1>17 DEF CompactionInv
  <2>. USE DEF CompactionInv
  <2>1. \A m \in compaction.outputs : m \in DOMAIN tables' /\ tables'[m] = tables[m]
    BY <1>1, <1>7, <1>10
  <2>2. \A m \in TablesOf(compaction.inputs) : m \in TablesOf(version) /\ tables'[m] = tables[m]
    BY <1>1, <1>15
  <2>3. EntriesOf(compaction.inputs)' = EntriesOf(compaction.inputs)
    BY <1>2, <2>2 DEF EntriesOf
  <2>4. UNION {tables'[m] : m \in compaction.outputs \ {compaction.open}}
          = UNION {tables[m] : m \in compaction.outputs \ {compaction.open}}
    BY <2>1
  <2>5. TablesOf(Added)' \cap compaction.outputs = {}
    BY <1>7, <1>13
  <2>6. compaction.outputs \subseteq DOMAIN tables' \cap pendingOutputs'
    BY <1>1, <1>4, <1>7, <2>1
  <2>7. \A k \in Kept' : TablesOf(Ver(k)') \cap compaction.outputs = {}
    BY <1>1, <1>4, <1>17
  <2>. QED
    BY <1>1, <1>2, <1>3, <1>6, <1>7, <2>1, <2>3, <2>4, <2>5, <2>6, <2>7
<1>20. /\ Alike /\ bgError' \in BOOLEAN /\ scheduled' \in BOOLEAN /\ pendingOutputs' \subseteq Nat
       /\ errors' \in 0 .. MaxErrors /\ nextFile' \in Nat /\ nextFile' >= nextFile
  BY <1>1, <1>2, <1>3, <1>4, NumbersAre DEF Types, OtherTypes, Alike
<1>21. WorkInv'
  BY <1>18, <1>19 DEF WorkInv
<1>22. /\ bg.phase # "install" /\ bg'.phase # "install" /\ bg'.phase # "build"
       /\ {bg.phase, bg'.phase} \cap {"install"} = {}
       /\ compaction'.outputs \subseteq compaction.outputs \cup {nextFile}
  BY <1>2, <1>4, <1>6
<1>23. CASE Imm = {}
  BY <1>2, <1>3, <1>4, <1>12, <1>20, <1>21, <1>22, <1>23, FrameFiles
<1>24. CASE Imm # {}
  BY <1>2, <1>3, <1>4, <1>7, <1>11, <1>12, <1>20, <1>21, <1>22, <1>24, FrameTable
<1>. QED
  BY <1>23, <1>24

LEMMA UnionAdds ==
  ASSUME NEW f, NEW S, NEW n
  PROVE  UNION {f[m] : m \in S \cup {n}} = (UNION {f[m] : m \in S}) \cup f[n]
OBVIOUS

LEMMA OpenOutputKeeps ==
  ASSUME Inv, phase = "open", OpenOutput
  PROVE  Inv'
<1>1. /\ Types /\ DiskTypes /\ WorkTypes /\ WorkInv /\ ThreadInv /\ CompactionInv
  BY DEF Inv, OpenInv, Types, WorkInv
<1>2. /\ UNCHANGED <<callers, writers, leader, memory, version, logNumber, manifestNumber, scheduled,
                     bg, bgError, reader, logs, manifests, current, damage, phase, unreplayed,
                     acknowledged, synced, errors, crashes>>
      /\ bg.phase = "merge" /\ compaction.open = 0 /\ nextFile' = nextFile + 1
      /\ tables' = NewFile(tables, nextFile, {})
      /\ pendingOutputs' = pendingOutputs \cup {nextFile}
      /\ compaction' = [compaction EXCEPT !.outputs = @ \cup {nextFile}, !.open = nextFile]
  BY DEF OpenOutput, history
<1>. PICK n : n = nextFile
  OBVIOUS
<1>3. /\ compaction'.inputs = compaction.inputs /\ compaction'.merged = compaction.merged
      /\ compaction'.outputs = compaction.outputs \cup {n} /\ compaction'.open = n
      /\ compaction' = [inputs |-> compaction'.inputs, merged |-> compaction'.merged,
                        outputs |-> compaction'.outputs, open |-> compaction'.open]
  BY <1>1, <1>2 DEF WorkTypes
<1>4. /\ n \in Nat /\ 0 < n /\ n < nextFile' /\ nextFile' \in Nat /\ nextFile' >= nextFile
      /\ n \notin TablesOf(version) /\ n \notin compaction.outputs
      /\ \A k \in Kept : n \notin TablesOf(Ver(k))
      /\ reader # None => n \notin TablesOf(reader.version)
      /\ \A m \in compaction.outputs : 0 < m /\ m < nextFile' /\ m # 0
  BY <1>2, NumbersAre
<1>5. /\ n \in DOMAIN tables' /\ tables'[n] = {}
      /\ \A m \in DOMAIN tables \ {n} : m \in DOMAIN tables' /\ tables'[m] = tables[m]
  BY <1>2 DEF NewFile
<1>6. WorkTypes'
  BY <1>1, <1>2, <1>3, <1>4 DEF WorkTypes
<1>7. /\ bg.kind = "compact" /\ Compacting
  BY <1>1, <1>2 DEF ThreadInv, Merging
<1>8. Compacting'
  <2>1. compaction'.open # 0
    BY <1>3, <1>4
  <2>. QED
    BY <2>1 DEF Compacting, NoCompaction
<1>9. Kept' = Kept /\ \A k : Ver(k)' = Ver(k)
  BY <1>2 DEF E, Kept, Synced, Ver
<1>10. ThreadInv'
  BY <1>1, <1>2, <1>7, <1>8 DEF ThreadInv
<1>11. CompactionInv'
  <2>. USE <1>1, <1>7 DEF CompactionInv
  <2>1. \A m \in compaction.outputs : m \in DOMAIN tables' /\ tables'[m] = tables[m]
    BY <1>4, <1>5
  <2>2. compaction'.outputs \ {n} = compaction.outputs /\ compaction.outputs \ {0} = compaction.outputs
    BY <1>3, <1>4
  <2>3. EntriesOf(compaction.inputs)' = EntriesOf(compaction.inputs)
    <3>1. \A m \in TablesOf(compaction.inputs) : m \in DOMAIN tables /\ m # n
      BY <1>4, NumbersAre
    <3>. QED
      BY <1>3, <1>5, <3>1 DEF EntriesOf
  <2>4. compaction.merged = UNION {tables'[m] : m \in compaction.outputs}
    BY <1>2, <2>1, <2>2
  <2>5. compaction'.outputs \subseteq DOMAIN tables' \cap pendingOutputs'
    BY <1>2, <1>3, <1>5, <2>1
  <2>6. \A k \in Kept' : TablesOf(Ver(k)') \cap compaction'.outputs = {}
    BY <1>2, <1>3, <1>4, <1>9
  <2>. QED
    BY <1>2, <1>3, <1>4, <2>1, <2>2, <2>3, <2>4, <2>5, <2>6
<1>12. pendingOutputs' \subseteq Nat
  BY <1>1, <1>2, <1>4 DEF Types, OtherTypes
<1>13. /\ {bg.phase, bg'.phase} \cap {"install"} = {} /\ bg'.phase # "build"
       /\ compaction'.outputs \subseteq compaction.outputs \cup {nextFile}
       /\ {} \in SUBSET Entries /\ tables' = NewFile(tables, n, {})
  BY <1>2, <1>3
<1>. QED
  BY <1>2, <1>4, <1>6, <1>10, <1>11, <1>12, <1>13, FrameTable DEF WorkInv

\* What is in the output was merged, and stays in the tables it comes from.
LEMMA FinishOutputKeeps ==
  ASSUME Inv, phase = "open", FinishOutput
  PROVE  Inv'
<1>1. /\ Types /\ DiskTypes /\ WorkTypes /\ WorkInv /\ ThreadInv /\ CompactionInv /\ ReaderInv
  BY DEF Inv, OpenInv, Types, WorkInv
<1>2. /\ UNCHANGED <<callers, writers, leader, memory, vset, scheduled, bg, bgError, pendingOutputs,
                     reader, logs, manifests, current, damage, phase, unreplayed, acknowledged,
                     synced, errors, crashes>>
      /\ bg.phase = "merge" /\ compaction.open # 0
  BY DEF FinishOutput, history
<1>. PICK part \in SUBSET Left :
       /\ part # {}
       /\ tables' = [m \in DOMAIN tables |-> IF m = compaction.open THEN part ELSE tables[m]]
       /\ compaction' = [compaction EXCEPT !.merged = @ \cup part, !.open = 0]
  BY DEF FinishOutput
<1>. PICK n : n = compaction.open
  OBVIOUS
<1>3. /\ compaction'.inputs = compaction.inputs /\ compaction'.merged = compaction.merged \cup part
      /\ compaction'.outputs = compaction.outputs /\ compaction'.open = 0
      /\ compaction' = [inputs |-> compaction'.inputs, merged |-> compaction'.merged,
                        outputs |-> compaction'.outputs, open |-> compaction'.open]
  BY <1>1 DEF WorkTypes
<1>4. bg.kind = "compact" /\ Compacting /\ UNCHANGED <<version, logNumber, manifestNumber, nextFile>>
  BY <1>1, <1>2 DEF ThreadInv, Merging, vset
<1>5. n \in compaction.outputs /\ n \in DOMAIN tables /\ n \in Nat
  BY <1>1, <1>2, <1>4, NumbersAre DEF WorkTypes, CompactionInv
<1>6. /\ n \notin TablesOf(version) /\ \A k \in Kept : n \notin TablesOf(Ver(k))
      /\ reader # None => n \notin TablesOf(reader.version)
  BY <1>1, <1>2, <1>4, <1>5 DEF CompactionInv, ReaderInv
<1>7. part \subseteq EntriesOf(compaction.inputs) /\ part \subseteq Entries
  <2>1. part \subseteq EntriesOf(compaction.inputs)
    BY DEF Left
  <2>2. EntriesOf(compaction.inputs) \subseteq Entries
    BY <1>1, <1>4, NumbersAre, InTables DEF CompactionInv
  <2>. QED
    BY <2>1, <2>2
<1>8. /\ tables' = NewFile(tables, n, part) /\ n \in DOMAIN tables' /\ tables'[n] = part
      /\ \A m \in DOMAIN tables \ {n} : m \in DOMAIN tables' /\ tables'[m] = tables[m]
  <2>1. DOMAIN tables \cup {n} = DOMAIN tables
    BY <1>5
  <2>. QED
    BY <1>5, <2>1 DEF NewFile
<1>9. WorkTypes'
  BY <1>1, <1>2, <1>3, <1>7 DEF WorkTypes
<1>10. Compacting'
  <2>1. compaction'.outputs # {}
    BY <1>3, <1>5
  <2>. QED
    BY <2>1 DEF Compacting, NoCompaction
<1>11. Kept' = Kept /\ \A k : Ver(k)' = Ver(k)
  BY <1>2 DEF E, Kept, Synced, Ver
<1>12. ThreadInv'
  BY <1>1, <1>2, <1>4, <1>10 DEF ThreadInv
<1>13. CompactionInv'
  <2>. USE <1>1, <1>4 DEF CompactionInv
  <2>1. \A m \in compaction.outputs \ {n} : m \in DOMAIN tables' /\ tables'[m] = tables[m] /\ tables[m] # {}
    BY <1>8
  <2>2. compaction'.outputs \ {compaction'.open} = compaction.outputs
    BY <1>3, NumbersAre
  <2>3. EntriesOf(compaction.inputs)' = EntriesOf(compaction.inputs)
    <3>1. \A m \in TablesOf(compaction.inputs) : m \in DOMAIN tables /\ m # n
      BY <1>6, NumbersAre
    <3>. QED
      BY <1>3, <1>8, <3>1 DEF EntriesOf
  <2>4. compaction.merged \cup part = UNION {tables'[m] : m \in compaction.outputs}
    <3>1. compaction.merged = UNION {tables[m] : m \in compaction.outputs \ {n}}
      OBVIOUS
    <3>2. compaction.merged = UNION {tables'[m] : m \in compaction.outputs \ {n}}
      BY <2>1, <3>1
    <3>3. compaction.outputs = (compaction.outputs \ {n}) \cup {n}
      BY <1>5
    <3>. QED
      BY <1>8, <3>2, <3>3, UnionAdds
  <2>5. compaction.outputs \subseteq DOMAIN tables' \cap pendingOutputs'
    BY <1>2, <1>8, <2>1
  <2>6. \A k \in Kept' : TablesOf(Ver(k)') \cap compaction'.outputs = {}
    BY <1>2, <1>3, <1>11
  <2>7. \A m \in compaction.outputs : tables'[m] # {}
    BY <1>8, <2>1
  <2>8. compaction.merged \cup part \subseteq EntriesOf(compaction.inputs)
    BY <1>7
  <2>. QED
    BY <1>2, <1>3, <2>2, <2>3, <2>4, <2>5, <2>6, <2>7, <2>8
<1>14. pendingOutputs' \subseteq Nat /\ nextFile' \in Nat /\ nextFile' >= nextFile
  BY <1>1, <1>2, <1>4, NumbersAre DEF Types, OtherTypes
<1>15. /\ {bg.phase, bg'.phase} \cap {"install"} = {} /\ bg'.phase # "build"
       /\ compaction'.outputs \subseteq compaction.outputs \cup {nextFile}
       /\ part \in SUBSET Entries
  BY <1>2, <1>3, <1>7
<1>. QED
  BY <1>2, <1>4, <1>5, <1>6, <1>8, <1>9, <1>12, <1>13, <1>14, <1>15, FrameTable DEF WorkInv

\* The sync of a MANIFEST, when what it would append does not count.
LEMMA EditsSynced ==
  ASSUME DiskTypes, DiskInv,
         manifests' = [manifests EXCEPT ![current] = [edits |-> E, durable |-> Len(E)]],
         UNCHANGED <<logs, tables, current, synced>>
  PROVE  /\ DiskTypes' /\ DiskInv' /\ E' = E /\ OnDisk' = OnDisk
         /\ Kept' \subseteq Kept /\ \A k : Ver(k)' = Ver(k)
<1>1. /\ E \in Seq(Edits) /\ Len(E) \in Nat /\ Len(E) \in Kept /\ Len(E) \in 1 .. Len(E)
  BY ManifestIs
<1>2. /\ E' = E /\ Synced' = Len(E) /\ DOMAIN manifests' = DOMAIN manifests
      /\ manifests'[current] = [edits |-> E, durable |-> Len(E)]
      /\ \A m \in DOMAIN manifests \ {current} : manifests'[m] = manifests[m]
  BY DEF E, Synced, DiskTypes
<1>3. DiskTypes'
  <2>1. /\ manifests'[current] = [edits |-> manifests'[current].edits, durable |-> manifests'[current].durable]
        /\ manifests'[current].edits \in Seq(Edits)
        /\ manifests'[current].durable \in 1 .. Len(manifests'[current].edits)
    BY <1>1, <1>2
  <2>2. \A m \in DOMAIN manifests \ {current} :
          /\ manifests'[m] = [edits |-> manifests'[m].edits, durable |-> manifests'[m].durable]
          /\ manifests'[m].edits \in Seq(Edits)
          /\ manifests'[m].durable \in 1 .. Len(manifests'[m].edits)
    BY <1>2 DEF DiskTypes
  <2>. QED
    BY <1>2, <2>1, <2>2 DEF DiskTypes
<1>4. /\ OnDisk' = OnDisk /\ \A k : Ver(k)' = Ver(k) /\ All(k)' = All(k) /\ Least(k)' = Least(k)
  BY <1>2 DEF OnDisk, Ver, All, Least, In, DurableIn, LogsFrom, EntriesOf, EntriesIn
<1>5. Kept' \subseteq Kept
  BY <1>1, <1>2 DEF Kept
<1>6. DiskInv'
  BY <1>2, <1>4, <1>5 DEF DiskInv, Readable
<1>. QED
  BY <1>2, <1>3, <1>4, <1>5, <1>6

\* A reader holds on to tables that stay.
LEMMA FrameReaders ==
  ASSUME Inv, phase = "open", UNCHANGED <<reader, tables, version, nextFile>>,
         bg' = bg \/ bg'.phase # "build", compaction'.outputs \subseteq compaction.outputs
  PROVE  /\ ReaderInv'
         /\ \A m \in TablesOf(version) : m \in DOMAIN tables' /\ tables'[m] = tables[m]
<1>1. MemoryTypes /\ ReaderInv
  BY DEF Inv, Types, OpenInv
<1>2. /\ nextFile' \in Nat /\ nextFile' >= nextFile
      /\ reader # None => TablesOf(reader.version) \subseteq Nat
                          /\ \A n \in TablesOf(reader.version) :
                               n \in DOMAIN tables' /\ tables'[n] = tables[n]
  BY NumbersAre
<1>3. ReaderInv'
  BY <1>1, <1>2, FrameReader
<1>. QED
  BY <1>3, NumbersAre

LEMMA WriteManifestKeeps ==
  ASSUME Inv, phase = "open", WriteManifest
  PROVE  Inv'
<1>1. /\ Types /\ DiskTypes /\ MemoryTypes /\ WorkTypes /\ DiskInv /\ OrderInv /\ ReadInv
      /\ VersionInv /\ LogInv /\ WorkInv /\ ThreadInv /\ CompactionInv
  BY DEF Inv, Types, OpenInv, WorkInv
<1>2. /\ UNCHANGED <<callers, writers, leader, memory, vset, scheduled, compaction, bgError,
                     pendingOutputs, reader, logs, tables, current, phase, unreplayed, acknowledged,
                     synced, errors, crashes>>
      /\ bg.phase = "manifest"
  BY DEF WriteManifest, history
<1>3. UNCHANGED <<logfileNumber, lastSequence, mem, imm, version, logNumber, nextFile, manifestNumber>>
  BY <1>2 DEF memory, vset
<1>4. /\ bg'.phase = "install" /\ bg'.kind = bg.kind /\ bg'.number = bg.number /\ bg'.edit = bg.edit
      /\ bg' = [phase |-> bg'.phase, kind |-> bg'.kind, number |-> bg'.number, edit |-> bg'.edit]
  BY <1>1 DEF WriteManifest, WorkTypes
<1>. DEFINE n == Len(E)
<1>5. /\ n \in Nat /\ E \in Seq(Edits) /\ bg.edit \in Edits /\ n \in Kept /\ n \in 1 .. n
      /\ E[n].next \in Nat /\ nextFile \in Nat /\ bg.edit.next \in Nat /\ bg.edit.log \in Nat
      /\ bg.edit.seq \in Nat /\ lastSequence \in Nat
      /\ logfileNumber \in Nat /\ logNumber <= logfileNumber /\ logNumber \in Nat
      /\ bg.edit.next <= nextFile /\ E[n].next <= bg.edit.next
      /\ bg.edit.seq <= lastSequence /\ E[n].seq <= bg.edit.seq
      /\ current = manifestNumber
  BY <1>1, <1>2, ManifestIs DEF VersionInv, ThreadInv, Edits, MemoryTypes, LogInv
<1>6. bg.edit.log <= logfileNumber
  BY <1>1, <1>2, <1>5 DEF ThreadInv
<1>7. /\ \A v : EntriesOf(v)' = EntriesOf(v) /\ Imm' = Imm /\ Added' = Added /\ After' = After
      /\ \A v, next, seq : Readable(v, next, seq)' = Readable(v, next, seq)
      /\ Compacting' = Compacting
  BY <1>2, <1>3, <1>4 DEF EntriesOf, Imm, Added, After, Readable, Compacting
<1>8. damage' \in {"none", "tail", "spoiled"} /\ (damage # "none" => damage' # "none")
      /\ (damage = "none" => damage' = "none")
  BY <1>1 DEF WriteManifest, WriteBehind, WorkTypes
<1>9. WorkTypes'
  BY <1>1, <1>2, <1>4, <1>8 DEF WorkTypes
<1>10. /\ DiskTypes' /\ DiskInv' /\ OnDisk' = OnDisk /\ VersionInv'
       /\ E'[Len(E')].next <= bg.edit.next /\ E'[Len(E')].seq <= bg.edit.seq
       /\ bg.kind = "flush" /\ Compacting =>
            \A k \in Kept' : TablesOf(Ver(k)') \cap compaction.outputs = {}
  <2>1. CASE damage = "none"
    <3>1. manifests' = [manifests EXCEPT ![current] = [edits |-> Append(E, bg.edit), durable |-> n + 1]]
      <4>1. Len(Append(E, bg.edit)) = n + 1
        BY <1>5, AppendProperties
      <4>. QED
        BY <1>5, <2>1, <4>1 DEF WriteManifest, E
    <3>. PICK d : d = n + 1
      OBVIOUS
    <3>2. /\ DiskTypes' /\ DiskInv' /\ OnDisk' = OnDisk /\ Synced' = d
          /\ Len(E') = n + 1 /\ E'[n + 1] = bg.edit
          /\ \A k \in 1 .. n : E'[k] = E[k] /\ Ver(k)' = Ver(k)
          /\ \A k : k = n + 1 => Ver(k)' = Apply(Ver(n), bg.edit)
      <4>1. d \in {Synced, Len(E) + 1}
        OBVIOUS
      <4>2. manifests' = [manifests EXCEPT ![current] = [edits |-> Append(E, bg.edit), durable |-> d]]
        BY <3>1
      <4>. QED
        BY <1>1, <1>2, <2>1, <4>1, <4>2, EditAdded
    <3>3. /\ Kept' = {d} /\ Len(E') = d /\ E'[d] = bg.edit /\ Ver(d)' = Apply(Ver(n), bg.edit)
      BY <1>5, <3>2 DEF Kept
    <3>4. ~bgError => Ver(d)' = After'
      BY <1>1, <1>2, <1>7, <3>3 DEF VersionInv, After
    <3>5. VersionInv'
      <4>1. Ver(Len(E))' = Ver(d)'
        BY <3>3
      <4>2. Noted' = bg.edit.log
        BY <1>4 DEF Noted
      <4>3. \A k \in Kept' : E'[k].log <= logfileNumber'
        BY <1>3, <1>6, <3>3
      <4>. QED
        BY <1>2, <1>3, <1>4, <1>5, <1>8, <2>1, <3>2, <3>3, <3>4, <4>1, <4>2, <4>3 DEF VersionInv
    <3>6. ASSUME bg.kind = "flush", Compacting
          PROVE  TablesOf(Ver(d)') \cap compaction.outputs = {}
      <4>1. TablesOf(Ver(n)) \cap compaction.outputs = {} /\ TablesOf(Added) \cap compaction.outputs = {}
        BY <1>1, <1>2, <1>5, <3>6 DEF CompactionInv
      <4>2. TablesOf(Ver(d)') \subseteq TablesOf(Ver(n)) \cup TablesOf(Added)
        BY <3>3 DEF TablesOf, Apply, Added
      <4>. QED
        BY <4>1, <4>2
    <3>. QED
      BY <1>5, <3>2, <3>3, <3>5, <3>6
  <2>2. CASE damage # "none"
    <3>1. manifests' = [manifests EXCEPT ![current] = [edits |-> E, durable |-> Len(E)]]
      BY <1>5, <2>2 DEF WriteManifest, E
    <3>2. /\ DiskTypes' /\ DiskInv' /\ E' = E /\ OnDisk' = OnDisk
          /\ Kept' \subseteq Kept /\ \A k : Ver(k)' = Ver(k)
      BY <1>1, <1>2, <3>1, EditsSynced
    <3>3. bgError /\ bgError' /\ damage' # "none"
      BY <1>1, <1>2, <1>8, <2>2 DEF VersionInv
    <3>4. VersionInv'
      BY <1>1, <1>2, <1>3, <3>2, <3>3 DEF VersionInv
    <3>5. bg.kind = "flush" /\ Compacting =>
            \A k \in Kept' : TablesOf(Ver(k)') \cap compaction.outputs = {}
      BY <1>1, <3>2 DEF CompactionInv
    <3>. QED
      BY <1>5, <3>2, <3>4, <3>5
  <2>. QED
    BY <2>1, <2>2
<1>11. WorkInv'
  <2>1. ThreadInv'
    <3>1. /\ Readable(version, bg.edit.next, bg.edit.seq)' = Readable(version, bg.edit.next, bg.edit.seq)
          /\ Readable(Added, bg.edit.next, bg.edit.seq)' = Readable(Added, bg.edit.next, bg.edit.seq)
          /\ EntriesOf(version)' = EntriesOf(version) /\ EntriesOf(Added)' = EntriesOf(Added)
      BY <1>3, <1>4, <1>7
    <3>2. UNION {tables[m] : m \in bg.edit.deleted}' = UNION {tables[m] : m \in bg.edit.deleted}
      BY <1>2, <1>4
    <3>. QED
      BY <1>1, <1>2, <1>3, <1>4, <1>7, <1>10, <3>1, <3>2 DEF ThreadInv
  <2>2. CompactionInv'
    <3>1. EntriesOf(compaction.inputs)' = EntriesOf(compaction.inputs) /\ TablesOf(Added)' = TablesOf(Added)
      BY <1>2, <1>7
    <3>2. bg'.phase # "merge"
      BY <1>4
    <3>. QED
      BY <1>1, <1>2, <1>3, <1>4, <1>7, <1>10, <3>1, <3>2 DEF CompactionInv
  <2>. QED
    BY <2>1, <2>2 DEF WorkInv
<1>12. /\ Alike /\ bgError' \in BOOLEAN /\ scheduled' \in BOOLEAN /\ pendingOutputs' \subseteq Nat
       /\ errors' \in 0 .. MaxErrors /\ nextFile' \in Nat /\ nextFile' >= nextFile
  BY <1>1, <1>2, <1>3, <1>5 DEF Types, OtherTypes, Alike
<1>13. /\ ReaderInv'
       /\ \A m \in TablesOf(version) : m \in DOMAIN tables' /\ tables'[m] = tables[m]
  BY <1>2, <1>3, <1>4, FrameReaders
<1>. QED
  BY <1>2, <1>3, <1>9, <1>10, <1>11, <1>12, <1>13, FrameThread

\* The edit may be in the MANIFEST all the same, and the next failure of the
\* machine decides whether it stays.
LEMMA EditInDoubt ==
  ASSUME Inv, phase = "open", bg.phase = "manifest", damage = "none",
         manifests' = [manifests EXCEPT ![manifestNumber].edits = Append(@, bg.edit)],
         bgError' = TRUE, bg'.phase # "install",
         UNCHANGED <<memory, vset, logs, tables, current, synced, damage>>
  PROVE  /\ DiskTypes' /\ DiskInv' /\ OnDisk' = OnDisk /\ VersionInv'
         /\ bg.kind = "flush" /\ Compacting =>
              \A k \in Kept' : TablesOf(Ver(k)') \cap compaction.outputs = {}
<1>1. /\ Types /\ DiskTypes /\ MemoryTypes /\ DiskInv /\ OrderInv /\ ReadInv
      /\ VersionInv /\ LogInv /\ WorkInv /\ ThreadInv /\ CompactionInv
  BY DEF Inv, Types, OpenInv, WorkInv
<1>2. UNCHANGED <<logfileNumber, lastSequence, imm, version, logNumber, nextFile, manifestNumber>>
  BY DEF memory, vset
<1>. DEFINE n == Len(E)
<1>3. /\ n \in Nat /\ E \in Seq(Edits) /\ bg.edit \in Edits /\ n \in Kept /\ n \in 1 .. n
      /\ nextFile \in Nat /\ bg.edit.next \in Nat /\ bg.edit.log \in Nat
      /\ bg.edit.seq \in Nat /\ lastSequence \in Nat /\ Synced \in 1 .. n
      /\ logfileNumber \in Nat /\ logNumber <= logfileNumber /\ logNumber \in Nat
      /\ bg.edit.next <= nextFile /\ bg.edit.seq <= lastSequence
      /\ current = manifestNumber
  BY <1>1, ManifestIs DEF VersionInv, ThreadInv, Edits, MemoryTypes, LogInv
<1>4. bg.edit.log <= logfileNumber /\ logNumber <= bg.edit.log
  BY <1>1, <1>3 DEF ThreadInv
<1>5. manifests' = [manifests EXCEPT ![current] = [edits |-> Append(E, bg.edit), durable |-> Synced]]
  <2>1. manifests[current] = [edits |-> E, durable |-> Synced]
    BY <1>1 DEF DiskTypes, E, Synced
  <2>. PICK more : more = Append(E, bg.edit)
    OBVIOUS
  <2>2. manifests' = [manifests EXCEPT ![current].edits = more]
    BY <1>3 DEF E
  <2>3. [manifests[current] EXCEPT !.edits = more] = [edits |-> more, durable |-> Synced]
    <3>. PICK a : a = E
      OBVIOUS
    <3>. PICK b : b = Synced
      OBVIOUS
    <3>. PICK r : r = manifests[current]
      OBVIOUS
    <3>1. r = [edits |-> a, durable |-> b]
      BY <2>1
    <3>. PICK s : s = [edits |-> a, durable |-> b]
      OBVIOUS
    <3>2. [s EXCEPT !.edits = more] = [edits |-> more, durable |-> b]
      BY SMTT(30)
    <3>3. r = s
      BY <3>1
    <3>. QED
      BY <3>2, <3>3
  <2>4. manifests' = [manifests EXCEPT ![current] = [edits |-> more, durable |-> Synced]]
    BY <2>2, <2>3
  <2>. QED
    BY <2>4
<1>6. /\ DiskTypes' /\ DiskInv' /\ OnDisk' = OnDisk /\ Synced' = Synced
      /\ Len(E') = n + 1 /\ E'[n + 1] = bg.edit
      /\ \A k \in 1 .. n : E'[k] = E[k] /\ Ver(k)' = Ver(k)
      /\ \A k : k = n + 1 => Ver(k)' = Apply(Ver(n), bg.edit)
  <2>. PICK d : d = Synced
    OBVIOUS
  <2>1. /\ d \in {Synced, Len(E) + 1}
        /\ manifests' = [manifests EXCEPT ![current] = [edits |-> Append(E, bg.edit), durable |-> d]]
    BY <1>5
  <2>. QED
    BY <1>1, <2>1, EditAdded
<1>7. Kept' = Kept \cup {n + 1} /\ Kept \subseteq 1 .. n
  BY <1>3, <1>6 DEF Kept
<1>8. VersionInv'
  <2>1. Noted' = logNumber
    BY <1>2 DEF Noted
  <2>2. \A k \in Kept' : E'[k].log <= logfileNumber'
    BY <1>1, <1>2, <1>4, <1>6, <1>7 DEF VersionInv
  <2>. QED
    BY <1>2, <1>3, <1>4, <1>6, <2>1, <2>2 DEF VersionInv
<1>9. ASSUME bg.kind = "flush", Compacting, NEW k \in Kept'
      PROVE  TablesOf(Ver(k)') \cap compaction.outputs = {}
  <2>1. /\ \A j \in Kept : TablesOf(Ver(j)) \cap compaction.outputs = {}
        /\ TablesOf(Added) \cap compaction.outputs = {}
    BY <1>1, <1>9 DEF CompactionInv
  <2>2. CASE k \in Kept
    BY <1>6, <1>7, <2>1, <2>2
  <2>3. CASE k = n + 1
    <3>1. TablesOf(Ver(k)') \subseteq TablesOf(Ver(n)) \cup TablesOf(Added)
      BY <1>6, <2>3 DEF TablesOf, Apply, Added
    <3>. QED
      BY <1>3, <2>1, <3>1
  <2>. QED
    BY <1>7, <2>2, <2>3
<1>. QED
  BY <1>6, <1>8, <1>9

LEMMA ManifestFailsKeeps ==
  ASSUME Inv, phase = "open", ManifestFails
  PROVE  Inv'
<1>1. /\ Types /\ WorkTypes /\ MemoryTypes /\ CompactionInv
  BY DEF Inv, OpenInv, WorkInv, Types
<1>2. /\ bg.phase = "manifest" /\ FailWork
      /\ UNCHANGED <<callers, writers, memory, vset, reader, logs, tables, current, phase,
                     unreplayed, acknowledged, synced, crashes>>
  BY DEF ManifestFails
<1>3. UNCHANGED <<version, logNumber, manifestNumber, nextFile>>
  BY <1>2 DEF vset
<1>4. damage' \in {"none", "tail", "spoiled"} /\ (damage # "none" => damage' # "none")
  BY <1>1 DEF ManifestFails, WriteBehind, WorkTypes
<1>5. nextFile' \in Nat /\ nextFile' >= nextFile
  BY <1>1, <1>3 DEF MemoryTypes
<1>6. CASE UNCHANGED manifests
  <2>1. bg.kind = "flush" /\ Compacting =>
          \A k \in Kept' : TablesOf(Ver(k)') \cap compaction.outputs = {}
    <3>1. Kept' = Kept /\ \A k : Ver(k)' = Ver(k)
      BY <1>2, <1>6 DEF Kept, Synced, E, Ver
    <3>. QED
      BY <1>1, <3>1 DEF CompactionInv
  <2>2. /\ WorkTypes' /\ WorkInv' /\ Alike /\ bgError' /\ bgError' \in BOOLEAN
        /\ scheduled' \in BOOLEAN /\ pendingOutputs' \subseteq Nat /\ errors' \in 0 .. MaxErrors
        /\ bg'.phase \in {"none", "merge"} /\ compaction'.outputs \subseteq compaction.outputs
    BY <1>2, <1>3, <1>4, <2>1, WorkFailed
  <2>. QED
    BY <1>2, <1>3, <1>4, <1>5, <1>6, <2>2, FrameFiles
<1>7. CASE ~UNCHANGED manifests
  <2>1. /\ damage = "none" /\ damage' = damage
        /\ manifests' = [manifests EXCEPT ![manifestNumber].edits = Append(@, bg.edit)]
    BY <1>7 DEF ManifestFails
  <2>2. bgError' = TRUE /\ bg'.phase # "install"
    <3>1. bg' = Merging \/ bg' = NoWork
      BY <1>2 DEF FailWork, EndCompactMemTable, EndBackgroundCall
    <3>2. bg'.phase # "install"
      BY <3>1 DEF Merging, NoWork
    <3>. QED
      BY <1>2, <3>2 DEF FailWork
  <2>3. /\ DiskTypes' /\ DiskInv' /\ OnDisk' = OnDisk /\ VersionInv'
        /\ bg.kind = "flush" /\ Compacting =>
             \A k \in Kept' : TablesOf(Ver(k)') \cap compaction.outputs = {}
    BY <1>2, <2>1, <2>2, EditInDoubt
  <2>4. /\ WorkTypes' /\ WorkInv' /\ Alike /\ bgError' /\ bgError' \in BOOLEAN
        /\ scheduled' \in BOOLEAN /\ pendingOutputs' \subseteq Nat /\ errors' \in 0 .. MaxErrors
        /\ bg'.phase \in {"none", "merge"} /\ compaction'.outputs \subseteq compaction.outputs
    BY <1>2, <1>3, <1>4, <2>3, WorkFailed
  <2>5. /\ ReaderInv'
        /\ \A m \in TablesOf(version) : m \in DOMAIN tables' /\ tables'[m] = tables[m]
    BY <1>2, <1>3, <2>4, FrameReaders
  <2>. QED
    BY <1>2, <1>3, <1>5, <2>3, <2>4, <2>5, FrameThread
<1>. QED
  BY <1>6, <1>7

\* What is deleted with a version's installation is in no use.
LEMMA FilesKept ==
  ASSUME Inv, phase = "open", Installs, NEW p, NEW c,
         UNCHANGED <<logs, tables, manifests>>
           \/ (~bgError /\ DeleteObsoleteFiles(version', logNumber', p, c))
  PROVE  /\ DiskTypes' /\ DiskInv' /\ E' = E /\ Kept' = Kept /\ Synced' = Synced /\ OnDisk' = OnDisk
         /\ \A k : Ver(k)' = Ver(k)
         /\ DOMAIN logs' \subseteq DOMAIN logs /\ LogsFrom(bg.edit.log) \subseteq DOMAIN logs'
         /\ \A m \in LogsFrom(bg.edit.log) : In(m)' = In(m) /\ DurableIn(m)' = DurableIn(m)
         /\ \A m \in (Live(After, c) \cup p) \cap DOMAIN tables :
              m \in DOMAIN tables' /\ tables'[m] = tables[m]
<1>1. DiskTypes /\ DiskInv /\ VersionInv
  BY DEF Inv, OpenInv, Types
<1>2. /\ bg.phase = "install" /\ version' = After /\ logNumber' = bg.edit.log
      /\ UNCHANGED <<manifestNumber, bgError, current, damage, synced>>
  BY DEF Installs, After, history
<1>3. CASE UNCHANGED <<logs, tables, manifests>>
  <2>1. UNCHANGED disk
    BY <1>2, <1>3 DEF disk
  <2>2. DiskTypes' /\ DiskInv'
    BY <1>1, <1>2, <2>1, FrameDisk, FrameDiskTypes
  <2>3. LogsFrom(bg.edit.log) \subseteq DOMAIN logs'
    BY <1>3 DEF LogsFrom
  <2>. QED
    BY <1>3, <2>1, <2>2, <2>3, DiskSame
<1>4. CASE ~bgError /\ DeleteObsoleteFiles(version', logNumber', p, c)
  <2>. PICK v : v = Ver(Len(E))
    OBVIOUS
  <2>. PICK l : l = E[Len(E)].log
    OBVIOUS
  <2>1. /\ Synced = Len(E) /\ manifestNumber = current /\ version' = v /\ logNumber' = l
        /\ v = After /\ l = bg.edit.log
    BY <1>1, <1>2, <1>4 DEF VersionInv, Noted
  <2>2. DeleteObsoleteFiles(Ver(Len(E)), E[Len(E)].log, p, c)
    BY <1>4, <2>1
  <2>3. /\ DiskTypes' /\ DiskInv' /\ E' = E /\ Synced' = Synced /\ OnDisk' = OnDisk
        /\ \A k : Ver(k)' = Ver(k)
        /\ DOMAIN logs' = LogsFrom(E[Len(E)].log)
        /\ \A m \in LogsFrom(E[Len(E)].log) : In(m)' = In(m) /\ DurableIn(m)' = DurableIn(m)
        /\ \A m \in (Live(Ver(Len(E)), c) \cup p) \cap DOMAIN tables : m \in DOMAIN tables'
        /\ \A m \in DOMAIN tables' : tables'[m] = tables[m]
    BY <1>1, <1>2, <2>1, <2>2, FilesDeleted
  <2>4. /\ DOMAIN logs' = LogsFrom(l) /\ LogsFrom(l) \subseteq DOMAIN logs /\ Kept' = Kept
    BY <2>3 DEF LogsFrom, Kept
  <2>5. \A m \in (Live(After, c) \cup p) \cap DOMAIN tables :
          m \in DOMAIN tables' /\ tables'[m] = tables[m]
    BY <2>1, <2>3
  <2>6. \A m \in LogsFrom(bg.edit.log) : In(m)' = In(m) /\ DurableIn(m)' = DurableIn(m)
    BY <2>1, <2>3
  <2>. QED
    BY <2>1, <2>3, <2>4, <2>5, <2>6
<1>. QED
  BY <1>3, <1>4

\* The version that is installed has the entries of the memtable or no new ones.
LEMMA VersionInstalled ==
  ASSUME Inv, phase = "open", Installs,
         \A m \in TablesOf(After) \cap DOMAIN tables : m \in DOMAIN tables' /\ tables'[m] = tables[m]
  PROVE  /\ version' = After /\ After \in Versions
         /\ TablesOf(After) = (TablesOf(version) \ bg.edit.deleted) \cup TablesOf(Added)
         /\ EntriesOf(version)' = EntriesOf(version) \cup (IF bg.kind = "flush" THEN Imm ELSE {})
         /\ Readable(version, nextFile, lastSequence)'
<1>1. /\ DiskTypes /\ MemoryTypes /\ WorkTypes /\ ReadInv /\ ThreadInv
  BY DEF Inv, OpenInv, Types, WorkInv
<1>2. /\ bg.phase = "install" /\ version' = After /\ UNCHANGED <<nextFile, lastSequence>>
  BY DEF Installs, After
<1>3. /\ bg.edit \in Edits /\ bg.edit.next \in Nat /\ bg.edit.seq \in Nat
      /\ bg.edit.next <= nextFile /\ bg.edit.seq <= lastSequence
      /\ nextFile \in Nat /\ lastSequence \in Nat
      /\ Readable(version, bg.edit.next, bg.edit.seq)
      /\ Readable(Added, bg.edit.next, bg.edit.seq)
      /\ UNION {tables[n] : n \in bg.edit.deleted} \subseteq EntriesOf(Added)
  BY <1>1, <1>2 DEF ThreadInv, Edits, MemoryTypes
<1>4. After \in Versions
  BY <1>1, <1>3 DEF After, Apply, Versions, Edits, MemoryTypes
<1>5. /\ Readable(After, bg.edit.next, bg.edit.seq)
      /\ EntriesOf(After) = EntriesOf(version) \cup EntriesOf(Added)
      /\ TablesOf(After) = (TablesOf(version) \ bg.edit.deleted) \cup TablesOf(Added)
  <2>1. bg.edit.next <= bg.edit.next /\ bg.edit.seq <= bg.edit.seq
    BY <1>3
  <2>2. /\ Readable(Apply(version, bg.edit), bg.edit.next, bg.edit.seq)
        /\ EntriesOf(Apply(version, bg.edit)) = EntriesOf(version) \cup EntriesOf(Added)
        /\ TablesOf(Apply(version, bg.edit)) = (TablesOf(version) \ bg.edit.deleted) \cup TablesOf(Added)
    BY <1>1, <1>3, <2>1, ApplyIs
  <2>. QED
    BY <2>2 DEF After
<1>. PICK v : v = After
  OBVIOUS
<1>6. ASSUME NEW m \in TablesOf(v)
      PROVE  /\ m \in DOMAIN tables' /\ tables'[m] = tables[m]
             /\ m < nextFile /\ tables[m] # {} /\ \A e \in tables[m] : e.seq <= lastSequence
  <2>1. /\ m \in DOMAIN tables /\ m < bg.edit.next /\ tables[m] # {} /\ m \in Nat
        /\ \A e \in tables[m] : e.seq <= bg.edit.seq /\ e.seq \in Nat
    BY <1>1, <1>5 DEF Readable, DiskTypes, Entries
  <2>. QED
    BY <1>3, <2>1
<1>7. EntriesOf(version)' = EntriesOf(After)
  <2>1. {tables'[m] : m \in TablesOf(v)} = {tables[m] : m \in TablesOf(v)}
    BY <1>6
  <2>2. EntriesOf(version)' = UNION {tables'[m] : m \in TablesOf(v)}
    BY <1>2 DEF EntriesOf
  <2>. QED
    BY <2>1, <2>2 DEF EntriesOf
<1>8. EntriesOf(version)' = EntriesOf(version) \cup (IF bg.kind = "flush" THEN Imm ELSE {})
  BY <1>1, <1>2, <1>5, <1>7 DEF ThreadInv
<1>9. Readable(version, nextFile, lastSequence)'
  BY <1>2, <1>6 DEF Readable
<1>. QED
  BY <1>2, <1>4, <1>5, <1>8, <1>9

\* What the memtables, the logs and the version have, when a version is installed.
LEMMA InstallsKeeps ==
  ASSUME Inv, phase = "open", Installs, NEW p, NEW c,
         UNCHANGED <<logs, tables, manifests>>
           \/ (~bgError /\ DeleteObsoleteFiles(version', logNumber', p, c)),
         imm' = IF bg.kind = "flush" THEN {} ELSE imm,
         Alike, bg'.phase \in {"none", "merge"}, scheduled' \in BOOLEAN, pendingOutputs' \subseteq Nat,
         compaction'.outputs \subseteq compaction.outputs, WorkTypes', WorkInv'
  PROVE  Inv'
<1>1. /\ Types /\ DiskTypes /\ CallTypes /\ MemoryTypes /\ OrderInv /\ LogInv /\ ReadInv /\ VersionInv
      /\ QueueInv /\ FreshInv /\ ReaderInv /\ ThreadInv /\ unreplayed = {}
  BY DEF Inv, OpenInv, Types, WorkInv
<1>2. /\ UNCHANGED <<callers, writers, mem, logfileNumber, lastSequence, nextFile, manifestNumber,
                     bgError, reader, current, damage, phase, unreplayed, acknowledged, synced,
                     errors, crashes>>
      /\ UNCHANGED <<calls, kind, before, result>>
      /\ bg.phase = "install" /\ version' = After /\ logNumber' = bg.edit.log
  BY DEF Installs, After, history, callers
<1>3. /\ DiskTypes' /\ DiskInv' /\ E' = E /\ Kept' = Kept /\ Synced' = Synced /\ OnDisk' = OnDisk
      /\ \A k : Ver(k)' = Ver(k)
      /\ DOMAIN logs' \subseteq DOMAIN logs /\ LogsFrom(bg.edit.log) \subseteq DOMAIN logs'
      /\ \A m \in LogsFrom(bg.edit.log) : In(m)' = In(m) /\ DurableIn(m)' = DurableIn(m)
      /\ \A m \in (Live(After, c) \cup p) \cap DOMAIN tables :
           m \in DOMAIN tables' /\ tables'[m] = tables[m]
  BY FilesKept
<1>4. /\ After \in Versions
      /\ EntriesOf(version)' = EntriesOf(version) \cup (IF bg.kind = "flush" THEN Imm ELSE {})
      /\ Readable(version, nextFile, lastSequence)'
  <2>1. TablesOf(After) \subseteq Live(After, c)
    BY DEF Live
  <2>2. \A m \in TablesOf(After) \cap DOMAIN tables : m \in DOMAIN tables' /\ tables'[m] = tables[m]
    BY <1>3, <2>1
  <2>. QED
    BY <2>2, VersionInstalled
<1>. PICK l : l = bg.edit.log
  OBVIOUS
<1>5. /\ l \in Nat /\ l <= logfileNumber /\ logNumber' = l
      /\ l = (IF bg.kind = "flush" THEN logfileNumber ELSE logNumber)
      /\ {nextFile, lastSequence, logfileNumber, logNumber, manifestNumber} \subseteq Nat
  BY <1>1, <1>2 DEF ThreadInv, Edits, LogInv, MemoryTypes
<1>6. /\ LogsFrom(l)' = LogsFrom(l) /\ logfileNumber \in LogsFrom(l)
      /\ In(logfileNumber)' = In(logfileNumber) /\ DurableIn(logfileNumber)' = DurableIn(logfileNumber)
  <2>1. logfileNumber \in LogsFrom(l)
    BY <1>1, <1>5 DEF LogInv, LogsFrom
  <2>2. LogsFrom(l)' = LogsFrom(l)
    BY <1>3 DEF LogsFrom
  <2>3. PICK f : f = logfileNumber
    OBVIOUS
  <2>4. In(f)' = In(f) /\ DurableIn(f)' = DurableIn(f) /\ logfileNumber' = f
    BY <1>2, <1>3, <2>1, <2>3
  <2>. QED
    BY <2>1, <2>2, <2>3, <2>4
<1>7. Imm' = (IF bg.kind = "flush" THEN {} ELSE Imm)
  BY DEF Imm
<1>8. CallTypes' /\ MemoryTypes' /\ OtherTypes'
  <2>1. CallTypes'
    BY <1>1, <1>2, FrameCalls
  <2>2. MemoryTypes'
    <3>1. mem' \subseteq Entries /\ Imm' \subseteq Entries
      BY <1>1, <1>2, <1>7 DEF MemoryTypes
    <3>2. imm' \in {{}, {Imm'}}
      BY <1>1, <1>7 DEF MemoryTypes
    <3>3. version' \in Versions
      BY <1>2, <1>4
    <3>4. {logfileNumber', lastSequence', logNumber', nextFile', manifestNumber'} \subseteq Nat
      BY <1>2, <1>5
    <3>. QED
      BY <3>1, <3>2, <3>3, <3>4 DEF MemoryTypes, Imm
  <2>3. OtherTypes'
    BY <1>1, <1>2 DEF Types, OtherTypes
  <2>. QED
    BY <2>1, <2>2, <2>3
<1>9. OrderInv'
  BY <1>1, <1>2, <1>3 DEF OrderInv
<1>10. QueueInv' /\ FreshInv'
  BY <1>1, <1>2, <1>3, FrameQueue, FrameFresh
<1>11. LogInv'
  <2>1. logfileNumber \in DOMAIN logs' /\ \A m \in DOMAIN logs' : m <= logfileNumber
    BY <1>1, <1>3, <1>6 DEF LogInv
  <2>2. imm' = {} => l = logfileNumber
    BY <1>1, <1>5 DEF LogInv
  <2>3. Imm' = UNION {In(m)' : m \in LogsFrom(l) \ {logfileNumber}}
    <3>1. {In(m)' : m \in LogsFrom(l) \ {logfileNumber}} = {In(m) : m \in LogsFrom(l) \ {logfileNumber}}
      BY <1>3
    <3>2. CASE bg.kind = "flush"
      <4>1. l = logfileNumber /\ DOMAIN logs \subseteq Nat
        BY <1>1, <1>5, <3>2 DEF DiskTypes
      <4>2. LogsFrom(l) \ {logfileNumber} = {}
        BY <1>1, <1>5, <4>1 DEF LogsFrom, LogInv
      <4>. QED
        BY <1>7, <3>2, <4>2
    <3>3. CASE bg.kind # "flush"
      BY <1>1, <1>5, <1>7, <3>1, <3>3 DEF LogInv
    <3>. QED
      BY <3>2, <3>3
  <2>4. UNION {In(m) : m \in LogsFrom(logNumber) \ {logfileNumber}}'
          = UNION {In(m)' : m \in LogsFrom(l) \ {logfileNumber}}
    BY <1>2, <1>5, <1>6
  <2>. QED
    BY <1>1, <1>2, <1>5, <1>6, <2>1, <2>2, <2>3, <2>4, AlikeIs DEF LogInv
<1>12. ReadInv'
  <2>1. \A e \in Imm' : e.seq <= lastSequence
    BY <1>1, <1>7 DEF ReadInv
  <2>2. mem' \cup Imm' \cup EntriesOf(version)' = mem \cup Imm \cup EntriesOf(version)
    BY <1>2, <1>4, <1>7
  <2>. QED
    BY <1>1, <1>2, <1>4, <2>1, <2>2, AlikeIs DEF ReadInv
<1>13. VersionInv'
  <2>1. Noted' = Noted /\ bg'.phase # "install"
    BY <1>2 DEF Noted
  <2>2. /\ Ver(Len(E))' = Ver(Len(E)) /\ Len(E') = Len(E)
    BY <1>3
  <2>. QED
    BY <1>1, <1>2, <1>3, <2>1, <2>2 DEF VersionInv
<1>14. ReaderInv'
  <2>1. ASSUME reader # None
        PROVE  /\ TablesOf(reader.version) \subseteq Nat
               /\ \A m \in TablesOf(reader.version) : m \in DOMAIN tables' /\ tables'[m] = tables[m]
    <3>1. \A m \in TablesOf(reader.version) : m \in DOMAIN tables /\ m \in Live(After, c)
      BY <2>1, NumbersAre DEF Live
    <3>. QED
      BY <1>3, <2>1, <3>1, NumbersAre
  <2>2. /\ nextFile' \in Nat /\ nextFile' >= nextFile /\ bg'.phase # "build"
        /\ compaction'.outputs \subseteq compaction.outputs \cup {nextFile}
    BY <1>2, <1>5
  <2>. QED
    BY <1>1, <1>2, <2>1, <2>2, FrameReader
<1>. QED
  BY <1>1, <1>2, <1>3, <1>8, <1>9, <1>10, <1>11, <1>12, <1>13, <1>14 DEF Inv, Types, OpenInv

LEMMA InstallMemTableKeeps ==
  ASSUME Inv, phase = "open", InstallMemTable
  PROVE  Inv'
<1>1. /\ Types /\ WorkTypes /\ MemoryTypes /\ OtherTypes /\ WorkInv /\ ThreadInv /\ CompactionInv
  BY DEF Inv, OpenInv, Types, WorkInv
<1>2. /\ Installs /\ bg.phase = "install" /\ bg.kind = "flush" /\ imm' = {}
      /\ UNCHANGED <<compaction, pendingOutputs, nextFile, damage>>
      /\ EndCompactMemTable({}, version', bgError)
      /\ \/ UNCHANGED <<logs, tables, manifests>>
         \/ ~bgError /\ DeleteObsoleteFiles(version', logNumber', pendingOutputs, compaction.inputs)
  BY DEF InstallMemTable, Installs
<1>. PICK p : p = pendingOutputs
  OBVIOUS
<1>. PICK c : c = compaction.inputs
  OBVIOUS
<1>3. /\ Kept' = Kept /\ (\A k : Ver(k)' = Ver(k))
      /\ \A m \in (Live(After, c) \cup p) \cap DOMAIN tables :
           m \in DOMAIN tables' /\ tables'[m] = tables[m]
  BY <1>2, FilesKept
<1>4. /\ version' = After
      /\ TablesOf(After) = (TablesOf(version) \ bg.edit.deleted) \cup TablesOf(Added)
  <2>1. TablesOf(After) \subseteq Live(After, c)
    BY DEF Live
  <2>. QED
    BY <1>2, <1>3, <2>1, VersionInstalled
<1>5. /\ bg' = (IF Compacting THEN Merging ELSE NoWork) /\ Alike /\ scheduled' \in BOOLEAN
  BY <1>1, <1>2 DEF EndCompactMemTable, EndBackgroundCall, Schedulable, Alike, OtherTypes
<1>6. /\ bg'.phase = (IF Compacting THEN "merge" ELSE "none")
      /\ bg'.kind = (IF Compacting THEN "compact" ELSE "none") /\ bg'.number = 0 /\ bg'.edit = None
      /\ bg' = [phase |-> bg'.phase, kind |-> bg'.kind, number |-> bg'.number, edit |-> bg'.edit]
  BY <1>5 DEF Merging, NoWork
<1>7. WorkTypes'
  BY <1>1, <1>2, <1>6 DEF WorkTypes
<1>8. Compacting' = Compacting
  BY <1>2 DEF Compacting
<1>9. ThreadInv'
  BY <1>5, <1>6, <1>8 DEF ThreadInv
<1>10. CompactionInv'
  <2>. SUFFICES ASSUME Compacting PROVE CompactionInv'
    BY <1>8 DEF CompactionInv
  <2>. USE DEF CompactionInv
  <2>1. bg.edit.deleted = {} /\ TablesOf(Added) \cap compaction.outputs = {}
    BY <1>1, <1>2 DEF ThreadInv
  <2>2. /\ TablesOf(compaction.inputs) \subseteq TablesOf(version)'
        /\ \A n \in compaction.outputs : n \notin TablesOf(version)'
    BY <1>1, <1>4, <2>1
  <2>3. \A m \in compaction.outputs : m \in DOMAIN tables' /\ tables'[m] = tables[m]
    BY <1>1, <1>3
  <2>4. \A m \in TablesOf(compaction.inputs) : m \in DOMAIN tables' /\ tables'[m] = tables[m]
    <3>1. TablesOf(compaction.inputs) \subseteq Live(After, c) \cap DOMAIN tables
      BY <1>1, NumbersAre DEF Live
    <3>. QED
      BY <1>3, <3>1
  <2>5. EntriesOf(compaction.inputs)' = EntriesOf(compaction.inputs)
    BY <1>2, <2>4 DEF EntriesOf
  <2>6. UNION {tables'[m] : m \in compaction.outputs \ {compaction.open}}
          = UNION {tables[m] : m \in compaction.outputs \ {compaction.open}}
    BY <2>3
  <2>7. \A k \in Kept' : TablesOf(Ver(k)') \cap compaction.outputs = {}
    BY <1>1, <1>2, <1>3
  <2>. QED
    BY <1>1, <1>2, <1>6, <2>2, <2>3, <2>5, <2>6, <2>7
<1>11. pendingOutputs' \subseteq Nat /\ bg'.phase \in {"none", "merge"}
  BY <1>1, <1>2, <1>6 DEF OtherTypes
<1>12. WorkInv'
  BY <1>9, <1>10 DEF WorkInv
<1>. QED
  BY <1>2, <1>5, <1>7, <1>11, <1>12, InstallsKeeps

LEMMA InstallCompactionKeeps ==
  ASSUME Inv, phase = "open", InstallCompaction
  PROVE  Inv'
<1>1. /\ Types /\ WorkTypes /\ OtherTypes
  BY DEF Inv, Types
<1>2. /\ Installs /\ bg.phase = "install" /\ bg.kind # "flush" /\ imm' = imm
      /\ compaction' = NoCompaction /\ pendingOutputs' = pendingOutputs \ compaction.outputs
      /\ UNCHANGED damage
      /\ EndBackgroundCall(imm, version', bgError)
      /\ \/ UNCHANGED <<logs, tables, manifests>>
         \/ ~bgError /\ DeleteObsoleteFiles(version', logNumber', pendingOutputs', NoTables)
  BY DEF InstallCompaction, Installs
<1>3. /\ bg' = NoWork /\ Alike /\ scheduled' \in BOOLEAN
  BY <1>2 DEF EndBackgroundCall, Schedulable, Alike
<1>4. /\ bg'.phase = "none" /\ bg'.kind = "none" /\ bg'.number = 0 /\ bg'.edit = None
      /\ bg' = [phase |-> bg'.phase, kind |-> bg'.kind, number |-> bg'.number, edit |-> bg'.edit]
  BY <1>3 DEF NoWork
<1>5. /\ compaction'.inputs = NoTables /\ compaction'.merged = {} /\ compaction'.outputs = {}
      /\ compaction'.open = 0
      /\ compaction' = [inputs |-> compaction'.inputs, merged |-> compaction'.merged,
                        outputs |-> compaction'.outputs, open |-> compaction'.open]
  BY <1>2 DEF NoCompaction
<1>6. WorkTypes'
  BY <1>1, <1>2, <1>4, <1>5 DEF WorkTypes, Versions, NoTables
<1>7. ~Compacting'
  BY <1>2 DEF Compacting
<1>8. WorkInv'
  BY <1>3, <1>4, <1>7 DEF WorkInv, ThreadInv, CompactionInv
<1>9. pendingOutputs' \subseteq Nat /\ bg'.phase \in {"none", "merge"}
      /\ compaction'.outputs \subseteq compaction.outputs
  BY <1>1, <1>2, <1>4, <1>5 DEF OtherTypes
<1>. PICK p : p = pendingOutputs'
  OBVIOUS
<1>10. \/ UNCHANGED <<logs, tables, manifests>>
       \/ ~bgError /\ DeleteObsoleteFiles(version', logNumber', p, NoTables)
  BY <1>2
<1>. QED
  BY <1>2, <1>3, <1>6, <1>8, <1>9, <1>10, InstallsKeeps

-----------------------------------------------------------------------------
(***************************************************************************)
(* Readers, and calls that return.                                         *)
(***************************************************************************)

\* A step of a reader, or the return of a flush.
LEMMA FrameReads ==
  ASSUME Inv, phase = "open",
         UNCHANGED <<calls, kind, before, writers, leader, memory, vset, bgVars, disk, history>>,
         result' \in [Ids -> {"none", "pending", "waiting", "ok", "error", "lost"}],
         ReaderInv'
  PROVE  Inv'
<1>1. /\ Types /\ OpenInv /\ DiskInv /\ OrderInv /\ unreplayed = {}
  BY DEF Inv
<1>2. UNCHANGED <<logfileNumber, lastSequence, mem, imm, version, logNumber, nextFile,
                  manifestNumber, scheduled, bg, compaction, bgError, pendingOutputs, logs, tables,
                  manifests, current, damage, phase, unreplayed, acknowledged, synced, errors, crashes>>
  BY DEF memory, vset, bgVars, disk, history
<1>3. /\ nextFile' \in Nat /\ nextFile' >= nextFile
      /\ lastSequence' \in Nat /\ lastSequence' >= lastSequence
  BY <1>1, <1>2 DEF Types, MemoryTypes
<1>4. DiskTypes' /\ CallTypes' /\ MemoryTypes' /\ WorkTypes'
  BY <1>1, <1>2, FrameDiskTypes, FrameCalls, FrameMemoryTypes, FrameWorkTypes DEF Types, Alike
<1>5. OtherTypes'
  BY <1>1, <1>2 DEF Types, OtherTypes
<1>6. DiskInv' /\ OrderInv' /\ OnDisk' = OnDisk
  BY <1>1, <1>2, FrameDisk, FrameOrder, DiskSame
<1>7. QueueInv' /\ FreshInv'
  BY <1>1, <1>2, <1>6, FrameQueue, FrameFresh DEF Types, OpenInv, Alike
<1>8. LogInv' /\ ReadInv'
  <2>1. \A n \in TablesOf(version) : n \in DOMAIN tables' /\ tables'[n] = tables[n]
    BY <1>1, <1>2 DEF OpenInv, ReadInv, Readable
  <2>. QED
    BY <1>1, <1>2, <1>3, <2>1, FrameLog, FrameRead DEF Types, OpenInv, Alike
<1>9. VersionInv' /\ WorkInv'
  <2>1. E[Len(E)].next \in Nat /\ E[Len(E)].seq <= lastSequence'
    BY <1>1, <1>2, ManifestIs DEF Types, OpenInv, VersionInv
  <2>2. VersionInv'
    BY <1>1, <1>2, <1>3, <2>1, FrameVersion DEF Types, OpenInv
  <2>. QED
    BY <1>1, <1>2, <1>3, <2>2, FrameWork DEF Types, OpenInv
<1>. QED
  BY <1>1, <1>2, <1>4, <1>5, <1>6, <1>7, <1>8, <1>9 DEF Inv, Types, OpenInv

\* What a reader will find is what was acknowledged.
LEMMA GetKeeps ==
  ASSUME Inv, Get
  PROVE  Inv'
<1>1. phase = "open" /\ Types /\ OpenInv
  BY DEF Inv, Get, Running
<1>2. /\ UNCHANGED <<callers, calls, kind, before, result, writers, leader, memory, vset, bgVars, disk, history>>
      /\ UNCHANGED <<version, nextFile, bg, compaction, tables>>
  BY DEF Get, callers, vset, bgVars, disk
<1>3. reader' = [seq |-> lastSequence, version |-> version, held |-> mem \cup Imm,
                 expected |-> acknowledged]
  BY DEF Get, Imm
<1>4. /\ reader'.seq = lastSequence /\ reader'.version = version
      /\ reader'.held = mem \cup Imm /\ reader'.expected = acknowledged
  BY <1>3
<1>5. \A n \in TablesOf(version) : n \in DOMAIN tables /\ n < nextFile
  BY <1>1 DEF OpenInv, ReadInv, Readable
<1>6. /\ bg.phase = "build" => bg.number \notin TablesOf(version)
      /\ TablesOf(version) \cap compaction.outputs = {}
  BY <1>1 DEF OpenInv, WorkInv, ThreadInv, CompactionInv, Compacting, NoCompaction
<1>7. {e \in reader'.held \cup EntriesOf(version) : e.seq <= reader'.seq} = acknowledged
  BY <1>1, <1>4 DEF OpenInv, ReadInv
<1>8. EntriesOf(reader.version)' = EntriesOf(version)
  BY <1>2, <1>4 DEF EntriesOf
<1>9. ReaderInv'
  BY <1>2, <1>4, <1>5, <1>6, <1>7, <1>8 DEF ReaderInv
<1>10. result' \in [Ids -> {"none", "pending", "waiting", "ok", "error", "lost"}]
  BY <1>1, <1>2 DEF Types, OtherTypes
<1>. QED
  BY <1>1, <1>2, <1>9, <1>10, FrameReads

LEMMA GetEndsKeeps ==
  ASSUME Inv, GetEnds
  PROVE  Inv'
<1>1. phase = "open" /\ Types
  BY DEF Inv, GetEnds, Lost
<1>2. UNCHANGED <<callers, calls, kind, before, result, writers, leader, memory, vset, bgVars, disk, history>>
  BY DEF GetEnds, callers
<1>3. ReaderInv'
  BY DEF GetEnds, ReaderInv
<1>4. result' \in [Ids -> {"none", "pending", "waiting", "ok", "error", "lost"}]
  BY <1>1, <1>2 DEF Types, OtherTypes
<1>. QED
  BY <1>1, <1>2, <1>3, <1>4, FrameReads

\* What the steps of DB::Open leave alone.
LEMMA FrameOpening ==
  ASSUME UNCHANGED <<writers, leader, memory, vset, bgVars, reader, disk, phase, unreplayed>>
  PROVE  /\ Lost => Lost'
         /\ Replayed => Replayed'
         /\ Opening => Opening'
<1>1. UNCHANGED <<logfileNumber, lastSequence, mem, imm, version, logNumber, nextFile,
                  manifestNumber, scheduled, bg, compaction, bgError, pendingOutputs, logs, tables,
                  manifests, current, damage>>
  BY DEF memory, vset, bgVars, disk
<1>2. /\ E' = E /\ \A k : Ver(k)' = Ver(k) 
      /\ \A n : In(n)' = In(n) /\ \A l : LogsFrom(l)' = LogsFrom(l)
      /\ \A v : EntriesOf(v)' = EntriesOf(v)
  BY <1>1, DiskSame DEF EntriesOf
<1>3. Lost => Lost'
  BY <1>1 DEF Lost
<1>4. Opening => Opening'
  <2>. PICK f : f = logfileNumber
    OBVIOUS
  <2>1. In(f)' = In(f) /\ logfileNumber' = f
    BY <1>1, <1>2
  <2>. QED
    BY <1>1, <1>2, <2>1 DEF Opening
<1>5. Replayed => Replayed'
  <2>. PICK n : n = Len(E)
    OBVIOUS
  <2>. PICK l : l = E[n].log
    OBVIOUS
  <2>1. /\ Len(E') = n /\ E'[n].log = l /\ E'[n].next = E[n].next
        /\ Ver(n)' = Ver(n) /\ LogsFrom(l)' = LogsFrom(l)
    BY <1>2
  <2>2. {In(m)' : m \in LogsFrom(l) \ unreplayed} = {In(m) : m \in LogsFrom(l) \ unreplayed}
    BY <1>2
  <2>3. EntriesOf(version)' = EntriesOf(version) /\ EntriesOf(Ver(n))' = EntriesOf(Ver(n))
    BY <1>1, <1>2, <2>1 DEF EntriesOf
  <2>4. Readable(version, nextFile, lastSequence)' <=> Readable(version, nextFile, lastSequence)
    BY <1>1 DEF Readable
  <2>. QED
    BY <1>1, <2>1, <2>2, <2>3, <2>4 DEF Replayed
<1>. QED
  BY <1>3, <1>4, <1>5

LEMMA FrameResult ==
  ASSUME Inv,
         UNCHANGED <<calls, kind, before, writers, leader, memory, vset, bgVars, reader, disk, history>>,
         result' \in [Ids -> {"none", "pending", "waiting", "ok", "error", "lost"}]
  PROVE  Inv'
<1>1. /\ UNCHANGED <<calls, kind, before, writers, phase, unreplayed, acknowledged, synced, errors, crashes>>
      /\ Types /\ DiskInv /\ OrderInv
  BY DEF history, Inv
<1>2. result' \in [Ids -> {"none", "pending", "waiting", "ok", "error", "lost"}]
  OBVIOUS
<1>3. CASE phase = "open"
  <2>1. UNCHANGED <<tables, bg, compaction, nextFile>> /\ ReaderInv
    BY <1>1, <1>3 DEF disk, bgVars, vset, Inv, OpenInv
  <2>2. ReaderInv'
    BY <1>1, <2>1, FrameReaderAll
  <2>. QED
    BY <1>1, <1>2, <1>3, <2>2, FrameReads
<1>4. CASE phase # "open"
  <2>1. DiskTypes' /\ CallTypes' /\ MemoryTypes' /\ WorkTypes'
    BY <1>1, FrameDiskTypes, FrameCalls, FrameMemoryTypes, FrameWorkTypes
       DEF Types, Alike, bgVars, disk
  <2>2. OtherTypes'
    BY <1>1, <1>2 DEF Types, OtherTypes, bgVars
  <2>3. DiskInv' /\ OrderInv'
    BY <1>1, FrameDisk, FrameOrder
  <2>4. /\ Lost => Lost'
        /\ Replayed => Replayed'
        /\ Opening => Opening'
    <3>1. UNCHANGED <<writers, leader, memory, vset, bgVars, reader, disk, phase, unreplayed>>
      BY <1>1
    <3>. QED
      BY <3>1, FrameOpening
  <2>. QED
    BY <1>1, <1>4, <2>1, <2>2, <2>3, <2>4 DEF Inv, Types
<1>. QED
  BY <1>3, <1>4

LEMMA FlushReturnsKeeps ==
  ASSUME Inv, NEW i \in Ids, FlushReturns(i)
  PROVE  Inv'
<1>1. UNCHANGED <<calls, kind, before, writers, leader, memory, vset, bgVars, reader, disk, history>>
  BY DEF FlushReturns
<1>2. result' \in [Ids -> {"none", "pending", "waiting", "ok", "error", "lost"}]
  <2>1. result \in [Ids -> {"none", "pending", "waiting", "ok", "error", "lost"}]
    BY DEF Inv, Types, OtherTypes
  <2>. QED
    BY <2>1 DEF FlushReturns
<1>. QED
  BY <1>1, <1>2, FrameResult

LEMMA StutterKeeps ==
  ASSUME Inv, UNCHANGED vars
  PROVE  Inv'
<1>1. UNCHANGED <<calls, kind, before, result, writers, leader, memory, vset, bgVars, reader, disk, history>>
  BY DEF vars, callers
<1>2. result' \in [Ids -> {"none", "pending", "waiting", "ok", "error", "lost"}]
  BY <1>1 DEF Inv, Types, OtherTypes
<1>. QED
  BY <1>1, <1>2, FrameResult

-----------------------------------------------------------------------------
(***************************************************************************)
(* Failures of the process and of the machine.                             *)
(***************************************************************************)

LEMMA UnionOfBoth ==
  ASSUME NEW A, NEW B
  PROVE  UNION (A \cup B) = (UNION A) \cup (UNION B)
OBVIOUS

\* What recovery would find is what the proofs call on disk.
LEMMA RecoverableIs ==
  DiskTypes /\ DiskInv => Recoverable = OnDisk
<1>. SUFFICES ASSUME DiskTypes, DiskInv PROVE Recoverable = OnDisk
  OBVIOUS
<1>. PICK n : n = Len(E)
  OBVIOUS
<1>1. /\ n \in Kept /\ Ver(n) = VersionOf(E) /\ E[n] = Last(E) /\ OnDisk = All(n)
  BY ManifestIs DEF OnDisk
<1>. PICK v : v = VersionOf(E)
  OBVIOUS
<1>. PICK l : l = Last(E).log
  OBVIOUS
<1>2. TablesOf(v) \cap DOMAIN tables = TablesOf(v)
  BY <1>1 DEF DiskInv, Readable
<1>3. ASSUME NEW m \in DOMAIN logs
      PROVE  UNION Range(SubSeq(logs[m].records, 1, AllRecords[m])) = In(m)
  <2>1. logs[m].records \in Seq(SUBSET Entries)
    BY DEF DiskTypes
  <2>2. SubSeq(logs[m].records, 1, Len(logs[m].records)) = logs[m].records
    BY <2>1, WholePrefix
  <2>. QED
    BY <2>2 DEF AllRecords, In, EntriesIn
<1>4. LogsOf(E) = LogsFrom(l) /\ LogsFrom(l) \subseteq DOMAIN logs
  BY DEF LogsOf, LogsFrom
<1>5. {UNION Range(SubSeq(logs[m].records, 1, AllRecords[m])) : m \in LogsOf(E)}
        = {In(m) : m \in LogsFrom(l)}
  BY <1>3, <1>4
<1>6. Recoverable = UNION ({tables[m] : m \in TablesOf(v)} \cup {In(m) : m \in LogsFrom(l)})
  BY <1>2, <1>5 DEF Recoverable, Survivors, E
<1>7. UNION ({tables[m] : m \in TablesOf(v)} \cup {In(m) : m \in LogsFrom(l)})
        = (UNION {tables[m] : m \in TablesOf(v)}) \cup (UNION {In(m) : m \in LogsFrom(l)})
  BY UnionOfBoth
<1>8. All(n) = EntriesOf(v) \cup (UNION {In(m) : m \in LogsFrom(l)})
  BY <1>1 DEF All
<1>. QED
  BY <1>1, <1>6, <1>7, <1>8 DEF EntriesOf

\* Nothing is in memory, and the disk has what it must.
LEMMA LoseKeeps ==
  ASSUME Inv, Lose, UNCHANGED synced, damage' \in {"none", "tail", "spoiled"},
         DiskTypes', DiskInv', OnDisk' \subseteq OnDisk,
         acknowledged' \subseteq acknowledged, synced \subseteq acknowledged',
         acknowledged' \subseteq OnDisk'
  PROVE  Inv'
<1>1. Types /\ DiskInv /\ OrderInv
  BY DEF Inv
<1>2. /\ phase' = "closed" /\ unreplayed' = {}
      /\ writers' = <<>> /\ leader' = Idle /\ reader' = None
      /\ mem' = {} /\ imm' = {} /\ logfileNumber' = 0 /\ lastSequence' = 0
      /\ version' = NoTables /\ logNumber' = 0 /\ nextFile' = 0 /\ manifestNumber' = 0
      /\ bg' = NoWork /\ compaction' = NoCompaction /\ pendingOutputs' = {}
      /\ crashes < MaxCrashes /\ crashes' = crashes + 1
      /\ UNCHANGED <<calls, kind, before, errors>>
  BY DEF Lose
<1>3. scheduled' = FALSE /\ bgError' = FALSE
  BY DEF Lose
<1>4. CallTypes'
  <2>1. leader' = [phase |-> "none", force |-> FALSE, group |-> <<>>, taken |-> 0, ok |-> TRUE]
    BY <1>2 DEF Idle
  <2>2. /\ leader'.phase = "none" /\ leader'.group = <<>> /\ leader'.taken = 0
        /\ leader' = [phase |-> leader'.phase, force |-> leader'.force, group |-> leader'.group,
                      taken |-> leader'.taken, ok |-> leader'.ok]
    BY <2>1
  <2>3. writers' \in Seq(Ids) /\ leader'.group \in Seq(Entries) /\ Len(writers') = 0
    BY <1>2, <2>2
  <2>. QED
    BY <1>1, <1>2, <2>2, <2>3 DEF Types, CallTypes
<1>5. MemoryTypes'
  <2>1. Imm' = {}
    BY <1>2 DEF Imm
  <2>2. version' \in Versions
    BY <1>2 DEF NoTables, Versions
  <2>. QED
    BY <1>2, <2>1, <2>2 DEF MemoryTypes
<1>6. WorkTypes'
  <2>1. bg' = [phase |-> "none", kind |-> "none", number |-> 0, edit |-> None]
    BY <1>2 DEF NoWork
  <2>2. /\ bg'.phase = "none" /\ bg'.kind = "none" /\ bg'.number = 0 /\ bg'.edit = None
        /\ bg' = [phase |-> bg'.phase, kind |-> bg'.kind, number |-> bg'.number, edit |-> bg'.edit]
    BY <2>1
  <2>3. /\ compaction'.inputs = NoTables /\ compaction'.merged = {} /\ compaction'.outputs = {}
        /\ compaction'.open = 0
        /\ compaction' = [inputs |-> compaction'.inputs, merged |-> compaction'.merged,
                          outputs |-> compaction'.outputs, open |-> compaction'.open]
    BY <1>2 DEF NoCompaction
  <2>. QED
    BY <2>2, <2>3 DEF WorkTypes, Versions, NoTables
<1>7. OtherTypes'
  <2>1. result' \in [Ids -> {"none", "pending", "waiting", "ok", "error", "lost"}]
    <3>1. result \in [Ids -> {"none", "pending", "waiting", "ok", "error", "lost"}]
      BY <1>1 DEF Types, OtherTypes
    <3>. QED
      BY <3>1 DEF Lose
  <2>2. crashes' \in 0 .. MaxCrashes
    BY <1>1, <1>2, BoundsAssumption DEF Types, OtherTypes
  <2>. QED
    BY <1>1, <1>2, <1>3, <2>1, <2>2 DEF Types, OtherTypes
<1>8. OrderInv'
  BY <1>1, <1>2 DEF OrderInv
<1>9. Lost'
  BY <1>2, <1>3 DEF Lost
<1>. QED
  BY <1>2, <1>4, <1>5, <1>6, <1>7, <1>8, <1>9 DEF Inv, Types

LEMMA ProcessFailsKeeps ==
  ASSUME Inv, ProcessFails
  PROVE  Inv'
<1>1. Lose /\ UNCHANGED <<disk, acknowledged, synced>> /\ Types /\ DiskInv /\ OrderInv
  BY DEF ProcessFails, Inv
<1>2. DiskTypes' /\ DiskInv' /\ OnDisk' = OnDisk
  BY <1>1, FrameDisk, FrameDiskTypes, DiskSame DEF Types
<1>3. synced \subseteq acknowledged /\ acknowledged \subseteq OnDisk
  BY <1>1 DEF OrderInv
<1>4. damage' \in {"none", "tail", "spoiled"}
  BY <1>1 DEF Types, WorkTypes, disk
<1>. QED
  BY <1>1, <1>2, <1>3, <1>4, LoseKeeps

\* The machine loses no more than what was not synced.
LEMMA MachineLeaves ==
  ASSUME Inv, MachineFails
  PROVE  /\ DiskTypes' /\ DiskInv' /\ OnDisk' \subseteq OnDisk /\ synced \subseteq OnDisk'
         /\ acknowledged' = acknowledged \cap OnDisk'
<1>1. Types /\ DiskTypes /\ DiskInv
  BY DEF Inv, Types
<1>2. /\ UNCHANGED <<tables, current, synced>>
      /\ acknowledged' = acknowledged \cap Recoverable'
  BY DEF MachineFails
<1>3. PICK cut \in [DOMAIN logs -> 0 .. MaxWrites] :
        /\ \A n \in DOMAIN logs : cut[n] \in logs[n].durable .. AllRecords[n]
        /\ logs' = [n \in DOMAIN logs |->
                      [records |-> SubSeq(logs[n].records, 1, cut[n]), durable |-> cut[n]]]
  BY DEF MachineFails
<1>4. PICK k \in Kept :
        manifests' = [manifests EXCEPT ![current] = [edits |-> SubSeq(E, 1, k), durable |-> k]]
  BY DEF MachineFails, Kept, E, Synced
<1>5. DiskTypes' /\ DiskInv' /\ OnDisk' \subseteq OnDisk /\ synced \subseteq OnDisk'
  BY <1>1, <1>2, <1>3, <1>4, FilesCut
<1>6. (DiskTypes /\ DiskInv => Recoverable = OnDisk)'
  BY RecoverableIs, PTL
<1>. QED
  BY <1>2, <1>5, <1>6

LEMMA MachineFailsKeeps ==
  ASSUME Inv, MachineFails
  PROVE  Inv'
<1>1. Lose /\ UNCHANGED synced
  BY DEF MachineFails
<1>2. synced \subseteq acknowledged
  BY DEF Inv, OrderInv
<1>3. damage' \in {"none", "tail", "spoiled"}
  BY DEF MachineFails, Inv, Types, WorkTypes
<1>. QED
  BY <1>1, <1>2, <1>3, MachineLeaves, LoseKeeps

-----------------------------------------------------------------------------
(***************************************************************************)
(* DB::Open.                                                               *)
(***************************************************************************)

\* Before it is done nobody calls, and nothing is acknowledged.
LEMMA FrameOpen ==
  ASSUME Inv, phase # "open",
         UNCHANGED <<callers, writers, leader, mem, imm, bgVars, reader, errors, crashes>>,
         damage' \in {damage, "none"},
         phase' \in {"open", "closed", "replaying", "logged", "described", "current"}
  PROVE  CallTypes' /\ WorkTypes' /\ OtherTypes' /\ Lost'
<1>1. Types /\ Lost
  BY DEF Inv
<1>2. UNCHANGED <<calls, kind, before, result, scheduled, bg, compaction, bgError, pendingOutputs>>
  BY DEF callers, bgVars
<1>3. CallTypes' /\ WorkTypes'
  <2>1. CallTypes'
    BY <1>1, <1>2, FrameCalls DEF Types, Alike
  <2>2. WorkTypes'
    BY <1>1, <1>2 DEF Types, WorkTypes
  <2>. QED
    BY <2>1, <2>2
<1>4. OtherTypes'
  BY <1>1, <1>2 DEF Types, OtherTypes
<1>5. Lost'
  BY <1>1, <1>2 DEF Lost
<1>. QED
  BY <1>3, <1>4, <1>5

LEMMA RecoverKeeps ==
  ASSUME Inv, Recover
  PROVE  Inv'
<1>1. /\ Types /\ DiskInv /\ OrderInv /\ phase # "open"
  BY DEF Inv, Recover
<1>. PICK n : n = Len(E)
  OBVIOUS
<1>2. /\ E[n] \in Edits /\ E[n].log \in Nat /\ E[n].next \in Nat /\ E[n].seq \in Nat
      /\ Ver(n) \in Versions /\ Ver(n) = VersionOf(E) /\ E[n] = Last(E) /\ n \in Kept
      /\ n \in 0 .. Len(E)
  BY <1>1, ManifestIs DEF Types
<1>. PICK l : l = E[n].log
  OBVIOUS
<1>3. /\ version' = Ver(n) /\ manifestNumber' = E[n].next /\ nextFile' = E[n].next + 1
      /\ lastSequence' = E[n].seq /\ phase' = "replaying"
      /\ unreplayed' = LogsFrom(l)
      /\ UNCHANGED <<callers, writers, leader, mem, imm, logfileNumber, logNumber, bgVars,
                     reader, disk, acknowledged, synced, errors, crashes>>
  BY <1>2 DEF Recover, E, LogsOf, LogsFrom
<1>4. UNCHANGED <<logs, tables, manifests, current, damage, calls, kind>>
  BY <1>3 DEF disk, callers
<1>5. CallTypes' /\ WorkTypes' /\ OtherTypes' /\ Lost'
  BY <1>1, <1>3, <1>4, FrameOpen
<1>6. DiskTypes' /\ DiskInv' /\ OrderInv'
  BY <1>1, <1>3, <1>4, FrameDisk, FrameDiskTypes, FrameOrder DEF Types
<1>7. MemoryTypes'
  <2>1. Imm' = Imm
    BY <1>3 DEF Imm
  <2>. QED
    BY <1>1, <1>2, <1>3, <2>1 DEF Types, MemoryTypes
<1>8. /\ Len(E') = n /\ E'[n] = E[n] /\ Ver(n)' = Ver(n)
      /\ \A m : In(m)' = In(m)
      /\ LogsFrom(l)' = LogsFrom(l)
  BY <1>3, DiskSame
<1>9. Replayed'
  <2>1. Readable(version, nextFile, lastSequence)'
    <3>1. Readable(Ver(n), E[n].next, E[n].seq)
      BY <1>1, <1>2 DEF DiskInv
    <3>2. \A m \in TablesOf(Ver(n)) : m < E[n].next + 1
      BY <1>1, <1>2, <3>1 DEF Readable, Types, DiskTypes
    <3>. QED
      BY <1>3, <1>4, <3>1, <3>2 DEF Readable
  <2>2. EntriesOf(version)' = EntriesOf(Ver(n))'
    BY <1>3, <1>8 DEF EntriesOf
  <2>3. LogsFrom(l)' \ unreplayed' = {}
    BY <1>3, <1>8
  <2>4. UNION {In(m)' : m \in LogsFrom(l)' \ unreplayed'} = {}
    BY <2>3
  <2>5. manifestNumber' < nextFile' /\ E[n].next <= nextFile'
    BY <1>2, <1>3
  <2>. QED
    BY <1>3, <1>8, <2>1, <2>2, <2>3, <2>4, <2>5 DEF Replayed
<1>10. Opening'
  BY <1>3, <1>8 DEF Opening
<1>. QED
  BY <1>3, <1>5, <1>6, <1>7, <1>9, <1>10 DEF Inv, Types

\* What a log has goes into a table with a number no edit knows.
LEMMA ReplayLogKeeps ==
  ASSUME Inv, ReplayLog
  PROVE  Inv'
<1>1. PICK f \in unreplayed : Replay(f)
  BY DEF ReplayLog
<1>2. /\ Types /\ DiskInv /\ OrderInv /\ phase \notin {"open", "closed"} /\ Replayed /\ Opening
      /\ phase = "replaying"
  BY <1>1 DEF Inv, Replayed
<1>. PICK n : n = Len(E)
  OBVIOUS
<1>3. /\ E[n].log \in Nat /\ E[n].next \in Nat /\ n \in Kept /\ n \in 1 .. Len(E) /\ Kept \subseteq 1 .. Len(E)
      /\ \A k \in Kept : E[k].next \in Nat
  BY <1>2, ManifestIs DEF Types
<1>. PICK l : l = E[n].log
  OBVIOUS
<1>4. f \in LogsFrom(l) /\ f \in DOMAIN logs /\ f \in Nat
  BY <1>1, <1>2 DEF Replayed, LogsFrom, Types, DiskTypes
<1>. PICK x : x = In(f)
  OBVIOUS
<1>5. /\ unreplayed' = unreplayed \ {f}
      /\ UNCHANGED <<callers, writers, leader, mem, imm, logfileNumber, logNumber,
                     manifestNumber, bgVars, reader, logs, manifests, current, damage, phase,
                     acknowledged, synced, errors, crashes>>
      /\ IF x = {}
         THEN UNCHANGED <<tables, version>>
         ELSE /\ tables' = NewFile(tables, nextFile, x)
              /\ version' = [version EXCEPT !.level0 = @ \cup {nextFile}]
      /\ LET after == IF x = {} THEN nextFile ELSE nextFile + 1
         IN  nextFile' = IF after > f THEN after ELSE f + 1
      /\ lastSequence' \in {lastSequence} \cup {e.seq : e \in x}
      /\ lastSequence' >= lastSequence /\ \A e \in x : e.seq <= lastSequence'
  BY <1>1 DEF Replay, In
<1>6. UNCHANGED <<calls, kind>>
  BY <1>5 DEF callers
<1>7. /\ nextFile \in Nat /\ lastSequence \in Nat /\ version \in Versions
      /\ x \subseteq Entries /\ TablesOf(version) \subseteq Nat
  BY <1>2, <1>4, LogIs DEF Types, MemoryTypes, Versions, TablesOf
<1>8. /\ nextFile' \in Nat /\ nextFile' >= nextFile /\ f < nextFile'
      /\ x # {} => nextFile' >= nextFile + 1
  BY <1>4, <1>5, <1>7
<1>9. lastSequence' \in Nat
  <2>1. \A e \in x : e.seq \in Nat
    BY <1>7 DEF Entries
  <2>. QED
    BY <1>5, <1>7, <2>1
<1>10. \A m \in TablesOf(version) : /\ m \in DOMAIN tables /\ m < nextFile /\ tables[m] # {}
                                    /\ m # nextFile /\ \A e \in tables[m] : e.seq <= lastSequence'
  <2>1. \A m \in TablesOf(version) : /\ m \in DOMAIN tables /\ m < nextFile /\ tables[m] # {}
                                     /\ \A e \in tables[m] : e.seq <= lastSequence /\ e.seq \in Nat
    BY <1>2 DEF Replayed, Readable, Types, DiskTypes, Entries
  <2>. QED
    BY <1>5, <1>7, <1>9, <2>1
<1>11. \A k \in Kept : nextFile \notin TablesOf(Ver(k))
  <2>1. ASSUME NEW k \in Kept, nextFile \in TablesOf(Ver(k)) PROVE FALSE
    <3>1. nextFile < E[k].next /\ E[k].next <= E[Len(E)].next
      BY <1>2, <2>1 DEF DiskInv, Readable
    <3>2. E[Len(E)].next <= nextFile /\ E[k].next \in Nat /\ E[Len(E)].next \in Nat
      BY <1>2, <1>3 DEF Replayed
    <3>. QED
      BY <1>7, <3>1, <3>2
  <2>. QED
    BY <2>1
<1>12. /\ DiskTypes' /\ DiskInv' /\ E' = E /\ OnDisk' = OnDisk
       /\ \A k : Ver(k)' = Ver(k)
       /\ \A m : In(m)' = In(m)
       /\ \A m \in DOMAIN tables \ {nextFile} : m \in DOMAIN tables' /\ tables'[m] = tables[m]
       /\ x # {} => nextFile \in DOMAIN tables' /\ tables'[nextFile] = x
  <2>1. CASE x = {}
    <3>1. UNCHANGED disk /\ tables' = tables /\ UNCHANGED synced
      BY <1>5, <2>1 DEF disk
    <3>. QED
      BY <1>2, <2>1, <3>1, DiskSame, FrameDisk, FrameDiskTypes DEF Types
  <2>2. CASE x # {}
    <3>1. tables' = NewFile(tables, nextFile, x) /\ x \in SUBSET Entries /\ nextFile \in Nat
          /\ UNCHANGED <<logs, manifests, current>> /\ UNCHANGED synced /\ DiskTypes
      BY <1>2, <1>5, <1>7, <2>2 DEF Types
    <3>. QED
      BY <1>2, <1>11, <2>2, <3>1, NewTable
  <2>. QED
    BY <2>1, <2>2
<1>13. LogsFrom(l)' = LogsFrom(l)
  BY <1>5 DEF LogsFrom
<1>14. TablesOf(version') = TablesOf(version) \cup (IF x = {} THEN {} ELSE {nextFile})
  <2>1. CASE x = {}
    BY <1>5, <2>1
  <2>2. CASE x # {}
    <3>1. version' = [level0 |-> version.level0 \cup {nextFile}, base |-> version.base]
      BY <1>5, <1>7, <2>2 DEF Versions
    <3>. QED
      BY <2>2, <3>1 DEF TablesOf
  <2>. QED
    BY <2>1, <2>2
<1>15. \A m \in TablesOf(version) : m \in DOMAIN tables' /\ tables'[m] = tables[m]
  BY <1>10, <1>12
<1>16. EntriesOf(version)' = EntriesOf(version) \cup x
  <2>1. {tables'[m] : m \in TablesOf(version)} = {tables[m] : m \in TablesOf(version)}
    BY <1>15
  <2>2. CASE x = {}
    <3>1. TablesOf(version') = TablesOf(version)
      BY <1>14, <2>2
    <3>. QED
      BY <2>1, <2>2, <3>1 DEF EntriesOf
  <2>3. CASE x # {}
    <3>1. TablesOf(version') = TablesOf(version) \cup {nextFile} /\ tables'[nextFile] = x
      BY <1>12, <1>14, <2>3
    <3>2. UNION {tables'[m] : m \in TablesOf(version) \cup {nextFile}}
            = (UNION {tables'[m] : m \in TablesOf(version)}) \cup tables'[nextFile]
      BY UnionAdds
    <3>. QED
      BY <2>1, <3>1, <3>2 DEF EntriesOf
  <2>. QED
    BY <2>2, <2>3
<1>17. CallTypes' /\ WorkTypes' /\ OtherTypes' /\ Lost'
  BY <1>2, <1>5, FrameOpen
<1>18. MemoryTypes'
  <2>1. Imm' = Imm
    BY <1>5 DEF Imm
  <2>2. version' \in Versions
    <3>1. CASE x = {}
      BY <1>5, <1>7, <3>1
    <3>2. CASE x # {}
      <4>1. version' = [level0 |-> version.level0 \cup {nextFile}, base |-> version.base]
        BY <1>5, <1>7, <3>2 DEF Versions
      <4>. QED
        BY <1>7, <4>1 DEF Versions
    <3>. QED
      BY <3>1, <3>2
  <2>. QED
    BY <1>2, <1>5, <1>8, <1>9, <2>1, <2>2 DEF Types, MemoryTypes
<1>19. OrderInv'
  BY <1>2, <1>5, <1>6, <1>12 DEF OrderInv
<1>20. Replayed'
  <2>1. Readable(version, nextFile, lastSequence)'
    <3>1. ASSUME NEW m \in TablesOf(version')
          PROVE  m \in DOMAIN tables' /\ m < nextFile' /\ tables'[m] # {}
                 /\ \A e \in tables'[m] : e.seq <= lastSequence'
      <4>1. CASE m \in TablesOf(version)
        BY <1>7, <1>8, <1>10, <1>15, <4>1
      <4>2. CASE m \notin TablesOf(version)
        <5>1. x # {} /\ m = nextFile
          BY <1>14, <3>1, <4>2
        <5>. QED
          BY <1>5, <1>7, <1>8, <1>12, <5>1
      <4>. QED
        BY <4>1, <4>2
    <3>. QED
      BY <3>1 DEF Readable
  <2>2. LogsFrom(l) \ unreplayed' = (LogsFrom(l) \ unreplayed) \cup {f}
    BY <1>4, <1>5
  <2>3. UNION {In(m)' : m \in LogsFrom(l) \ unreplayed'}
          = (UNION {In(m) : m \in LogsFrom(l) \ unreplayed}) \cup x
    <3>1. {In(m)' : m \in LogsFrom(l) \ unreplayed'} = {In(m) : m \in LogsFrom(l) \ unreplayed} \cup {x}
      <4>1. {In(m)' : m \in LogsFrom(l) \ unreplayed'} = {In(m) : m \in (LogsFrom(l) \ unreplayed) \cup {f}}
        BY <1>12, <2>2
      <4>. QED
        BY <4>1
    <3>2. UNION ({In(m) : m \in LogsFrom(l) \ unreplayed} \cup {x})
            = (UNION {In(m) : m \in LogsFrom(l) \ unreplayed}) \cup x
      BY UnionOfBoth
    <3>. QED
      BY <3>1, <3>2
  <2>4. EntriesOf(Ver(n))' = EntriesOf(Ver(n))
    <3>1. \A m \in TablesOf(Ver(n)) : m \in DOMAIN tables \ {nextFile}
      BY <1>2, <1>3, <1>11 DEF DiskInv, Readable
    <3>2. {tables'[m] : m \in TablesOf(Ver(n))} = {tables[m] : m \in TablesOf(Ver(n))}
      BY <1>12, <3>1
    <3>3. Ver(n)' = Ver(n)
      BY <1>12
    <3>. QED
      BY <3>2, <3>3 DEF EntriesOf
  <2>5. EntriesOf(version) = EntriesOf(Ver(n)) \cup UNION {In(m) : m \in LogsFrom(l) \ unreplayed}
    BY <1>2 DEF Replayed
  <2>6. EntriesOf(version)' = EntriesOf(Ver(n))' \cup UNION {In(m)' : m \in LogsFrom(l)' \ unreplayed'}
    BY <1>13, <1>16, <2>3, <2>4, <2>5
  <2>7. /\ manifestNumber' < nextFile' /\ E[n].next <= nextFile'
    <3>1. manifestNumber < nextFile /\ manifestNumber \in Nat /\ E[n].next <= nextFile
      BY <1>2 DEF Replayed, Types, MemoryTypes
    <3>. QED
      BY <1>3, <1>5, <1>7, <1>8, <3>1
  <2>8. \A m \in LogsFrom(l)' \ unreplayed' : m < nextFile'
    <3>1. \A m \in LogsFrom(l) \ unreplayed : m < nextFile /\ m \in Nat
      BY <1>2 DEF Replayed, LogsFrom, Types, DiskTypes
    <3>. QED
      BY <1>7, <1>8, <1>13, <2>2, <3>1
  <2>9. unreplayed' \subseteq LogsFrom(l)'
    BY <1>2, <1>5, <1>13 DEF Replayed
  <2>10. Len(E') = n /\ E'[n] = E[n] /\ phase' = "replaying"
    BY <1>2, <1>5, <1>12
  <2>. QED
    BY <2>1, <2>6, <2>7, <2>8, <2>9, <2>10 DEF Replayed
<1>21. Opening'
  BY <1>2, <1>5, <1>12 DEF Opening
<1>. QED
  BY <1>2, <1>5, <1>12, <1>17, <1>18, <1>19, <1>20, <1>21 DEF Inv, Types

\* The new log is empty and the last.
LEMMA OpenLogKeeps ==
  ASSUME Inv, OpenLog
  PROVE  Inv'
<1>1. /\ Types /\ DiskInv /\ OrderInv /\ phase = "replaying" /\ Replayed /\ Opening /\ unreplayed = {}
  BY DEF Inv, OpenLog
<1>2. /\ logs' = NewFile(logs, nextFile, EmptyLog)
      /\ logfileNumber' = nextFile /\ nextFile' = nextFile + 1 /\ phase' = "logged"
      /\ UNCHANGED <<callers, writers, leader, mem, imm, lastSequence, version, logNumber,
                     manifestNumber, bgVars, reader, tables, manifests, current, damage,
                     unreplayed, acknowledged, synced, errors, crashes>>
  BY DEF OpenLog
<1>3. UNCHANGED <<calls, kind>>
  BY <1>2 DEF callers
<1>. PICK n : n = Len(E)
  OBVIOUS
<1>. PICK l : l = E[n].log
  OBVIOUS
<1>. PICK f : f = nextFile
  OBVIOUS
<1>4. /\ l \in Nat /\ E[n].next \in Nat /\ f \in Nat /\ l < f /\ E[n].next <= f /\ n \in Kept
      /\ manifestNumber \in Nat /\ manifestNumber < f /\ DOMAIN logs \subseteq Nat
  <2>1. f \in Nat /\ manifestNumber \in Nat /\ DOMAIN logs \subseteq Nat
    BY <1>1 DEF Types, MemoryTypes, DiskTypes
  <2>2. n \in Kept /\ n \in 1 .. Len(E) /\ l \in Nat /\ E[n].next \in Nat
    BY <1>1, ManifestIs DEF Types
  <2>3. E[n].next <= f /\ manifestNumber < f
    BY <1>1 DEF Replayed
  <2>4. l < E[n].next
    BY <1>1, <2>2 DEF DiskInv
  <2>. QED
    BY <2>1, <2>2, <2>3, <2>4
<1>5. \A m \in DOMAIN logs : m < f
  <2>1. ASSUME NEW m \in DOMAIN logs PROVE m < f
    <3>1. CASE m >= l
      BY <1>1, <3>1 DEF Replayed, LogsFrom
    <3>2. CASE m < l
      BY <1>4, <3>2
    <3>. QED
      BY <1>4, <3>1, <3>2
  <2>. QED
    BY <2>1
<1>6. /\ DiskTypes' /\ DiskInv' /\ E' = E /\ OnDisk' = OnDisk
      /\ \A k : Ver(k)' = Ver(k)
      /\ DOMAIN logs' = DOMAIN logs \cup {f}
      /\ \A m \in DOMAIN logs : In(m)' = In(m)
      /\ In(f)' = {}
  <2>1. f \notin DOMAIN logs
    BY <1>4, <1>5
  <2>2. logs' = NewFile(logs, f, EmptyLog) /\ UNCHANGED <<tables, manifests, current>> /\ UNCHANGED synced
    BY <1>2
  <2>. QED
    BY <1>1, <1>4, <2>1, <2>2, NewLog DEF Types
<1>7. CallTypes' /\ WorkTypes' /\ OtherTypes' /\ Lost'
  BY <1>1, <1>2, FrameOpen
<1>8. MemoryTypes'
  <2>1. Imm' = Imm
    BY <1>2 DEF Imm
  <2>. QED
    BY <1>1, <1>2, <2>1 DEF Types, MemoryTypes
<1>9. OrderInv'
  BY <1>1, <1>2, <1>3, <1>6 DEF OrderInv
<1>10. Replayed'
  <2>1. Readable(version, nextFile, lastSequence)'
    <3>1. \A m \in TablesOf(version) : m < f + 1
      BY <1>1, <1>4 DEF Replayed, Readable, Types, DiskTypes
    <3>. QED
      BY <1>1, <1>2, <3>1 DEF Replayed, Readable
  <2>2. LogsFrom(l)' = LogsFrom(l) \cup {f}
    BY <1>4, <1>6 DEF LogsFrom
  <2>3. UNION {In(m)' : m \in LogsFrom(l)'} = UNION {In(m) : m \in LogsFrom(l)}
    <3>1. {In(m)' : m \in LogsFrom(l)} = {In(m) : m \in LogsFrom(l)}
      BY <1>6 DEF LogsFrom
    <3>2. {In(m)' : m \in LogsFrom(l)'} = {In(m) : m \in LogsFrom(l)} \cup {{}}
      BY <1>6, <2>2, <3>1
    <3>3. UNION ({In(m) : m \in LogsFrom(l)} \cup {{}}) = (UNION {In(m) : m \in LogsFrom(l)}) \cup {}
      BY UnionOfBoth
    <3>. QED
      BY <3>2, <3>3
  <2>4. EntriesOf(version)' = EntriesOf(version) /\ EntriesOf(Ver(n))' = EntriesOf(Ver(n))
    BY <1>2, <1>6 DEF EntriesOf
  <2>5. EntriesOf(version) = EntriesOf(Ver(n)) \cup UNION {In(m) : m \in LogsFrom(l)}
    BY <1>1 DEF Replayed
  <2>6. \A m \in LogsFrom(l)' : m < nextFile'
    BY <1>2, <1>4, <1>5, <1>6, <2>2 DEF LogsFrom
  <2>7. /\ manifestNumber' < nextFile' /\ E[n].next <= nextFile'
    BY <1>2, <1>4
  <2>8. Len(E') = n /\ E'[n] = E[n] /\ unreplayed' = {} /\ phase' = "logged"
    BY <1>1, <1>2, <1>6
  <2>9. EntriesOf(version)' = EntriesOf(Ver(n))' \cup UNION {In(m)' : m \in LogsFrom(l)' \ unreplayed'}
    BY <2>3, <2>4, <2>5, <2>8
  <2>10. \A m \in LogsFrom(l)' \ unreplayed' : m < nextFile'
    BY <2>6
  <2>. QED
    BY <2>1, <2>7, <2>8, <2>9, <2>10 DEF Replayed
<1>11. Opening'
  <2>1. logfileNumber' \in DOMAIN logs' /\ logfileNumber' < nextFile'
    BY <1>2, <1>4, <1>6
  <2>2. \A m \in DOMAIN logs' : m <= logfileNumber'
    BY <1>2, <1>4, <1>5, <1>6
  <2>3. In(logfileNumber)' = {}
    BY <1>2, <1>6
  <2>4. manifestNumber' = E'[Len(E')].next
    BY <1>1, <1>2, <1>6 DEF Opening
  <2>. QED
    BY <1>2, <2>1, <2>2, <2>3, <2>4 DEF Opening
<1>. QED
  BY <1>1, <1>2, <1>6, <1>7, <1>8, <1>9, <1>10, <1>11 DEF Inv, Types

\* The new MANIFEST does not count yet.
LEMMA OpenManifestKeeps ==
  ASSUME Inv, OpenManifest
  PROVE  Inv'
<1>1. /\ Types /\ DiskInv /\ OrderInv /\ phase = "logged" /\ Replayed /\ Opening /\ unreplayed = {}
  BY DEF Inv, OpenManifest, Replayed
<1>. PICK e : e = [level0 |-> version.level0, base |-> version.base, deleted |-> {},
                   log |-> logfileNumber, next |-> nextFile, seq |-> lastSequence]
  OBVIOUS
<1>. PICK r : r = [edits |-> <<e>>, durable |-> 1]
  OBVIOUS
<1>. PICK f : f = manifestNumber
  OBVIOUS
<1>2. /\ manifests' = NewFile(manifests, f, r)
      /\ phase' = "described"
      /\ UNCHANGED <<callers, writers, leader, memory, vset, bgVars, reader, logs, tables,
                     current, damage, unreplayed, acknowledged, synced, errors, crashes>>
  BY DEF OpenManifest
<1>3. UNCHANGED <<calls, kind, logfileNumber, lastSequence, mem, imm, version, logNumber,
                  nextFile, manifestNumber>>
  BY <1>2 DEF callers, memory, vset
<1>4. e \in Edits
  BY <1>1 DEF Types, MemoryTypes, Versions, Edits
<1>5. f \in Nat /\ f # current /\ f = E[Len(E)].next
  <2>1. f = E[Len(E)].next /\ current < f
    BY <1>1, ManifestIs DEF Types, Opening, DiskInv
  <2>. QED
    BY <1>1, <2>1 DEF Types, MemoryTypes, DiskTypes
<1>6. /\ DOMAIN manifests' = DOMAIN manifests \cup {f} /\ manifests'[f] = r
      /\ \A m \in DOMAIN manifests \ {f} : manifests'[m] = manifests[m]
  BY <1>2 DEF NewFile
<1>7. manifests'[current] = manifests[current] /\ current' = current /\ logs' = logs /\ tables' = tables
  BY <1>1, <1>2, <1>5, <1>6 DEF Types, DiskTypes
<1>8. DiskTypes'
  <2>1. <<e>> \in Seq(Edits) /\ Len(<<e>>) = 1
    BY <1>4
  <2>2. r = [edits |-> r.edits, durable |-> r.durable] /\ r.edits \in Seq(Edits)
        /\ r.durable \in 1 .. Len(r.edits)
    BY <2>1
  <2>3. ASSUME NEW m \in DOMAIN manifests'
        PROVE  /\ manifests'[m] = [edits |-> manifests'[m].edits, durable |-> manifests'[m].durable]
               /\ manifests'[m].edits \in Seq(Edits)
               /\ manifests'[m].durable \in 1 .. Len(manifests'[m].edits)
    <3>1. CASE m = f
      BY <1>6, <2>2, <3>1
    <3>2. CASE m # f
      <4>1. m \in DOMAIN manifests /\ manifests'[m] = manifests[m]
        BY <1>6, <2>3, <3>2
      <4>. QED
        BY <1>1, <4>1 DEF Types, DiskTypes
    <3>. QED
      BY <3>1, <3>2
  <2>4. DOMAIN manifests' \subseteq Nat /\ current' \in DOMAIN manifests'
    BY <1>1, <1>5, <1>6, <1>7 DEF Types, DiskTypes
  <2>. QED
    BY <1>1, <1>7, <2>3, <2>4 DEF Types, DiskTypes
<1>9. /\ E' = E /\ Synced' = Synced /\ Kept' = Kept /\ OnDisk' = OnDisk
      /\ \A k : Ver(k)' = Ver(k) /\ All(k)' = All(k) /\ Least(k)' = Least(k)
      /\ \A m : In(m)' = In(m)
      /\ \A l : LogsFrom(l)' = LogsFrom(l)
  BY <1>7 DEF E, Synced, Kept, OnDisk, Ver, All, Least, In, DurableIn, LogsFrom, EntriesOf, EntriesIn
<1>10. DiskInv'
  BY <1>1, <1>2, <1>7, <1>9 DEF DiskInv, Readable
<1>11. OrderInv'
  BY <1>1, <1>2, <1>3, <1>9 DEF OrderInv
<1>12. CallTypes' /\ WorkTypes' /\ OtherTypes' /\ Lost'
  <2>1. UNCHANGED <<callers, writers, leader, mem, imm, bgVars, reader, errors, crashes>>
    BY <1>2, <1>3
  <2>. QED
    BY <1>1, <1>2, <2>1, FrameOpen
<1>13. MemoryTypes'
  BY <1>1, <1>2, FrameMemoryTypes DEF Types
<1>14. Replayed'
  <2>. PICK n : n = Len(E)
    OBVIOUS
  <2>. PICK l : l = E[n].log
    OBVIOUS
  <2>1. /\ Len(E') = n /\ E'[n].log = l /\ E'[n].next = E[n].next
        /\ Ver(n)' = Ver(n) /\ LogsFrom(l)' = LogsFrom(l)
    BY <1>9
  <2>2. {In(m)' : m \in LogsFrom(l) \ unreplayed} = {In(m) : m \in LogsFrom(l) \ unreplayed}
    BY <1>9
  <2>3. EntriesOf(version)' = EntriesOf(version) /\ EntriesOf(Ver(n))' = EntriesOf(Ver(n))
    BY <1>3, <1>7, <2>1 DEF EntriesOf
  <2>4. Readable(version, nextFile, lastSequence)'
    BY <1>1, <1>3, <1>7 DEF Replayed, Readable
  <2>. QED
    BY <1>1, <1>2, <1>3, <2>1, <2>2, <2>3, <2>4 DEF Replayed
<1>15. Opening'
  <2>1. manifestNumber' \in DOMAIN manifests' /\ manifests'[manifestNumber'] = r
    BY <1>3, <1>6
  <2>2. r = [edits |-> <<[level0 |-> version'.level0, base |-> version'.base, deleted |-> {},
                          log |-> logfileNumber', next |-> nextFile', seq |-> lastSequence']>>,
             durable |-> 1]
    BY <1>3
  <2>3. In(logfileNumber)' = In(logfileNumber)
    <3>1. PICK g : g = logfileNumber
      OBVIOUS
    <3>2. In(g)' = In(g) /\ logfileNumber' = g
      BY <1>3, <1>9, <3>1
    <3>. QED
      BY <3>1, <3>2
  <2>. QED
    BY <1>1, <1>2, <1>3, <1>7, <1>9, <2>1, <2>2, <2>3 DEF Opening
<1>. QED
  BY <1>1, <1>2, <1>8, <1>10, <1>11, <1>12, <1>13, <1>14, <1>15 DEF Inv, Types

\* What the new MANIFEST alone says is what the old one and the logs said.
LEMMA SetCurrentFileKeeps ==
  ASSUME Inv, SetCurrentFile
  PROVE  Inv'
<1>1. /\ Types /\ DiskInv /\ OrderInv /\ phase = "described" /\ Replayed /\ Opening /\ unreplayed = {}
  BY DEF Inv, SetCurrentFile, Replayed
<1>2. /\ current' = manifestNumber /\ phase' = "current" /\ damage' = "none"
      /\ UNCHANGED <<callers, writers, leader, memory, vset, bgVars, reader, logs, tables,
                     manifests, unreplayed, acknowledged, synced, errors, crashes>>
  BY DEF SetCurrentFile
<1>3. UNCHANGED <<calls, kind, logfileNumber, lastSequence, mem, imm, version, logNumber,
                  nextFile, manifestNumber>>
  BY <1>2 DEF callers, memory, vset
<1>. PICK e : e = [level0 |-> version.level0, base |-> version.base, deleted |-> {},
                   log |-> logfileNumber, next |-> nextFile, seq |-> lastSequence]
  OBVIOUS
<1>. PICK f : f = logfileNumber
  OBVIOUS
<1>4. /\ manifestNumber \in DOMAIN manifests
      /\ manifests[manifestNumber] = [edits |-> <<e>>, durable |-> 1]
      /\ manifestNumber \in Nat /\ manifestNumber < nextFile /\ nextFile \in Nat
      /\ f \in Nat /\ f < nextFile /\ f \in DOMAIN logs /\ \A m \in DOMAIN logs : m <= f
      /\ In(f) = {} /\ DOMAIN logs \subseteq Nat
  BY <1>1 DEF Opening, Replayed, Types, MemoryTypes, DiskTypes
<1>5. /\ e.log = f /\ e.next = nextFile /\ e.seq = lastSequence /\ e \in Edits
      /\ e.level0 = version.level0 /\ e.base = version.base
      /\ version = [level0 |-> version.level0, base |-> version.base]
  BY <1>1 DEF Types, MemoryTypes, Versions, Edits
<1>6. DiskTypes'
  <2>1. current' \in DOMAIN manifests'
    BY <1>2, <1>4
  <2>. QED
    BY <1>1, <1>2, <2>1 DEF Types, DiskTypes
<1>7. E' = <<e>> /\ Synced' = 1 /\ Len(E') = 1 /\ E'[1] = e /\ Kept' = {1}
  <2>1. E' = <<e>> /\ Synced' = 1
    BY <1>2, <1>4 DEF E, Synced
  <2>2. Len(E') = 1 /\ E'[1] = e
    BY <2>1
  <2>. QED
    BY <2>1, <2>2 DEF Kept
<1>8. Ver(1)' = version
  <2>1. <<e>> \in Seq(Edits) /\ Len(<<e>>) = 1
    BY <1>5
  <2>2. SubSeq(<<e>>, 1, 1) = <<e>>
    BY <2>1, WholePrefix
  <2>3. VersionOf(<<e>>) = version
    BY <1>5, VersionOne
  <2>. QED
    BY <1>7, <2>2, <2>3 DEF Ver
<1>9. /\ \A m : In(m)' = In(m)
      /\ \A l : LogsFrom(l)' = LogsFrom(l)
      /\ \A v : EntriesOf(v)' = EntriesOf(v)
  BY <1>2 DEF In, EntriesIn, LogsFrom, EntriesOf
<1>10. LogsFrom(f) = {f}
  BY <1>4 DEF LogsFrom
<1>11. EntriesOf(version) = OnDisk
  BY <1>1 DEF Replayed, OnDisk, All
<1>. PICK v : v = version
  OBVIOUS
<1>12. EntriesOf(Ver(1))' = EntriesOf(v) /\ EntriesOf(version)' = EntriesOf(v)
  <2>1. Ver(1)' = v /\ version' = v
    BY <1>3, <1>8
  <2>. QED
    BY <1>2, <2>1 DEF EntriesOf
<1>13. All(1)' = EntriesOf(v) /\ EntriesOf(v) \subseteq Least(1)'
  <2>1. (E[1].log)' = f
    BY <1>5, <1>7
  <2>2. {In(m)' : m \in LogsFrom(f)'} = {{}}
    BY <1>4, <1>9, <1>10
  <2>3. UNION {In(m)' : m \in LogsFrom(f)'} = {}
    BY <2>2
  <2>4. All(1)' = EntriesOf(Ver(1))' \cup UNION {In(m)' : m \in LogsFrom(f)'}
    BY <2>1 DEF All
  <2>5. EntriesOf(Ver(1))' \subseteq Least(1)'
    BY DEF Least
  <2>. QED
    BY <1>12, <2>3, <2>4, <2>5
<1>14. OnDisk' = OnDisk
  <2>1. OnDisk' = All(1)'
    <3>1. PICK n : n = Len(E')
      OBVIOUS
    <3>2. n = 1
      BY <1>7, <3>1
    <3>3. All(n)' = All(1)'
      BY <3>2
    <3>. QED
      BY <3>1, <3>3 DEF OnDisk
  <2>. QED
    BY <1>11, <1>13, <2>1
<1>15. Readable(version, nextFile, lastSequence)
  BY <1>1 DEF Replayed
<1>16. DiskInv'
  <2>1. Readable(Ver(1), E[1].next, E[1].seq)'
    BY <1>2, <1>5, <1>7, <1>8, <1>15 DEF Readable
  <2>2. synced' \subseteq Least(1)'
    <3>1. synced \subseteq OnDisk
      BY <1>1 DEF OrderInv
    <3>. QED
      BY <1>2, <1>11, <1>13, <3>1
  <2>3. current' < e.next /\ e.log < e.next
    BY <1>2, <1>4, <1>5
  <2>4. All(1)' = OnDisk' /\ e.next <= e.next
    BY <1>4, <1>5, <1>11, <1>13, <1>14
  <2>. QED
    BY <1>7, <2>1, <2>2, <2>3, <2>4 DEF DiskInv
<1>17. OrderInv'
  BY <1>1, <1>2, <1>3, <1>14 DEF OrderInv
<1>18. CallTypes' /\ WorkTypes' /\ OtherTypes' /\ Lost'
  <2>1. UNCHANGED <<callers, writers, leader, mem, imm, bgVars, reader, errors, crashes>>
    BY <1>2, <1>3
  <2>. QED
    BY <1>1, <1>2, <2>1, FrameOpen
<1>19. MemoryTypes'
  BY <1>1, <1>2, FrameMemoryTypes DEF Types
<1>20. Replayed'
  <2>1. Readable(version, nextFile, lastSequence)'
    BY <1>2, <1>3, <1>15 DEF Readable
  <2>2. unreplayed' = {} /\ Len(E') = 1 /\ E'[1].log = f /\ E'[1].next = nextFile
    BY <1>1, <1>2, <1>5, <1>7
  <2>3. {In(m)' : m \in LogsFrom(f)' \ unreplayed'} = {{}}
    <3>1. LogsFrom(f)' \ unreplayed' = {f}
      BY <1>9, <1>10, <2>2
    <3>2. In(f)' = {}
      BY <1>4, <1>9
    <3>. QED
      BY <3>1, <3>2
  <2>4. UNION {In(m)' : m \in LogsFrom(f)' \ unreplayed'} = {}
    BY <2>3
  <2>5. EntriesOf(version)' = EntriesOf(Ver(1))' \cup UNION {In(m)' : m \in LogsFrom(f)' \ unreplayed'}
    BY <1>12, <2>4
  <2>6. \A m \in LogsFrom(f)' \ unreplayed' : m < nextFile'
    BY <1>3, <1>4, <1>9, <1>10
  <2>7. EntriesOf(Ver(Len(E)))' = EntriesOf(Ver(1))'
    <3>1. PICK n : n = Len(E')
      OBVIOUS
    <3>2. n = 1
      BY <2>2, <3>1
    <3>3. EntriesOf(Ver(n))' = EntriesOf(Ver(1))'
      BY <3>2
    <3>. QED
      BY <3>1, <3>3
  <2>. QED
    BY <1>2, <1>3, <1>4, <2>1, <2>2, <2>5, <2>6, <2>7 DEF Replayed
<1>21. Opening'
  <2>1. In(logfileNumber)' = {}
    BY <1>3, <1>4, <1>9
  <2>. QED
    BY <1>1, <1>2, <1>3, <2>1 DEF Opening
<1>. QED
  BY <1>1, <1>2, <1>6, <1>16, <1>17, <1>18, <1>19, <1>20, <1>21 DEF Inv, Types

\* The database is open: the new MANIFEST is the one that counts, and the files
\* it does not name are deleted.
LEMMA OpenedKeeps ==
  ASSUME Inv, Opened
  PROVE  Inv'
<1>1. /\ Types /\ DiskInv /\ OrderInv /\ phase = "current" /\ Replayed /\ Opening /\ unreplayed = {}
      /\ Lost
  BY DEF Inv, Opened, Replayed
<1>. PICK f : f = logfileNumber
  OBVIOUS
<1>. PICK v : v = version
  OBVIOUS
<1>2. /\ phase' = "open" /\ logNumber' = f /\ DeleteObsoleteFiles(v, f, {}, NoTables)
      /\ scheduled' = Schedulable({}, version, FALSE)
      /\ acknowledged' = EntriesOf(v)
      /\ UNCHANGED <<callers, writers, leader, memory, version, nextFile, manifestNumber, bg,
                     compaction, bgError, pendingOutputs, reader, current, damage, unreplayed, synced,
                     errors, crashes>>
  BY DEF Opened
<1>3. UNCHANGED <<calls, kind, before, result, logfileNumber, lastSequence, mem, imm>>
  BY <1>2 DEF callers, memory
<1>4. /\ writers = <<>> /\ leader = Idle /\ mem = {} /\ imm = {} /\ reader = None /\ bg = NoWork
      /\ compaction = NoCompaction /\ pendingOutputs = {} /\ ~bgError /\ damage = "none"
  BY <1>1 DEF Lost, Opening
<1>. PICK e : e = [level0 |-> version.level0, base |-> version.base, deleted |-> {},
                   log |-> logfileNumber, next |-> nextFile, seq |-> lastSequence]
  OBVIOUS
<1>5. /\ manifests[manifestNumber] = [edits |-> <<e>>, durable |-> 1] /\ current = manifestNumber
      /\ nextFile \in Nat /\ lastSequence \in Nat
      /\ f \in Nat /\ f < nextFile /\ f \in DOMAIN logs /\ \A m \in DOMAIN logs : m <= f
      /\ In(f) = {} /\ DOMAIN logs \subseteq Nat
      /\ Readable(version, nextFile, lastSequence)
  BY <1>1 DEF Opening, Replayed, Types, MemoryTypes, DiskTypes
<1>6. /\ e.log = f /\ e.next = nextFile /\ e.seq = lastSequence /\ e \in Edits
      /\ e.level0 = version.level0 /\ e.base = version.base
      /\ version = [level0 |-> version.level0, base |-> version.base]
  BY <1>1 DEF Types, MemoryTypes, Versions, Edits
<1>7. E = <<e>> /\ Synced = 1 /\ Len(E) = 1 /\ E[1] = e /\ Kept = {1}
  <2>1. E = <<e>> /\ Synced = 1
    BY <1>5 DEF E, Synced
  <2>2. Len(E) = 1 /\ E[1] = e
    BY <2>1
  <2>. QED
    BY <2>1, <2>2 DEF Kept
<1>8. Ver(1) = v
  <2>1. <<e>> \in Seq(Edits) /\ Len(<<e>>) = 1
    BY <1>6
  <2>2. SubSeq(<<e>>, 1, 1) = <<e>>
    BY <2>1, WholePrefix
  <2>3. VersionOf(<<e>>) = version
    BY <1>6, VersionOne
  <2>. QED
    BY <1>7, <2>2, <2>3 DEF Ver
<1>9. LogsFrom(f) = {f}
  BY <1>5 DEF LogsFrom
<1>10. EntriesOf(v) = OnDisk
  BY <1>1 DEF Replayed, OnDisk, All
<1>11. /\ DiskTypes' /\ DiskInv' /\ E' = E /\ Synced' = Synced /\ OnDisk' = OnDisk
       /\ \A k : Ver(k)' = Ver(k)
       /\ DOMAIN logs' = {f}
       /\ In(f)' = In(f) /\ DurableIn(f)' = DurableIn(f)
       /\ \A m \in Live(v, NoTables) \cap DOMAIN tables : m \in DOMAIN tables' /\ tables'[m] = tables[m]
  <2>1. /\ DeleteObsoleteFiles(Ver(Len(E)), E[Len(E)].log, {}, NoTables) /\ UNCHANGED <<current, synced>>
        /\ Synced = Len(E) /\ manifestNumber = current /\ DiskTypes
    BY <1>1, <1>2, <1>5, <1>6, <1>7, <1>8 DEF Types
  <2>2. /\ DiskTypes' /\ DiskInv' /\ E' = E /\ Synced' = Synced /\ OnDisk' = OnDisk
        /\ \A k : Ver(k)' = Ver(k)
        /\ DOMAIN logs' = LogsFrom(E[Len(E)].log)
        /\ \A m \in LogsFrom(E[Len(E)].log) : In(m)' = In(m) /\ DurableIn(m)' = DurableIn(m)
        /\ \A m \in (Live(Ver(Len(E)), NoTables) \cup {}) \cap DOMAIN tables : m \in DOMAIN tables'
        /\ \A m \in DOMAIN tables' : tables'[m] = tables[m]
    BY <1>1, <2>1, FilesDeleted
  <2>3. LogsFrom(E[Len(E)].log) = {f} /\ Ver(Len(E)) = v
    BY <1>6, <1>7, <1>8, <1>9
  <2>. QED
    BY <2>2, <2>3
<1>12. ASSUME NEW m \in TablesOf(v)
       PROVE  /\ m \in DOMAIN tables /\ m \in DOMAIN tables' /\ tables'[m] = tables[m]
              /\ m < nextFile /\ tables[m] # {}
              /\ \A x \in tables[m] : x.seq <= lastSequence
  <2>1. m \in Live(v, NoTables)
    BY <1>12 DEF Live
  <2>. QED
    BY <1>5, <1>11, <1>12, <2>1 DEF Readable
<1>13. EntriesOf(version)' = EntriesOf(v) /\ \A x \in EntriesOf(v) : x.seq <= lastSequence
  <2>1. {tables'[m] : m \in TablesOf(v)} = {tables[m] : m \in TablesOf(v)}
    BY <1>12
  <2>2. version' = v
    BY <1>2
  <2>. QED
    BY <1>12, <2>1, <2>2 DEF EntriesOf
<1>14. /\ Imm' = {} /\ mem' = {} /\ writers' = <<>> /\ Len(writers') = 0 /\ Group' = {} /\ Len(leader'.group) = 0
       /\ leader'.phase = "none" /\ leader'.group = <<>> /\ leader'.taken = 0 /\ leader'.ok
       /\ bg'.phase = "none" /\ reader' = None /\ ~bgError'
  <2>1. leader' = [phase |-> "none", force |-> FALSE, group |-> <<>>, taken |-> 0, ok |-> TRUE]
        /\ writers' = <<>> /\ imm' = {}
    BY <1>2, <1>3, <1>4 DEF Idle
  <2>2. bg'.phase = "none"
    BY <1>2, <1>4 DEF NoWork
  <2>3. leader'.phase = "none" /\ leader'.group = <<>> /\ leader'.taken = 0 /\ leader'.ok
    BY <2>1
  <2>4. Group' = {}
    BY <2>3 DEF Group, Range
  <2>5. Imm' = {}
    BY <2>1 DEF Imm
  <2>. QED
    BY <1>2, <1>3, <1>4, <2>1, <2>2, <2>3, <2>4, <2>5
<1>15. CallTypes' /\ MemoryTypes' /\ WorkTypes' /\ OtherTypes'
  <2>1. CallTypes' /\ WorkTypes'
    BY <1>1, <1>2, <1>3, FrameCalls, FrameWorkTypes DEF Types, Alike
  <2>2. MemoryTypes'
    <3>1. mem' \subseteq Entries /\ Imm' \subseteq Entries /\ imm' \in {{}, {Imm'}}
      BY <1>3, <1>4, <1>14
    <3>. QED
      BY <1>1, <1>2, <1>3, <1>5, <3>1 DEF Types, MemoryTypes
  <2>3. OtherTypes'
    <3>1. scheduled' \in BOOLEAN
      BY <1>2 DEF Schedulable
    <3>. QED
      BY <1>1, <1>2, <1>3, <3>1 DEF Types, OtherTypes
  <2>. QED
    BY <2>1, <2>2, <2>3
<1>16. OrderInv'
  <2>1. synced' \subseteq acknowledged' /\ acknowledged' = OnDisk
    BY <1>1, <1>2, <1>10 DEF OrderInv
  <2>. QED
    BY <1>1, <1>3, <1>11, <2>1 DEF OrderInv
<1>17. QueueInv'
  BY <1>14 DEF QueueInv
<1>18. FreshInv'
  <2>1. \A x \in OnDisk' : x.seq <= lastSequence'
    BY <1>3, <1>10, <1>11, <1>13
  <2>. QED
    BY <1>14, <2>1 DEF FreshInv
<1>19. LogInv'
  <2>1. /\ logfileNumber' = f /\ logNumber' = f /\ f \in DOMAIN logs' /\ \A m \in DOMAIN logs' : m <= f
        /\ nextFile' = nextFile
    BY <1>2, <1>3, <1>5, <1>11
  <2>2. In(logfileNumber)' = {}
    BY <1>3, <1>5, <1>11
  <2>3. LogsFrom(logNumber)' \ {logfileNumber'} = {}
    BY <1>3, <1>11, <2>1 DEF LogsFrom
  <2>4. UNION {In(m)' : m \in LogsFrom(logNumber)' \ {logfileNumber'}} = {}
    BY <2>3
  <2>. QED
    BY <1>5, <1>14, <2>1, <2>2, <2>4 DEF LogInv
<1>20. ReadInv'
  <2>1. Readable(version, nextFile, lastSequence)'
    BY <1>2, <1>3, <1>12 DEF Readable
  <2>2. acknowledged' = {x \in mem' \cup Imm' \cup EntriesOf(version)' : x.seq <= lastSequence'}
    BY <1>2, <1>3, <1>13, <1>14
  <2>. QED
    BY <1>14, <2>1, <2>2 DEF ReadInv
<1>21. VersionInv'
  <2>1. Synced' = 1 /\ Len(E') = 1 /\ E'[1] = e /\ Kept' = {1}
    BY <1>7, <1>11 DEF Kept
  <2>2. Ver(1)' = version'
    BY <1>2, <1>8, <1>11
  <2>3. Ver(Len(E))' = version'
    <3>1. PICK n : n = Len(E')
      OBVIOUS
    <3>2. Ver(n)' = Ver(1)'
      BY <2>1, <3>1
    <3>. QED
      BY <2>2, <3>1, <3>2
  <2>4. Noted' = f
    BY <1>2, <1>14 DEF Noted
  <2>. QED
    BY <1>2, <1>3, <1>4, <1>5, <1>6, <1>14, <2>1, <2>3, <2>4 DEF VersionInv
<1>22. WorkInv' /\ ReaderInv'
  <2>1. bg' = NoWork /\ ~Compacting'
    BY <1>2, <1>4 DEF Compacting
  <2>. QED
    BY <1>14, <2>1 DEF WorkInv, ThreadInv, CompactionInv, ReaderInv, NoWork
<1>. QED
  BY <1>1, <1>2, <1>11, <1>15, <1>16, <1>17, <1>18, <1>19, <1>20, <1>21, <1>22 DEF Inv, Types, OpenInv

-----------------------------------------------------------------------------
(***************************************************************************)
(* The invariant holds.                                                    *)
(***************************************************************************)

LEMMA InitIs ==
  ASSUME Init
  PROVE  Inv
<1>. PICK e : e = [level0 |-> {}, base |-> {}, deleted |-> {}, log |-> 3, next |-> 4, seq |-> 0]
  OBVIOUS
<1>1. /\ e \in Edits /\ e.level0 = {} /\ e.base = {} /\ e.log = 3 /\ e.next = 4 /\ e.seq = 0
  BY DEF Edits
<1>2. /\ calls = 0 /\ kind = [i \in Ids |-> "none"] /\ result = [i \in Ids |-> "none"]
      /\ before = [i \in Ids |-> {}]
      /\ writers = <<>> /\ leader = Idle
      /\ mem = {} /\ imm = {} /\ logfileNumber = 3 /\ lastSequence = 0
      /\ version = NoTables /\ logNumber = 3 /\ nextFile = 4 /\ manifestNumber = 2
      /\ bg = NoWork /\ pendingOutputs = {} /\ reader = None
      /\ compaction = NoCompaction /\ damage = "none"
      /\ logs = [n \in {3} |-> EmptyLog] /\ tables = <<>> /\ current = 2
      /\ manifests = [n \in {2} |-> [edits |-> <<e>>, durable |-> 1]]
      /\ phase = "open" /\ unreplayed = {}
      /\ acknowledged = {} /\ synced = {} /\ errors = 0 /\ crashes = 0
  BY DEF Init
<1>3. scheduled = FALSE /\ bgError = FALSE
  BY DEF Init
<1>4. E = <<e>> /\ Synced = 1 /\ Len(E) = 1 /\ E[1] = e /\ Kept = {1}
  <2>1. E = <<e>> /\ Synced = 1
    BY <1>2 DEF E, Synced
  <2>2. Len(E) = 1 /\ E[1] = e
    BY <2>1
  <2>. QED
    BY <2>1, <2>2 DEF Kept
<1>5. Ver(1) = NoTables /\ TablesOf(NoTables) = {} /\ EntriesOf(NoTables) = {}
  <2>1. <<e>> \in Seq(Edits) /\ Len(<<e>>) = 1
    BY <1>1
  <2>2. SubSeq(<<e>>, 1, 1) = <<e>>
    BY <2>1, WholePrefix
  <2>3. VersionOf(<<e>>) = NoTables
    BY <1>1, VersionOne DEF NoTables
  <2>4. TablesOf(NoTables) = {}
    BY DEF NoTables, TablesOf
  <2>. QED
    BY <1>4, <2>2, <2>3, <2>4 DEF Ver, EntriesOf
<1>6. /\ logs[3] = [records |-> <<>>, durable |-> 0] /\ DOMAIN logs = {3}
      /\ logs[3].records = <<>> /\ logs[3].durable = 0
  BY <1>2 DEF EmptyLog
<1>7. In(3) = {}
  BY <1>6 DEF In, EntriesIn, Range
<1>8. /\ leader.phase = "none" /\ leader.group = <<>> /\ leader.taken = 0 /\ leader.ok
      /\ leader = [phase |-> leader.phase, force |-> leader.force, group |-> leader.group,
                   taken |-> leader.taken, ok |-> leader.ok]
      /\ Group = {} /\ Imm = {} /\ Len(writers) = 0 /\ Len(leader.group) = 0
  <2>1. leader = [phase |-> "none", force |-> FALSE, group |-> <<>>, taken |-> 0, ok |-> TRUE]
    BY <1>2 DEF Idle
  <2>2. leader.phase = "none" /\ leader.group = <<>> /\ leader.taken = 0 /\ leader.ok
    BY <2>1
  <2>3. leader = [phase |-> leader.phase, force |-> leader.force, group |-> leader.group,
                  taken |-> leader.taken, ok |-> leader.ok]
    BY <2>1
  <2>4. Group = {}
    BY <2>2 DEF Group, Range
  <2>5. Imm = {}
    BY <1>2 DEF Imm
  <2>. QED
    BY <1>2, <2>2, <2>3, <2>4, <2>5
<1>9. /\ bg.phase = "none" /\ bg.kind = "none" /\ bg.number = 0 /\ bg.edit = None
      /\ bg = [phase |-> bg.phase, kind |-> bg.kind, number |-> bg.number, edit |-> bg.edit]
  BY <1>2 DEF NoWork
<1>10. LogsFrom(3) = {3}
  BY <1>6 DEF LogsFrom
<1>11. All(1) = {} /\ OnDisk = {}
  <2>1. {In(m) : m \in LogsFrom(3)} = {{}}
    BY <1>7, <1>10
  <2>2. UNION {In(m) : m \in LogsFrom(3)} = {}
    BY <2>1
  <2>. QED
    BY <1>1, <1>4, <1>5, <2>2 DEF All, OnDisk
<1>12. DiskTypes
  <2>1. /\ logs[3] = [records |-> logs[3].records, durable |-> logs[3].durable]
        /\ logs[3].records \in Seq(SUBSET Entries)
        /\ logs[3].durable \in 0 .. Len(logs[3].records)
    BY <1>6
  <2>2. DOMAIN manifests = {2} /\ manifests[2] = [edits |-> <<e>>, durable |-> 1]
    BY <1>2
  <2>3. /\ manifests[2] = [edits |-> manifests[2].edits, durable |-> manifests[2].durable]
        /\ manifests[2].edits \in Seq(Edits)
        /\ manifests[2].durable \in 1 .. Len(manifests[2].edits)
    BY <1>1, <2>2
  <2>4. DOMAIN tables = {}
    BY <1>2
  <2>. QED
    BY <1>2, <1>6, <2>1, <2>2, <2>3, <2>4 DEF DiskTypes
<1>13. CallTypes
  <2>1. writers \in Seq(Ids) /\ leader.group \in Seq(Entries) /\ calls \in 0 .. MaxWrites
    BY <1>2, <1>8, BoundsAssumption
  <2>. QED
    BY <1>2, <1>8, <2>1 DEF CallTypes
<1>14. MemoryTypes
  <2>1. version \in Versions
    BY <1>2 DEF NoTables, Versions
  <2>. QED
    BY <1>2, <1>8, <2>1 DEF MemoryTypes
<1>15. WorkTypes
  <2>1. compaction = [inputs |-> NoTables, merged |-> {}, outputs |-> {}, open |-> 0]
    BY <1>2 DEF NoCompaction
  <2>2. /\ compaction = [inputs |-> compaction.inputs, merged |-> compaction.merged,
                         outputs |-> compaction.outputs, open |-> compaction.open]
        /\ compaction.inputs = NoTables /\ compaction.merged = {}
        /\ compaction.outputs = {} /\ compaction.open = 0
    BY <2>1
  <2>3. NoTables \in Versions
    BY DEF NoTables, Versions
  <2>. QED
    BY <1>2, <1>9, <2>2, <2>3 DEF WorkTypes
<1>16. OtherTypes
  <2>1. errors \in 0 .. MaxErrors /\ crashes \in 0 .. MaxCrashes
    BY <1>2, BoundsAssumption
  <2>. QED
    BY <1>2, <1>3, <2>1 DEF OtherTypes
<1>17. DiskInv
  <2>1. Readable(Ver(1), E[1].next, E[1].seq)
    BY <1>5 DEF Readable
  <2>. QED
    BY <1>1, <1>2, <1>4, <1>11, <2>1 DEF DiskInv
<1>18. OrderInv
  BY <1>2, <1>11 DEF OrderInv
<1>19. QueueInv /\ FreshInv
  BY <1>2, <1>8, <1>11 DEF QueueInv, FreshInv
<1>20. LogInv
  <2>1. {In(m) : m \in LogsFrom(3) \ {3}} = {}
    BY <1>10
  <2>2. UNION {In(m) : m \in LogsFrom(logNumber) \ {logfileNumber}} = {}
    BY <1>2, <2>1
  <2>3. In(logfileNumber) = {}
    BY <1>2, <1>7
  <2>. QED
    BY <1>2, <1>6, <1>8, <2>2, <2>3 DEF LogInv
<1>21. ReadInv
  BY <1>2, <1>5, <1>8 DEF ReadInv, Readable
<1>22. VersionInv
  BY <1>1, <1>2, <1>4, <1>5, <1>9 DEF VersionInv, Noted
<1>23. WorkInv /\ ReaderInv
  <2>1. ~Compacting
    BY <1>2 DEF Compacting
  <2>. QED
    BY <1>2, <1>9, <2>1 DEF WorkInv, ThreadInv, CompactionInv, ReaderInv
<1>. QED
  BY <1>2, <1>12, <1>13, <1>14, <1>15, <1>16, <1>17, <1>18, <1>19, <1>20, <1>21, <1>22, <1>23
     DEF Inv, Types, OpenInv

\* A leader or a background thread is at work only in an open database.
LEMMA WorksWhenOpen ==
  ASSUME Inv, phase # "open"
  PROVE  ~Leader /\ ~Background
<1>1. leader = Idle /\ bg = NoWork
  BY DEF Inv, Lost
<1>2. leader.phase = "none" /\ bg.phase = "none"
  BY <1>1 DEF Idle, NoWork
<1>3. ~Leader
  BY <1>2 DEF Leader, Lead, Running, WaitForRoom, SwitchMemTable, BuildBatchGroup, NoRoom, AppendLog,
              SyncLog, InsertIntoMemTable, FinishGroup
<1>4. ~Background
  BY <1>2 DEF Background, FlushFirst, PickCompaction, MoveTable, Picks, Begins, NoWorkLeft, Running,
              BuildTable, OpenOutput, FinishOutput, FlushBetweenKeys, InstallCompactionResults,
              BuildFails, WriteManifest, ManifestFails, InstallMemTable, InstallCompaction, Installs
<1>. QED
  BY <1>3, <1>4

LEMMA NextKeeps ==
  ASSUME Inv, [Next]_vars
  PROVE  Inv'
<1>1. ASSUME NEW k \in Kinds, Call(k) PROVE Inv'
  BY <1>1, CallKeeps
<1>2. CASE Leader
  <2>1. phase = "open"
    BY <1>2, WorksWhenOpen
  <2>2. ASSUME NEW ok \in BOOLEAN, AppendLog(ok) \/ SyncLog(ok) PROVE Inv'
    BY <2>1, <2>2, AppendLogKeeps, SyncLogKeeps
  <2>. QED
    BY <1>2, <2>1, <2>2, LeadKeeps, WaitForRoomKeeps, SwitchMemTableKeeps, BuildBatchGroupKeeps,
       NoRoomKeeps, InsertIntoMemTableKeeps, FinishGroupKeeps DEF Leader
<1>3. CASE Background
  <2>1. phase = "open"
    BY <1>3, WorksWhenOpen
  <2>2. CASE FlushFirst \/ FlushBetweenKeys
    BY <2>1, <2>2, CompactMemTableKeeps DEF FlushFirst, Begins, FlushBetweenKeys
  <2>. QED
    BY <1>3, <2>1, <2>2, PickCompactionKeeps, MoveTableKeeps, NoWorkLeftKeeps, BuildTableKeeps,
       OpenOutputKeeps, FinishOutputKeeps, InstallCompactionResultsKeeps, BuildFailsKeeps,
       WriteManifestKeeps, ManifestFailsKeeps, InstallMemTableKeeps, InstallCompactionKeeps
       DEF Background
<1>4. ASSUME NEW i \in Ids, FlushReturns(i) PROVE Inv'
  BY <1>4, FlushReturnsKeeps
<1>5. CASE Get \/ GetEnds
  BY <1>5, GetKeeps, GetEndsKeeps
<1>6. CASE ProcessFails \/ MachineFails
  BY <1>6, ProcessFailsKeeps, MachineFailsKeeps
<1>7. CASE Open
  BY <1>7, RecoverKeeps, ReplayLogKeeps, OpenLogKeeps, OpenManifestKeeps, SetCurrentFileKeeps,
     OpenedKeeps DEF Open
<1>8. CASE UNCHANGED vars
  BY <1>8, StutterKeeps
<1>. QED
  BY <1>1, <1>2, <1>3, <1>4, <1>5, <1>6, <1>7, <1>8 DEF Next

THEOREM Invariant == Spec => []Inv
<1>1. Init => Inv
  BY InitIs
<1>2. Inv /\ [Next]_vars => Inv'
  BY NextKeeps
<1>. QED
  BY <1>1, <1>2, PTL DEF Spec

-----------------------------------------------------------------------------
(***************************************************************************)
(* What the database promises.                                             *)
(***************************************************************************)

LEMMA MemOnDisk ==
  ASSUME Inv
  PROVE  mem \subseteq OnDisk /\ Recoverable = OnDisk
<1>1. Recoverable = OnDisk
  BY RecoverableIs DEF Inv, Types
<1>2. CASE phase = "open"
  <2>1. mem \subseteq In(logfileNumber)
    BY <1>2 DEF Inv, OpenInv, LogInv
  <2>2. In(logfileNumber) \subseteq OnDisk
    BY <1>2, OpenOnDisk DEF Inv, Types, OpenInv
  <2>. QED
    BY <1>1, <2>1, <2>2
<1>3. CASE phase # "open"
  BY <1>1, <1>3 DEF Inv, Lost
<1>. QED
  BY <1>2, <1>3

LEMMA TypesHold ==
  ASSUME Inv
  PROVE  TypeOK
<1>1. Types
  BY DEF Inv
<1>2. Range(leader.group) \subseteq Entries
  BY <1>1, GroupIs DEF Types, Group
<1>3. UNION Range(tables) \subseteq Entries
  BY <1>1 DEF Types, DiskTypes, Range
<1>4. unreplayed \subseteq DOMAIN logs
  <2>1. CASE phase \in {"open", "closed"}
    BY <2>1 DEF Inv
  <2>2. CASE phase \notin {"open", "closed"}
    BY <2>2 DEF Inv, Replayed, LogsFrom
  <2>. QED
    BY <2>1, <2>2
<1>5. {scheduled, bgError} \subseteq BOOLEAN
  BY <1>1 DEF Types, OtherTypes
<1>6. /\ \A n \in DOMAIN logs : logs[n].durable \in 0 .. Len(logs[n].records)
      /\ \A n \in DOMAIN manifests : manifests[n].durable \in 1 .. Len(manifests[n].edits)
      /\ current \in DOMAIN manifests
  BY <1>1 DEF Types, DiskTypes
<1>7. /\ mem \subseteq Entries /\ UNION imm \subseteq Entries /\ imm \in {{}, {UNION imm}}
      /\ {logfileNumber, lastSequence, logNumber, nextFile, manifestNumber} \subseteq Nat
      /\ version \in [level0 : SUBSET Nat, base : SUBSET Nat]
  BY <1>1 DEF Types, MemoryTypes, Imm, Versions
<1>8. /\ calls \in 0 .. MaxWrites /\ kind \in [Ids -> Kinds \cup {"none"}]
      /\ writers \in Seq(Ids)
      /\ leader.phase \in {"none", "room", "wait", "append", "sync", "insert", "finish"}
      /\ leader.taken \in 0 .. Len(writers)
  BY <1>1 DEF Types, CallTypes
<1>9. /\ bg.phase \in {"none", "build", "merge", "manifest", "install"}
      /\ bg.edit = None \/ bg.edit \in Edits
      /\ compaction.outputs \subseteq Nat /\ compaction.open \in compaction.outputs \cup {0}
      /\ damage \in {"none", "tail", "spoiled"}
  BY <1>1 DEF Types, WorkTypes
<1>10. /\ result \in [Ids -> {"none", "pending", "waiting", "ok", "error", "lost"}]
       /\ \A i \in Ids : before[i] \subseteq Entries
       /\ pendingOutputs \subseteq Nat
       /\ phase \in {"open", "closed", "replaying", "logged", "described", "current"}
       /\ errors \in 0 .. MaxErrors /\ crashes \in 0 .. MaxCrashes
  BY <1>1 DEF Types, OtherTypes
<1>11. acknowledged \subseteq Entries /\ synced \subseteq Entries
  <2>1. OnDisk \subseteq Entries
    BY OnDiskEntries DEF Inv, Types
  <2>. QED
    BY <2>1 DEF Inv, OrderInv
<1>. QED
  BY <1>2, <1>3, <1>4, <1>5, <1>6, <1>7, <1>8, <1>9, <1>10, <1>11 DEF TypeOK

\* What a failure of the machine leaves at least.
LEMMA SurvivorsAre ==
  ASSUME DiskTypes, DiskInv, NEW k \in Kept
  PROVE  /\ Survivors(SubSeq(E, 1, k), DurableRecords) = Least(k)
         /\ TablesOf(Ver(k)) \subseteq DOMAIN tables
<1>1. E \in Seq(Edits) /\ k \in 1 .. Len(E) /\ Len(E) \in Nat
  BY ManifestIs
<1>2. SubSeq(E, 1, k) \in Seq(Edits) /\ Len(SubSeq(E, 1, k)) = k /\ SubSeq(E, 1, k)[k] = E[k]
  <2>1. k \in 0 .. Len(E) /\ k \in 1 .. k
    BY <1>1
  <2>. QED
    BY <1>1, <2>1, PrefixIs
<1>. PICK v : v = Ver(k)
  OBVIOUS
<1>. PICK es : es = SubSeq(E, 1, k)
  OBVIOUS
<1>. PICK l : l = E[k].log
  OBVIOUS
<1>3. Last(es).log = l /\ VersionOf(es) = v
  BY <1>2 DEF Last, Ver
<1>4. TablesOf(v) \subseteq DOMAIN tables
  BY DEF DiskInv, Readable
<1>5. TablesOf(v) \cap DOMAIN tables = TablesOf(v)
  BY <1>4
<1>6. ASSUME NEW m \in DOMAIN logs
      PROVE  UNION Range(SubSeq(logs[m].records, 1, DurableRecords[m])) = DurableIn(m)
  BY DEF DurableRecords, DurableIn
<1>7. LogsOf(es) = LogsFrom(l) /\ LogsFrom(l) \subseteq DOMAIN logs
  BY <1>3 DEF LogsOf, LogsFrom
<1>8. {UNION Range(SubSeq(logs[m].records, 1, DurableRecords[m])) : m \in LogsOf(es)}
        = {DurableIn(m) : m \in LogsFrom(l)}
  BY <1>6, <1>7
<1>9. Survivors(es, DurableRecords)
        = UNION ({tables[m] : m \in TablesOf(v)} \cup {DurableIn(m) : m \in LogsFrom(l)})
  BY <1>3, <1>5, <1>8 DEF Survivors
<1>10. UNION ({tables[m] : m \in TablesOf(v)} \cup {DurableIn(m) : m \in LogsFrom(l)})
         = (UNION {tables[m] : m \in TablesOf(v)}) \cup (UNION {DurableIn(m) : m \in LogsFrom(l)})
  BY UnionOfBoth
<1>. QED
  BY <1>4, <1>9, <1>10 DEF Least, EntriesOf

LEMMA RecoverableAlways ==
  ASSUME Inv
  PROVE  AlwaysRecoverable
<1>1. DiskTypes /\ DiskInv /\ OrderInv
  BY DEF Inv, Types
<1>2. acknowledged \subseteq Recoverable
  BY <1>1, MemOnDisk DEF OrderInv
<1>3. ASSUME NEW k \in Kept
      PROVE  /\ synced \subseteq Survivors(SubSeq(E, 1, k), DurableRecords)
             /\ TablesOf(VersionOf(SubSeq(E, 1, k))) \subseteq DOMAIN tables
  <2>1. synced \subseteq Least(k)
    BY <1>1 DEF DiskInv
  <2>. QED
    BY <1>1, <2>1, SurvivorsAre DEF Ver
<1>. QED
  BY <1>2, <1>3 DEF AlwaysRecoverable, Kept, E, Synced

LEMMA OrderAlways ==
  ASSUME Inv
  PROVE  SequenceOrder
<1>1. Types /\ OrderInv
  BY DEF Inv
<1>2. Recoverable \cup mem = OnDisk
  BY MemOnDisk
<1>3. ASSUME phase = "open", NEW e \in OnDisk
      PROVE  e.seq <= lastSequence + Len(leader.group)
  <2>1. OpenInv /\ CallTypes /\ lastSequence \in Nat
    BY <1>1, <1>3 DEF Inv, Types, MemoryTypes
  <2>2. /\ Len(leader.group) \in Nat
        /\ Group = {leader.group[k] : k \in 1 .. Len(leader.group)}
    BY <2>1, GroupIs
  <2>3. OnDisk \subseteq Entries
    BY OnDiskEntries DEF Inv, Types
  <2>4. e.seq \in Nat
    BY <2>3, <1>3 DEF Entries
  <2>5. CASE e.seq <= lastSequence
    BY <2>1, <2>2, <2>4, <2>5
  <2>6. CASE e \in Group
    <3>1. PICK k \in 1 .. Len(leader.group) : e = leader.group[k]
      BY <2>2, <2>6
    <3>2. e.seq = lastSequence + k
      BY <2>1, <3>1 DEF OpenInv, QueueInv
    <3>. QED
      BY <2>1, <2>2, <3>2
  <2>. QED
    BY <1>3, <2>1, <2>5, <2>6 DEF OpenInv, FreshInv
<1>. QED
  BY <1>1, <1>2, <1>3 DEF SequenceOrder, OrderInv

\* At every step, also in the middle of a flush, a deletion or a recovery, what
\* is on the disk is enough, and sequence numbers follow the order of the calls.
THEOREM AlwaysExact == Spec => []DBExact
<1>1. Inv => DBExact
  BY TypesHold, RecoverableAlways, OrderAlways DEF DBExact
<1>. QED
  BY <1>1, Invariant, PTL

\* A reader finds exactly the writes acknowledged when it started, and its tables
\* are not deleted under it.
THEOREM AlwaysSnapshot == Spec => []ReadsSnapshot
<1>1. Inv => ReadsSnapshot
  BY DEF Inv, OpenInv, ReaderInv, ReadsSnapshot, Lost
<1>. QED
  BY <1>1, Invariant, PTL

-----------------------------------------------------------------------------
(***************************************************************************)
(* DBImpl implements DurableStore.                                         *)
(***************************************************************************)

\* What DurableStore sees of DBImpl.
Issued == {i \in Ids : kind[i] # "none"}
Visible == IdsOf(IF phase = "open" THEN acknowledged ELSE Recoverable)

LEMMA IdsGrow ==
  ASSUME NEW A, NEW B, A \subseteq B
  PROVE  IdsOf(A) \subseteq IdsOf(B)
BY DEF IdsOf

\* Whatever is visible was issued and includes what was acknowledged.
LEMMA VisibleIs ==
  Inv => /\ Visible = (IF phase = "open" THEN IdsOf(acknowledged) ELSE IdsOf(OnDisk))
         /\ IdsOf(synced) \subseteq IdsOf(acknowledged)
         /\ IdsOf(acknowledged) \subseteq IdsOf(OnDisk)
         /\ IdsOf(acknowledged) \subseteq Visible
         /\ Visible \subseteq IdsOf(OnDisk)
         /\ IdsOf(OnDisk) \subseteq Issued
         /\ Visible \subseteq Issued
<1>. SUFFICES ASSUME Inv
              PROVE  /\ Visible = (IF phase = "open" THEN IdsOf(acknowledged) ELSE IdsOf(OnDisk))
                     /\ IdsOf(synced) \subseteq IdsOf(acknowledged)
                     /\ IdsOf(acknowledged) \subseteq IdsOf(OnDisk)
                     /\ IdsOf(acknowledged) \subseteq Visible
                     /\ Visible \subseteq IdsOf(OnDisk)
                     /\ IdsOf(OnDisk) \subseteq Issued
                     /\ Visible \subseteq Issued
  OBVIOUS
<1>1. OrderInv /\ Recoverable = OnDisk /\ OnDisk \subseteq Entries
  BY MemOnDisk, OnDiskEntries DEF Inv, Types
<1>2. Visible = (IF phase = "open" THEN IdsOf(acknowledged) ELSE IdsOf(OnDisk))
  BY <1>1 DEF Visible
<1>3. IdsOf(synced) \subseteq IdsOf(acknowledged) /\ IdsOf(acknowledged) \subseteq IdsOf(OnDisk)
  BY <1>1, IdsGrow DEF OrderInv
<1>4. IdsOf(OnDisk) \subseteq Issued
  <2>1. ASSUME NEW e \in OnDisk PROVE e.id \in Issued
    <3>1. e.id \in Ids /\ e.id <= calls /\ calls \in Nat
      BY <1>1, BoundsAssumption DEF OrderInv, Entries, Inv, Types, CallTypes
    <3>2. e.id \in 1 .. calls
      BY <3>1, BoundsAssumption DEF Ids
    <3>. QED
      BY <1>1, <3>1, <3>2 DEF OrderInv, Issued
  <2>. QED
    BY <2>1 DEF IdsOf
<1>. QED
  BY <1>2, <1>3, <1>4

\* A step that tells callers nothing, and loses nothing, is a stutter ...
LEMMA QuietStep ==
  ASSUME UNCHANGED <<kind, phase, acknowledged, synced>>, phase = "open"
  PROVE  UNCHANGED <<Issued, Visible, IdsOf(acknowledged), IdsOf(synced)>>
BY DEF Issued, Visible, IdsOf

\* ... and one while the database is closed at most recovers more.
LEMMA ClosedStep ==
  ASSUME Inv, Inv', UNCHANGED <<kind, acknowledged, synced>>
  PROVE  Store!ProcessFails
<1>1. (Inv => IdsOf(acknowledged) \subseteq Visible /\ Visible \subseteq Issued)'
  BY VisibleIs, PTL
<1>2. /\ Issued' = Issued /\ IdsOf(acknowledged)' = IdsOf(acknowledged)
      /\ IdsOf(synced)' = IdsOf(synced)
  BY DEF Issued, IdsOf
<1>. QED
  BY <1>1, <1>2 DEF Store!ProcessFails, Issued, Visible

\* A caller's write is issued.
LEMMA CallImplements ==
  ASSUME Inv, NEW k \in Kinds, Call(k)
  PROVE  [Store!DSNext]_(Store!dsVars)
<1>. PICK i : i = calls + 1
  OBVIOUS
<1>1. /\ phase = "open" /\ UNCHANGED <<phase, acknowledged, synced>> /\ calls < MaxWrites
      /\ kind' = [kind EXCEPT ![i] = k]
  BY DEF Call, Running, history
<1>2. i \in Ids /\ kind \in [Ids -> Kinds \cup {"none"}] /\ k # "none"
  <2>1. calls \in 0 .. MaxWrites /\ kind \in [Ids -> Kinds \cup {"none"}]
    BY DEF Inv, Types, CallTypes
  <2>. QED
    BY <1>1, <2>1, BoundsAssumption DEF Ids, Kinds
<1>3. Issued' = Issued \cup {i}
  BY <1>1, <1>2 DEF Issued
<1>4. UNCHANGED <<Visible, IdsOf(acknowledged), IdsOf(synced)>>
  BY <1>1 DEF Visible, IdsOf
<1>5. CASE i \in Issued
  <2>1. Issued' = Issued
    BY <1>3, <1>5
  <2>. QED
    BY <1>4, <2>1 DEF Store!dsVars, Issued, Visible
<1>6. CASE i \notin Issued
  <2>1. Store!Issue(i)
    BY <1>2, <1>3, <1>4, <1>6 DEF Store!Issue, Issued, Visible
  <2>. QED
    BY <1>2, <2>1 DEF Store!DSNext
<1>. QED
  BY <1>5, <1>6

\* A group is reported: writes are committed.
LEMMA FinishGroupImplements ==
  ASSUME Inv, Inv', phase = "open", FinishGroup
  PROVE  Store!Commit
<1>1. UNCHANGED <<kind, phase>> /\ acknowledged \subseteq acknowledged' /\ synced \subseteq synced'
  BY DEF FinishGroup
<1>2. Inv => Visible = (IF phase = "open" THEN IdsOf(acknowledged) ELSE IdsOf(OnDisk))
  BY VisibleIs
<1>3. (Inv => /\ Visible = (IF phase = "open" THEN IdsOf(acknowledged) ELSE IdsOf(OnDisk))
              /\ IdsOf(synced) \subseteq IdsOf(acknowledged)
              /\ Visible \subseteq Issued)'
  BY VisibleIs, PTL
<1>4. IdsOf(acknowledged) \subseteq IdsOf(acknowledged') /\ IdsOf(synced) \subseteq IdsOf(synced')
  BY <1>1, IdsGrow
<1>5. Issued' = Issued
  BY <1>1 DEF Issued
<1>6. Visible = IdsOf(acknowledged) /\ Visible' = IdsOf(acknowledged)'
  BY <1>1, <1>2, <1>3
<1>7. IdsOf(acknowledged)' = IdsOf(acknowledged') /\ IdsOf(synced)' = IdsOf(synced')
  BY DEF IdsOf
<1>8. /\ Visible \subseteq Visible' /\ Visible' \subseteq Issued
      /\ IdsOf(acknowledged) \subseteq IdsOf(acknowledged)' /\ IdsOf(acknowledged)' \subseteq Visible'
      /\ IdsOf(synced) \subseteq IdsOf(synced)' /\ IdsOf(synced)' \subseteq IdsOf(acknowledged)'
      /\ UNCHANGED Issued
  BY <1>3, <1>4, <1>5, <1>6, <1>7
<1>. QED
  BY <1>8 DEF Store!Commit, Issued, Visible

\* Once open, what is on the disk counts as acknowledged.
LEMMA OpenedImplements ==
  ASSUME Inv, Inv', Opened
  PROVE  Store!Commit
<1>1. /\ phase = "current" /\ phase' = "open" /\ acknowledged' = EntriesOf(version)
      /\ UNCHANGED <<kind, synced>>
  BY DEF Opened, callers
<1>2. acknowledged' = OnDisk
  BY <1>1 DEF Inv, Replayed, OnDisk, All
<1>3. /\ Visible = IdsOf(OnDisk) /\ IdsOf(acknowledged) \subseteq IdsOf(OnDisk)
  BY <1>1, VisibleIs
<1>4. (Inv => /\ Visible = (IF phase = "open" THEN IdsOf(acknowledged) ELSE IdsOf(OnDisk))
              /\ IdsOf(synced) \subseteq IdsOf(acknowledged)
              /\ Visible \subseteq Issued)'
  BY VisibleIs, PTL
<1>5. Issued' = Issued /\ IdsOf(synced)' = IdsOf(synced)
  BY <1>1 DEF Issued, IdsOf
<1>6. IdsOf(acknowledged)' = IdsOf(acknowledged')
  BY DEF IdsOf
<1>7. IdsOf(acknowledged)' = IdsOf(OnDisk)
  BY <1>2, <1>6
<1>8. /\ Visible \subseteq Visible' /\ Visible' \subseteq Issued
      /\ IdsOf(acknowledged) \subseteq IdsOf(acknowledged)' /\ IdsOf(acknowledged)' \subseteq Visible'
      /\ IdsOf(synced) \subseteq IdsOf(synced)' /\ IdsOf(synced)' \subseteq IdsOf(acknowledged)'
      /\ UNCHANGED Issued
  BY <1>1, <1>3, <1>4, <1>5, <1>7
<1>. QED
  BY <1>8 DEF Store!Commit, Issued, Visible

\* The machine fails: of what was acknowledged only what is still found counts.
LEMMA MachineFailsImplements ==
  ASSUME Inv, Inv', MachineFails
  PROVE  Store!MachineFails
<1>1. UNCHANGED <<kind, synced>> /\ phase' = "closed"
  BY DEF MachineFails, Lose
<1>2. OnDisk' \subseteq OnDisk /\ acknowledged' = acknowledged \cap OnDisk'
  BY MachineLeaves
<1>3. (Inv => /\ Visible = (IF phase = "open" THEN IdsOf(acknowledged) ELSE IdsOf(OnDisk))
              /\ IdsOf(synced) \subseteq IdsOf(acknowledged)
              /\ IdsOf(acknowledged) \subseteq Visible
              /\ Visible \subseteq Issued)'
  BY VisibleIs, PTL
<1>4. Issued' = Issued /\ IdsOf(synced)' = IdsOf(synced)
  BY <1>1 DEF Issued, IdsOf
<1>. PICK D : D = OnDisk'
  OBVIOUS
<1>5. IdsOf(acknowledged)' = IdsOf(acknowledged \cap D) /\ IdsOf(OnDisk)' = IdsOf(D)
  BY <1>2 DEF IdsOf
<1>6. IdsOf(acknowledged \cap D) = IdsOf(acknowledged) \cap IdsOf(D)
  <2>1. \A e, f \in OnDisk : e.id = f.id => e = f
    BY DEF Inv, OrderInv
  <2>2. acknowledged \subseteq OnDisk /\ D \subseteq OnDisk
    BY <1>2 DEF Inv, OrderInv
  <2>3. ASSUME NEW i \in IdsOf(acknowledged) \cap IdsOf(D)
        PROVE  i \in IdsOf(acknowledged \cap D)
    <3>1. PICK e \in acknowledged, f \in D : e.id = i /\ f.id = i
      BY <2>3 DEF IdsOf
    <3>2. e = f
      BY <2>1, <2>2, <3>1
    <3>3. e \in acknowledged \cap D
      BY <3>1, <3>2
    <3>. QED
      BY <3>1, <3>3 DEF IdsOf
  <2>4. IdsOf(acknowledged \cap D) \subseteq IdsOf(acknowledged) \cap IdsOf(D)
    BY DEF IdsOf
  <2>. QED
    BY <2>3, <2>4
<1>7. Visible' = IdsOf(D)
  BY <1>1, <1>3, <1>5
<1>8. /\ IdsOf(synced) \subseteq Visible' /\ Visible' \subseteq Issued
      /\ IdsOf(acknowledged)' = IdsOf(acknowledged) \cap Visible'
      /\ UNCHANGED <<Issued, IdsOf(synced)>>
  BY <1>3, <1>4, <1>5, <1>6, <1>7
<1>. QED
  BY <1>8 DEF Store!MachineFails, Issued, Visible

LEMMA StepImplements ==
  ASSUME Inv, Inv', [Next]_vars
  PROVE  [Store!DSNext]_(Store!dsVars)
<1>. DEFINE Quiet == UNCHANGED <<kind, phase, acknowledged, synced>>
<1>1. ASSUME phase = "open", Quiet
      PROVE  UNCHANGED Store!dsVars
  BY <1>1, QuietStep DEF Store!dsVars, Issued, Visible
<1>2. ASSUME phase # "open", UNCHANGED <<kind, acknowledged, synced>>
      PROVE  Store!DSNext
  BY <1>2, ClosedStep DEF Store!DSNext
<1>3. ASSUME NEW k \in Kinds, Call(k) PROVE [Store!DSNext]_(Store!dsVars)
  BY <1>3, CallImplements
<1>4. CASE Leader
  <2>1. phase = "open"
    BY <1>4, WorksWhenOpen
  <2>2. CASE FinishGroup
    BY <2>1, <2>2, FinishGroupImplements DEF Store!DSNext
  <2>3. CASE ~FinishGroup
    <3>1. Quiet
      BY <1>4, <2>3 DEF Leader, Lead, WaitForRoom, SwitchMemTable, BuildBatchGroup, NoRoom, AppendLog,
                        SyncLog, InsertIntoMemTable, history, callers
    <3>. QED
      BY <1>1, <2>1, <3>1
  <2>. QED
    BY <2>2, <2>3
<1>5. CASE Background
  <2>1. phase = "open"
    BY <1>5, WorksWhenOpen
  <2>2. Quiet
    BY <1>5 DEF Background, FlushFirst, FlushBetweenKeys, CompactMemTable, PickCompaction, MoveTable,
                NoWorkLeft, BuildTable, OpenOutput, FinishOutput, InstallCompactionResults, BuildFails,
                WriteManifest, ManifestFails, InstallMemTable, InstallCompaction, Installs, history,
                callers
  <2>. QED
    BY <1>1, <2>1, <2>2
<1>6. CASE (\E i \in Ids : FlushReturns(i)) \/ Get \/ GetEnds \/ UNCHANGED vars
  <2>1. Quiet
    BY <1>6 DEF FlushReturns, Get, GetEnds, vars, history, callers
  <2>. QED
    BY <1>1, <1>2, <2>1
<1>7. CASE ProcessFails
  <2>1. UNCHANGED <<kind, acknowledged, synced>>
    BY <1>7 DEF ProcessFails, Lose
  <2>. QED
    BY <2>1, ClosedStep DEF Store!DSNext
<1>8. CASE MachineFails
  BY <1>8, MachineFailsImplements DEF Store!DSNext
<1>9. CASE Opened
  BY <1>9, OpenedImplements DEF Store!DSNext
<1>10. CASE Open /\ ~Opened
  <2>1. UNCHANGED <<kind, acknowledged, synced>>
    BY <1>10 DEF Open, Recover, ReplayLog, Replay, OpenLog, OpenManifest, SetCurrentFile, callers
  <2>. QED
    BY <2>1, ClosedStep DEF Store!DSNext
<1>. QED
  BY <1>3, <1>4, <1>5, <1>6, <1>7, <1>8, <1>9, <1>10 DEF Next

\* The database keeps the promise of options.h: whatever fails and whenever, what
\* was acknowledged outlives the process, and what was synced the machine.
THEOREM Implements == Spec => StoreSpec
<1>1. Init => Store!DSInit
  BY DEF Init, Store!DSInit, IdsOf
<1>2. Inv /\ Inv' /\ [Next]_vars => [Store!DSNext]_(Store!dsVars)
  BY StepImplements
<1>. QED
  BY <1>1, <1>2, Invariant, PTL DEF Spec, StoreSpec, Store!DSSpec
=============================================================================
