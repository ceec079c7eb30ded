----------------------------- MODULE VersionSet -----------------------------
(***************************************************************************)
(* LevelDB's levels of tables (db/version_set.cc) and the background       *)
(* thread that flushes and compacts them (db/db_impl.cc).  An entry is an  *)
(* internal key: a user key, a sequence number and whether it deletes; the *)
(* sequence number also stands for the value.  A table is a file number    *)
(* and a set of entries, its size the number of them.  Files, the MANIFEST *)
(* and crashes are in DBImpl; here every step of the background thread     *)
(* that holds the mutex is one action.                                     *)
(***************************************************************************)
EXTENDS Integers, FiniteSets, FiniteSetsExt

CONSTANTS
  MaxKey,              \* user keys are 1 .. MaxKey
  MaxSeq,              \* bound: writes
  MaxSnapshots,        \* bound: snapshots held at a time
  Deletes,             \* whether the client deletes
  Ranges,              \* the ranges <<begin, end>> a client compacts by hand
  NumLevels,           \* config::kNumLevels
  MaxMemCompactLevel,  \* config::kMaxMemCompactLevel
  L0Trigger,           \* config::kL0_CompactionTrigger
  LevelLimit,          \* MaxBytesForLevel of every level above 0, in entries
  MaxFileSize,         \* Options::max_file_size, in entries
  MaxOverlap,          \* MaxGrandParentOverlapBytes, in entries
  ExpandLimit,         \* ExpandedCompactionByteSizeLimit, in entries
  None

ASSUME SizesAssumption ==
  /\ {MaxKey, MaxSeq, MaxSnapshots, MaxMemCompactLevel, MaxOverlap, ExpandLimit} \subseteq Nat
  /\ {NumLevels, L0Trigger, LevelLimit, MaxFileSize} \subseteq Nat \ {0}
  /\ MaxMemCompactLevel < NumLevels - 1
  /\ Ranges \subseteq (0 .. MaxKey + 1) \X (0 .. MaxKey + 1)
  /\ Deletes \in BOOLEAN

VARIABLES
  written,        \* every entry ever written
  mem, imm,       \* mem_ and imm_; imm_ == nullptr is {}
  snapshots,      \* sequence numbers of snapshots_
  levels,         \* versions_->current()->files_
  nextFile,       \* next_file_number_
  compactPointer, \* compact_pointer_: an internal key or None
  fileToCompact,  \* file_to_compact_ and its level, or None
  compaction,     \* the compaction under way, or None
  manual          \* the CompactRange call of a client, or None

vars == <<written, mem, imm, snapshots, levels, nextFile, compactPointer,
          fileToCompact, compaction, manual>>

Keys == 1 .. MaxKey
Levels == 0 .. NumLevels - 1
LastSequence == Cardinality(written)

-----------------------------------------------------------------------------
\* Internal keys and tables

\* InternalKeyComparator: user keys up, sequence numbers down.
Before(a, b) == a.key < b.key \/ (a.key = b.key /\ a.seq > b.seq)
Smallest(f) == CHOOSE e \in f.entries : \A x \in f.entries : ~Before(x, e)
Largest(f) == CHOOSE e \in f.entries : \A x \in f.entries : ~Before(e, x)

\* An entry is in one table, so that the tables are as large as their union.
TotalFileSize(fs) == Cardinality(UNION {f.entries : f \in fs})

\* The order of Version::files_ (Builder::BySmallestKey).
Comes(f, g) == \/ Before(Smallest(f), Smallest(g))
               \/ Smallest(f) = Smallest(g) /\ f.number < g.number
FirstOf(fs) == CHOOSE f \in fs : \A g \in fs : ~Comes(g, f)
LastOf(fs) == CHOOSE f \in fs : \A g \in fs : ~Comes(f, g)

\* GetRange: the least and the greatest internal key of some files.
RangeOf(fs) == [smallest |-> Smallest([entries |-> {Smallest(f) : f \in fs}]),
                largest  |-> Largest([entries |-> {Largest(f) : f \in fs}])]

\* What a search that follows the pairs of R in fs from the files of a set finds.
Reached(fs, found, R) ==
  {f \in fs : \A s \in SUBSET fs :
     found \subseteq s /\ (\A p \in R : p[1] \in s => p[2] \in s) => f \in s}

\* Files whose user keys meet b .. e; 0 and MaxKey + 1 are the null ends.
Meets(f, b, e) == Smallest(f).key <= e /\ Largest(f).key >= b
Overlapping(fs, b, e) == {f \in fs : Meets(f, b, e)}
Touching(fs) ==
  {p \in fs \X fs : Meets(p[1], Smallest(p[2]).key, Largest(p[2]).key)}

\* GetOverlappingInputs: at level 0 an overlapping file widens the range.
GetOverlappingInputs(level, b, e) ==
  LET fs == levels[level]
  IN IF level = 0 THEN Reached(fs, Overlapping(fs, b, e), Touching(fs))
     ELSE Overlapping(fs, b, e)
OverlappingRange(level, r) == GetOverlappingInputs(level, r.smallest.key, r.largest.key)

\* AddBoundaryInputs: from the largest key on, the next file that starts in
\* the same user key comes along, and so on from its own largest key.
LastKey(fs) == Largest([entries |-> {Largest(f) : f \in fs}])
BoundaryFiles(fs, last) ==
  {f \in fs : Before(last, Smallest(f)) /\ Smallest(f).key = last.key}
NextBoundary(fs, last) ==
  {f \in BoundaryFiles(fs, last) :
     \A g \in BoundaryFiles(fs, last) : ~Before(Smallest(g), Smallest(f))}
AddBoundaryInputs(level, inputs) ==
  LET fs == levels[level]
      next == {p \in fs \X fs : /\ ~Before(Largest(p[1]), LastKey(inputs))
                                /\ p[2] \in NextBoundary(fs, Largest(p[1]))}
  IN Reached(fs, inputs, next)

-----------------------------------------------------------------------------
\* Reads

\* The entries that a read of a user key at a sequence number may return, and
\* the result of the newest: the sequence number of its value, or None.
Hits(entries, k, s) == {e \in entries : e.key = k /\ e.seq <= s}
Newest(hits) == CHOOSE e \in hits : \A x \in hits : x.seq <= e.seq
Found(hits) == IF hits = {} \/ Newest(hits).del THEN None ELSE Newest(hits).seq

\* FindFile: the first file of a sorted level that may hold a key >= ikey.
Reaching(fs, ikey) == {f \in fs : ~Before(Largest(f), ikey)}
FilesAt(fs, ikey) ==
  {f \in Reaching(fs, ikey) : f = FirstOf(Reaching(fs, ikey)) /\ Smallest(f).key <= ikey.key}

\* ForEachOverlapping, and the files Version::Get visits, with their levels:
\* level 0 newest first, then at most one file of each level.
Visited(k, s) ==
  {0} \X Overlapping(levels[0], k, k)
  \cup UNION {{l} \X FilesAt(levels[l], [key |-> k, seq |-> s]) : l \in 1 .. NumLevels - 1}
Earlier(p, q) == \/ p[1] < q[1]
                 \/ p[1] = 0 /\ q[1] = 0 /\ p[2].number > q[2].number
FirstVisited(visited) == CHOOSE p \in visited : \A q \in visited : ~Earlier(q, p)

\* DBImpl::Get: the memtables, then the files, up to the first that has the
\* key at all.
HitsOf(visited, k, s) ==
  IF visited = {} THEN {} ELSE Hits(FirstVisited(visited)[2].entries, k, s)
FileHits(k, s) == HitsOf({p \in Visited(k, s) : Hits(p[2].entries, k, s) # {}}, k, s)
Get(k, s) ==
  IF Hits(mem, k, s) # {} THEN Found(Hits(mem, k, s))
  ELSE IF Hits(imm, k, s) # {} THEN Found(Hits(imm, k, s))
  ELSE Found(FileHits(k, s))

-----------------------------------------------------------------------------
\* Choosing compactions

\* Finalize: the first of the levels with the greatest score (here over a
\* common denominator), if that is at least 1.
Score(l) == IF l = 0 THEN Cardinality(levels[0]) * LevelLimit
            ELSE TotalFileSize(levels[l]) * L0Trigger
SizeLevel ==
  LET best == CHOOSE l \in 0 .. NumLevels - 2 : \A m \in 0 .. NumLevels - 2 :
                Score(m) <= Score(l) /\ (m < l => Score(m) < Score(l))
  IN IF Score(best) >= L0Trigger * LevelLimit THEN best ELSE None

Overlaps(level, b, e) == Overlapping(levels[level], b, e) # {}

\* Mutant: only the grandparents are looked at, not the level itself.
FitsLevelBySize(l, b, e) ==
  l + 1 < NumLevels => TotalFileSize(GetOverlappingInputs(l + 1, b, e)) <= MaxOverlap

\* PickLevelForMemTableOutput
FitsLevel(l, b, e) ==
  /\ ~Overlaps(l, b, e)
  /\ l + 1 < NumLevels => TotalFileSize(GetOverlappingInputs(l + 1, b, e)) <= MaxOverlap
OutputLevel(b, e) ==
  IF Overlaps(0, b, e) THEN 0
  ELSE Max({l \in 0 .. MaxMemCompactLevel : \A m \in 1 .. l : FitsLevel(m, b, e)})

\* SetupOtherInputs: boundary files, the overlapped files one level down,
\* and more files of the upper level where they cost no more of the lower.
Expands(inputs, expanded) ==
  /\ inputs[2] # {}
  /\ Cardinality(expanded[1]) > Cardinality(inputs[1])
  /\ TotalFileSize(inputs[2]) + TotalFileSize(expanded[1]) < ExpandLimit
  /\ Cardinality(expanded[2]) = Cardinality(inputs[2])
WithParents(level, fs) == <<fs, OverlappingRange(level + 1, RangeOf(fs))>>
Expanded(level, inputs) ==
  WithParents(level, AddBoundaryInputs(level,
                       OverlappingRange(level, RangeOf(inputs[1] \cup inputs[2]))))
Larger(inputs, expanded) == IF Expands(inputs, expanded) THEN expanded ELSE inputs
LargerInputs(level, inputs) == Larger(inputs, Expanded(level, inputs))
Compaction(level, inputs) ==
  [level |-> level, inputs0 |-> inputs[1], inputs1 |-> inputs[2],
   grandparents |-> IF level + 2 < NumLevels
                    THEN OverlappingRange(level + 2, RangeOf(inputs[1] \cup inputs[2]))
                    ELSE {}]
SetupOtherInputs(level, picked) ==
  Compaction(level, LargerInputs(level, WithParents(level, AddBoundaryInputs(level, picked))))
Pointer(c) == RangeOf(c.inputs0).largest

\* PickCompaction: by size, the first file after the compaction pointer,
\* round the key space; else the file that cost too many seeks.
After(fs, pointer) == {f \in fs : pointer = None \/ Before(pointer, Largest(f))}
FirstAfter(fs, pointer) ==
  FirstOf(IF After(fs, pointer) = {} THEN fs ELSE After(fs, pointer))
SizeFile(l) == [level |-> l, file |-> FirstAfter(levels[l], compactPointer[l])]
PickedFile == IF SizeLevel # None THEN SizeFile(SizeLevel) ELSE fileToCompact

\* Mutant: a level-0 file is compacted without the ones that overlap it.
FilesPickedAlone(p) == {p.file}

FilesPicked(p) == IF p.level = 0 THEN OverlappingRange(0, RangeOf({p.file})) ELSE {p.file}
CompactionOf(p) == SetupOtherInputs(p.level, FilesPicked(p))

\* VersionSet::CompactRange: above level 0 no more than one file's worth.
FirstRound(fs) == {f \in fs : TotalFileSize({g \in fs : Comes(g, f)}) < MaxFileSize}
ManualInputs(level, b, e) ==
  LET fs == GetOverlappingInputs(level, b, e)
  IN IF level = 0 THEN fs ELSE FirstRound(fs)

IsTrivialMove(c) == /\ Cardinality(c.inputs0) = 1 /\ c.inputs1 = {}
                    /\ TotalFileSize(c.grandparents) <= MaxOverlap

-----------------------------------------------------------------------------
\* DoCompactionWork

\* IsBaseLevelForKey, in the version the compaction started from.
IsBaseLevelForKey(c, k) ==
  \A l \in c.level + 2 .. NumLevels - 1 : Overlapping(c.version[l], k, k) = {}

\* What a compaction reads, and the entry it reads before one.
Merged(c) == UNION {f.entries : f \in c.inputs0 \cup c.inputs1}
Above(all, e) == {x \in all : Before(x, e)}
Previous(all, e) == IF Above(all, e) = {} THEN None ELSE Largest([entries |-> Above(all, e)])

\* Mutant: an entry is hidden by a newer one whatever snapshots are held.
DroppedBelowLatest(c, e, newer) ==
  \/ newer # None /\ newer.key = e.key
  \/ e.del /\ e.seq <= c.smallestSnapshot /\ IsBaseLevelForKey(c, e.key)

\* An entry hidden from every snapshot, or a deletion with nothing below it.
Dropped(c, e, newer) ==
  \/ newer # None /\ newer.key = e.key /\ newer.seq <= c.smallestSnapshot
  \/ e.del /\ e.seq <= c.smallestSnapshot /\ IsBaseLevelForKey(c, e.key)
Keep(c, all) == {e \in all : ~Dropped(c, e, Previous(all, e))}

\* ShouldStopBefore: the grandparents that end before an entry cost too much
\* since the last stop, or since the first entry.
Passed(c, e) == {g \in c.grandparents : Before(Largest(g), e)}
LastStop(all, stops, e) ==
  IF Above(stops, e) = {} THEN Smallest([entries |-> all]) ELSE Previous(stops, e)
Overlapped(c, e, stop) == TotalFileSize(Passed(c, e) \ Passed(c, stop))
StopBefore(c, all) ==
  CHOOSE stops \in SUBSET all : \A e \in all :
    e \in stops <=> Overlapped(c, e, LastStop(all, stops, e)) > MaxOverlap

\* An entry opens a table when it is the first one, when the table before it
\* is full, and when there was a stop since that table's last entry.
Open(kept, opens, e) == {x \in Above(kept, e) : \A y \in Above(opens, e) : ~Before(x, y)}
Opens(kept, stops, opens, e) ==
  \/ Above(opens, e) = {}
  \/ Cardinality(Open(kept, opens, e)) >= MaxFileSize
  \/ \E x \in stops : ~Before(e, x) /\ \A y \in Open(kept, opens, e) : Before(y, x)
Openers(kept, stops) ==
  CHOOSE opens \in SUBSET kept : \A e \in kept : e \in opens <=> Opens(kept, stops, opens, e)

\* The output tables, numbered in their order: from an opener to the next.
OutputTable(kept, opens, e) ==
  [number |-> nextFile + Cardinality(Above(opens, e)),
   entries |-> {x \in kept : ~Before(x, e) /\ \A y \in opens : Before(e, y) => Before(x, y)}]
Outputs(c) ==
  LET all == Merged(c)
      kept == Keep(c, all)
      opens == Openers(kept, StopBefore(c, all))
  IN {OutputTable(kept, opens, e) : e \in opens}

-----------------------------------------------------------------------------
Init ==
  /\ written = {} /\ mem = {} /\ imm = {}
  /\ snapshots = {}
  /\ levels = [l \in Levels |-> {}]
  /\ nextFile = 1
  /\ compactPointer = [l \in Levels |-> None]
  /\ fileToCompact = None
  /\ compaction = None
  /\ manual = None

\* Clients

Write(k, del) ==
  /\ LastSequence < MaxSeq
  /\ LET e == [key |-> k, seq |-> LastSequence + 1, del |-> del]
     IN written' = written \cup {e} /\ mem' = mem \cup {e}
  /\ UNCHANGED <<imm, snapshots, levels, nextFile, compactPointer, fileToCompact,
                 compaction, manual>>

Put == \E k \in Keys : Write(k, FALSE)
Delete == Deletes /\ \E k \in Keys : Write(k, TRUE)

\* MakeRoomForWrite: the memtable is full and there is no other to flush.
SwapMemTable ==
  /\ imm = {} /\ mem # {}
  /\ imm' = mem /\ mem' = {}
  /\ UNCHANGED <<written, snapshots, levels, nextFile, compactPointer, fileToCompact,
                 compaction, manual>>

GetSnapshot ==
  /\ Cardinality(snapshots) < MaxSnapshots
  /\ LastSequence \notin snapshots
  /\ snapshots' = snapshots \cup {LastSequence}
  /\ UNCHANGED <<written, mem, imm, levels, nextFile, compactPointer, fileToCompact,
                 compaction, manual>>

ReleaseSnapshot ==
  /\ \E s \in snapshots : snapshots' = snapshots \ {s}
  /\ UNCHANGED <<written, mem, imm, levels, nextFile, compactPointer, fileToCompact,
                 compaction, manual>>

\* UpdateStats, RecordReadSample: reads that pass a file on to another wear
\* out its allowed_seeks.
ChargeSeek ==
  /\ fileToCompact = None
  /\ \E k \in Keys, s \in snapshots \cup {LastSequence} :
       /\ Cardinality(Visited(k, s)) > 1
       /\ \E p \in {FirstVisited(Visited(k, s))} :
            fileToCompact' = [level |-> p[1], file |-> p[2]]
  /\ UNCHANGED <<written, mem, imm, snapshots, levels, nextFile, compactPointer,
                 compaction, manual>>

\* DBImpl::CompactRange: the levels above the deepest that overlaps.
CompactRange ==
  /\ manual = None
  /\ \E r \in Ranges :
       manual' = [level |-> 0, begin |-> r[1], start |-> r[1], end |-> r[2],
                  queued |-> FALSE, flushing |-> TRUE,
                  max |-> Max({1} \cup {l \in 1 .. NumLevels - 1 : Overlaps(l, r[1], r[2])})]
  /\ UNCHANGED <<written, mem, imm, snapshots, levels, nextFile, compactPointer,
                 fileToCompact, compaction>>

\* TEST_CompactMemTable waits for the flush; TEST_CompactRange then sets
\* manual_compaction_ for each round, other compactions passing in between.
QueueManual ==
  /\ manual # None /\ ~manual.queued
  /\ manual.flushing => imm = {}
  /\ manual' = [manual EXCEPT !.queued = TRUE, !.flushing = FALSE]
  /\ UNCHANGED <<written, mem, imm, snapshots, levels, nextFile, compactPointer,
                 fileToCompact, compaction>>

\* The background thread

Queued == manual # None /\ manual.queued

\* VersionSet::LogAndApply: the edit makes a version without a file to compact.
Apply(deleted, added) ==
  /\ levels' = [l \in Levels |-> (levels[l] \ {d[2] : d \in {d \in deleted : d[1] = l}})
                                 \cup {a[2] : a \in {a \in added : a[1] = l}}]
  /\ fileToCompact' = None

\* CompactMemTable, also from inside a running compaction.
CompactMemTable ==
  /\ imm # {}
  /\ \E f \in {[number |-> nextFile, entries |-> imm]} :
       Apply({}, {<<OutputLevel(Smallest(f).key, Largest(f).key), f>>})
  /\ nextFile' = nextFile + 1
  /\ imm' = {}
  /\ UNCHANGED <<written, mem, snapshots, compactPointer, compaction, manual>>

\* TEST_CompactRange is done with a level: the next, or the call returns.
NextManualLevel ==
  IF manual.level + 1 = manual.max THEN None
  ELSE [manual EXCEPT !.level = @ + 1, !.begin = manual.start, !.queued = FALSE]

\* DoCompactionWork up to its unlock, with what it takes from the version.
StartWork(c) ==
  compaction' = [level |-> c.level, inputs0 |-> c.inputs0, inputs1 |-> c.inputs1,
                 grandparents |-> c.grandparents, version |-> levels,
                 smallestSnapshot |-> IF snapshots = {} THEN LastSequence
                                      ELSE Min(snapshots)]

\* BackgroundCompaction for a client's range: nothing left, or a round.
ManualCompaction ==
  /\ imm = {} /\ compaction = None /\ Queued
  /\ \E inputs \in {ManualInputs(manual.level, manual.begin, manual.end)} :
       \/ /\ inputs = {}
          /\ manual' = NextManualLevel
          /\ UNCHANGED <<compactPointer, compaction>>
       \/ /\ inputs # {}
          /\ \E c \in {SetupOtherInputs(manual.level, inputs)} :
               /\ compactPointer' = [compactPointer EXCEPT ![c.level] = Pointer(c)]
               /\ manual' = [manual EXCEPT !.queued = FALSE,
                                           !.begin = Largest(LastOf(c.inputs0)).key]
               /\ StartWork(c)
  /\ UNCHANGED <<written, mem, imm, snapshots, levels, nextFile, fileToCompact>>

\* BackgroundCompaction: a single file with nothing below it only moves down.
TrivialMove ==
  /\ imm = {} /\ compaction = None /\ ~Queued
  /\ \E p \in {PickedFile} \ {None} : \E c \in {CompactionOf(p)} :
       /\ IsTrivialMove(c)
       /\ compactPointer' = [compactPointer EXCEPT ![c.level] = Pointer(c)]
       /\ \E f \in c.inputs0 : Apply({<<c.level, f>>}, {<<c.level + 1, f>>})
  /\ UNCHANGED <<written, mem, imm, snapshots, nextFile, compaction, manual>>

StartCompaction ==
  /\ imm = {} /\ compaction = None /\ ~Queued
  /\ \E p \in {PickedFile} \ {None} : \E c \in {CompactionOf(p)} :
       /\ ~IsTrivialMove(c)
       /\ compactPointer' = [compactPointer EXCEPT ![c.level] = Pointer(c)]
       /\ StartWork(c)
  /\ UNCHANGED <<written, mem, imm, snapshots, levels, nextFile, fileToCompact, manual>>

\* Mutant: the overlapped files of the lower level are not deleted.
InstallCompactionKeepsParents ==
  /\ compaction # None
  /\ \E c \in {compaction} : \E out \in {Outputs(c)} :
       /\ Apply({<<c.level, f>> : f \in c.inputs0},
                {<<c.level + 1, f>> : f \in out})
       /\ nextFile' = nextFile + Cardinality(out)
  /\ compaction' = None
  /\ UNCHANGED <<written, mem, imm, snapshots, compactPointer, manual>>

\* InstallCompactionResults
InstallCompaction ==
  /\ compaction # None
  /\ \E c \in {compaction} : \E out \in {Outputs(c)} :
       /\ Apply({<<c.level, f>> : f \in c.inputs0} \cup {<<c.level + 1, f>> : f \in c.inputs1},
                {<<c.level + 1, f>> : f \in out})
       /\ nextFile' = nextFile + Cardinality(out)
  /\ compaction' = None
  /\ UNCHANGED <<written, mem, imm, snapshots, compactPointer, manual>>

Next == \/ Put \/ Delete \/ SwapMemTable \/ GetSnapshot \/ ReleaseSnapshot
        \/ ChargeSeek \/ CompactRange \/ QueueManual
        \/ CompactMemTable \/ ManualCompaction \/ TrivialMove \/ StartCompaction
        \/ InstallCompaction

Spec == Init /\ [][Next]_vars

-----------------------------------------------------------------------------
Entry == [key : Keys, seq : 1 .. MaxSeq, del : BOOLEAN]

TypeOK ==
  /\ written \subseteq Entry /\ mem \subseteq written /\ imm \subseteq written
  /\ {e.seq : e \in written} = 1 .. LastSequence
  /\ snapshots \subseteq 0 .. LastSequence
  /\ \A l \in Levels : \A f \in levels[l] :
       f.number \in 1 .. nextFile - 1 /\ f.entries \subseteq written /\ f.entries # {}
  /\ \A l \in Levels, m \in Levels : \A f \in levels[l], g \in levels[m] :
       f.number = g.number => f = g /\ l = m
  /\ \A l \in Levels : compactPointer[l] \in written \cup {None}
  /\ fileToCompact # None => fileToCompact.file \in levels[fileToCompact.level]

\* What a client may read: the newest write at or before the snapshot.
Answer(k, s) == Found(Hits(written, k, s))

\* Whatever has been flushed, moved, merged or dropped, a read of the latest
\* state and of every held snapshot finds the write it must (include/leveldb/db.h:
\* a snapshot is a "consistent read-only view over the state").
ReadsSnapshot ==
  \A k \in Keys, s \in snapshots \cup {LastSequence} : Get(k, s) = Answer(k, s)

\* "Remove the database entry (if any) for "key"" (include/leveldb/db.h, Delete):
\* a key whose last write deleted it is not found.
DeleteRemoves ==
  \A k \in Keys : \A e \in written :
    e.key = k /\ e.del /\ (\A x \in written : x.key = k => x.seq <= e.seq)
      => Get(k, LastSequence) = None

\* "Must not overlap": below level 0 the tables of a level are disjoint.
DisjointLevels ==
  \A l \in 1 .. NumLevels - 1 : \A f, g \in levels[l] :
    f = g \/ Before(Largest(f), Smallest(g)) \/ Before(Largest(g), Smallest(f))

\* No two tables have one number, and the levels below level 0 are sorted.
LevelsExact == TypeOK /\ DisjointLevels

\* "Entries never hop across levels": for a user key, what a read meets first
\* is newer -- memtables, level 0 by file number, then level by level.
NewerFirst ==
  LET Newer(A, B) == \A a \in A, b \in B : a.key = b.key => a.seq > b.seq
      All(l) == UNION {f.entries : f \in levels[l]}
  IN /\ Newer(mem, imm)
     /\ \A l \in Levels : Newer(mem \cup imm, All(l))
     /\ \A f, g \in levels[0] : f.number > g.number => Newer(f.entries, g.entries)
     /\ \A l, m \in Levels : l < m => Newer(All(l), All(m))

\* The work of the background thread comes to an end: however the size limits,
\* the seeks and the clients' ranges send it, a compaction brings the data
\* nearer to the last level, so that none undoes another.
Potential == MapThenSumSet(LAMBDA l : (NumLevels - l) * TotalFileSize(levels[l]), Levels)
Descends == [][imm' = imm /\ levels' # levels => Potential' < Potential]_vars
=============================================================================
