------------------------------- MODULE DBImpl -------------------------------
(***************************************************************************)
(* LevelDB's DBImpl: the queue of writers and the groups their leader logs, *)
(* the memtable and its log, the background thread that turns a full       *)
(* memtable into a table, merges tables, and installs both through the     *)
(* MANIFEST, a flush also in the middle of a compaction; the deletion of   *)
(* obsolete files, and recovery after the process or the machine fails at  *)
(* any step.  Steps are what runs while the mutex is held or between       *)
(* releasing and taking it again.                                          *)
(***************************************************************************)
EXTENDS Integers, Sequences, FiniteSets, SequencesExt, Functions

CONSTANTS
  MaxWrites,          \* calls of Write and TEST_CompactMemTable
  BufferSize,         \* entries a memtable holds (write_buffer_size)
  CompactionTrigger,  \* config::kL0_CompactionTrigger
  StopTrigger,        \* config::kL0_StopWritesTrigger
  MaxErrors,          \* operations of the file system that fail
  MaxCrashes,
  None

Ids == 1 .. MaxWrites

ASSUME BoundsAssumption ==
  /\ {MaxWrites, BufferSize, MaxErrors, MaxCrashes} \subseteq Nat
  /\ CompactionTrigger \in Nat \ {0} /\ StopTrigger \in Nat
  /\ CompactionTrigger <= StopTrigger

VARIABLES
  \* callers
  calls,          \* how many calls were made
  kind,           \* of each call: "none", or a write, a synced write, a flush
  result,         \* of each call: pending, waiting (for imm_), ok or error
  before,         \* of each flush: the writes acknowledged when it was called
  \* memory
  writers,        \* writers_
  leader,         \* what the writer at the front is doing
  mem,
  imm,            \* imm_: no memtable, or one
  logfileNumber, lastSequence,
  version, logNumber, nextFile, manifestNumber,
  scheduled,      \* background_compaction_scheduled_
  bg,             \* what the background thread is doing
  compaction,     \* the CompactionState of the compaction that runs
  bgError, pendingOutputs,
  reader,         \* a Get or an iterator
  \* disk
  logs, tables, manifests, current,
  damage,         \* of the current MANIFEST, by a record that was written in part
  \* history and bounds
  phase,          \* open, or how far DB::Open has come
  unreplayed,     \* the logs Recover has yet to read
  acknowledged, synced, errors, crashes

callers == <<calls, kind, result, before>>
memory  == <<mem, imm, logfileNumber, lastSequence>>
vset    == <<version, logNumber, nextFile, manifestNumber>>
bgVars  == <<scheduled, bg, compaction, bgError, pendingOutputs>>
disk    == <<logs, tables, manifests, current, damage>>
history == <<phase, unreplayed, acknowledged, synced, errors, crashes>>
vars == <<callers, writers, leader, memory, vset, bgVars, reader, disk, history>>

Kinds == {"write", "sync", "flush"}
Idle == [phase |-> "none", force |-> FALSE, group |-> <<>>, taken |-> 0, ok |-> TRUE]
NoWork == [phase |-> "none", kind |-> "none", number |-> 0, edit |-> None]

Entry(id, seq) == [id |-> id, seq |-> seq]
IdsOf(entries) == {e.id : e \in entries}

\* A version, by level: level 0, and the levels below it.
NoTables == [level0 |-> {}, base |-> {}]
TablesOf(v) == v.level0 \cup v.base
EntriesOf(v) == UNION {tables[n] : n \in TablesOf(v)}

\* A compaction: the version's tables it merges, the entries that are in
\* finished outputs, its outputs, and the one whose file is open (0: none).
NoCompaction == [inputs |-> NoTables, merged |-> {}, outputs |-> {}, open |-> 0]
Compacting == compaction # NoCompaction
Merging == [phase |-> "merge", kind |-> "compact", number |-> 0, edit |-> None]

\* VersionEdit, and what a manifest's edits amount to.
Apply(v, edit) == [level0 |-> (v.level0 \ edit.deleted) \cup edit.level0,
                   base   |-> (v.base \ edit.deleted) \cup edit.base]
\* The tables a level got and did not lose again.
Remaining(edits, level) ==
  UNION {{n \in edits[i][level] : \A j \in i + 1 .. Len(edits) : n \notin edits[j].deleted} :
           i \in DOMAIN edits}
VersionOf(edits) == [level0 |-> Remaining(edits, "level0"), base |-> Remaining(edits, "base")]

NewFile(f, n, x) == [m \in DOMAIN f \cup {n} |-> IF m = n THEN x ELSE f[m]]
EmptyLog == [records |-> <<>>, durable |-> 0]
EntriesIn(log) == UNION Range(log.records)

\* NewDB, and DB::Open of a database without data.
Init ==
  /\ calls = 0 /\ kind = [i \in Ids |-> "none"] /\ result = [i \in Ids |-> "none"]
  /\ before = [i \in Ids |-> {}]
  /\ writers = <<>> /\ leader = Idle
  /\ mem = {} /\ imm = {} /\ logfileNumber = 3 /\ lastSequence = 0
  /\ version = NoTables /\ logNumber = 3 /\ nextFile = 4 /\ manifestNumber = 2
  /\ scheduled = FALSE /\ bg = NoWork /\ bgError = FALSE /\ pendingOutputs = {}
  /\ compaction = NoCompaction
  /\ reader = None
  /\ logs = [n \in {3} |-> EmptyLog] /\ tables = <<>> /\ current = 2
  /\ manifests = [n \in {2} |->
       [edits |-> <<[level0 |-> {}, base |-> {}, deleted |-> {}, log |-> 3, next |-> 4, seq |-> 0]>>,
        durable |-> 1]]
  /\ damage = "none"
  /\ phase = "open" /\ unreplayed = {}
  /\ acknowledged = {} /\ synced = {} /\ errors = 0 /\ crashes = 0

Running == phase = "open"

-----------------------------------------------------------------------------
(* Scheduling.                                                             *)

NeedsCompaction(v) == Cardinality(v.level0) >= CompactionTrigger

\* MaybeScheduleCompaction, for the memtable, version and error as they will be.
Schedulable(i, v, error) == ~error /\ (i # {} \/ NeedsCompaction(v))

\* background_work_finished_signal_.SignalAll wakes a leader that waits for room.
Awake == IF leader.phase = "wait" THEN [leader EXCEPT !.phase = "room"] ELSE leader

-----------------------------------------------------------------------------
(* Writing.                                                                *)

\* Write queues its caller; so does TEST_CompactMemTable, without a batch.
Call(k) ==
  /\ Running /\ calls < MaxWrites
  /\ LET i == calls + 1
     IN  /\ calls' = i
         /\ kind' = [kind EXCEPT ![i] = k]
         /\ result' = [result EXCEPT ![i] = "pending"]
         /\ before' = IF k = "flush" THEN [before EXCEPT ![i] = acknowledged] ELSE before
         /\ writers' = Append(writers, i)
  /\ UNCHANGED <<leader, memory, vset, bgVars, reader, disk, history>>

\* The writer at the front enters MakeRoomForWrite.
Lead ==
  /\ Running /\ leader = Idle /\ writers # <<>>
  /\ leader' = [Idle EXCEPT !.phase = "room", !.force = (kind[Head(writers)] = "flush")]
  /\ UNCHANGED <<callers, writers, memory, vset, bgVars, reader, disk, history>>

Full == leader.force \/ Cardinality(mem) > BufferSize

\* The memtable is full, and its predecessor or level 0 leaves no room.
WaitForRoom ==
  /\ leader.phase = "room" /\ ~bgError /\ Full
  /\ imm # {} \/ Cardinality(version.level0) >= StopTrigger
  /\ leader' = [leader EXCEPT !.phase = "wait"]
  /\ UNCHANGED <<callers, writers, memory, vset, bgVars, reader, disk, history>>

\* A new log and a new memtable; the old one is left to the background thread.
SwitchMemTable ==
  /\ leader.phase = "room" /\ ~bgError /\ Full
  /\ imm = {} /\ Cardinality(version.level0) < StopTrigger
  /\ nextFile' = nextFile + 1
  /\ logs' = NewFile(logs, nextFile, EmptyLog)
  /\ logfileNumber' = nextFile
  /\ imm' = {mem} /\ mem' = {}
  /\ leader' = [leader EXCEPT !.force = FALSE]
  /\ scheduled' = TRUE
  /\ UNCHANGED <<callers, writers, lastSequence, version, logNumber, manifestNumber,
                 bg, compaction, bgError, pendingOutputs, reader, tables, manifests, current,
                 damage, history>>

\* How many writers a leader may take along (BuildBatchGroup): a synced write
\* never behind one that is not, as many as the size allows, and a writer
\* without a batch whenever its turn comes.
GroupSizes ==
  {n \in DOMAIN writers :
     /\ n > 1 => kind[writers[1]] # "flush"
     /\ \A k \in 2 .. n : kind[writers[k]] = "sync" => kind[writers[1]] = "sync"
     /\ kind[writers[1]] # "flush" /\ n < Len(writers) => kind[writers[n + 1]] # "flush"}

\* The sequence of a set of calls in the order they were made, which is that of
\* the queue.
InOrder(ids) ==
  {seq \in [1 .. Cardinality(ids) -> ids] : \A j, k \in DOMAIN seq : j < k => seq[j] < seq[k]}

\* There is room: the leader leaves MakeRoomForWrite and releases the mutex.
BuildBatchGroup ==
  /\ leader.phase = "room" /\ ~bgError /\ ~Full
  /\ \E n \in GroupSizes :
       \E ids \in InOrder({writers[k] : k \in {j \in 1 .. n : kind[writers[j]] # "flush"}}) :
           leader' = [leader EXCEPT
             !.group = [k \in DOMAIN ids |-> Entry(ids[k], lastSequence + k)],
             !.taken = n,
             !.phase = IF ids = <<>> THEN "finish" ELSE "append"]
  /\ UNCHANGED <<callers, writers, memory, vset, bgVars, reader, disk, history>>

\* Without room: an error is pending, or the new log cannot be made.
NoRoom ==
  /\ leader.phase = "room"
  /\ \/ bgError /\ UNCHANGED errors
     \/ /\ ~bgError /\ Full /\ imm = {} /\ Cardinality(version.level0) < StopTrigger
        /\ errors < MaxErrors /\ errors' = errors + 1
  /\ leader' = [leader EXCEPT !.phase = "finish", !.taken = 1, !.ok = FALSE]
  /\ UNCHANGED <<callers, writers, memory, vset, bgVars, reader, disk, phase, unreplayed,
                 acknowledged, synced, crashes>>

\* AddRecord; what its failure does to the log itself is in WriteAheadLog.
AppendLog(ok) ==
  /\ leader.phase = "append"
  /\ IF ok
     THEN /\ logs' = [logs EXCEPT ![logfileNumber].records = Append(@, Range(leader.group))]
          /\ leader' = [leader EXCEPT !.phase =
               IF kind[Head(writers)] = "sync" THEN "sync" ELSE "insert"]
          /\ UNCHANGED errors
     ELSE /\ errors < MaxErrors /\ errors' = errors + 1
          /\ leader' = [leader EXCEPT !.phase = "finish", !.ok = FALSE]
          /\ UNCHANGED logs
  /\ UNCHANGED <<callers, writers, memory, vset, bgVars, reader, tables, manifests,
                 current, damage, phase, unreplayed, acknowledged, synced, crashes>>

\* logfile_->Sync; a failure makes every later write fail.
SyncLog(ok) ==
  /\ leader.phase = "sync"
  /\ IF ok
     THEN /\ logs' = [logs EXCEPT ![logfileNumber].durable = Len(logs[logfileNumber].records)]
          /\ leader' = [leader EXCEPT !.phase = "insert"]
          /\ UNCHANGED <<bgError, errors>>
     ELSE /\ errors < MaxErrors /\ errors' = errors + 1
          /\ bgError' = TRUE
          /\ leader' = [leader EXCEPT !.phase = "finish", !.ok = FALSE]
          /\ UNCHANGED logs
  /\ UNCHANGED <<callers, writers, memory, vset, scheduled, bg, compaction, pendingOutputs,
                 reader, tables, manifests, current, damage, phase, unreplayed, acknowledged, synced, crashes>>

InsertIntoMemTable ==
  /\ leader.phase = "insert"
  /\ mem' = mem \cup Range(leader.group)
  /\ leader' = [leader EXCEPT !.phase = "finish"]
  /\ UNCHANGED <<callers, writers, imm, logfileNumber, lastSequence, vset, bgVars,
                 reader, disk, history>>

\* The leader has the mutex again: the sequence moves on, everyone it took along
\* is answered, and the next writer takes over.
FinishGroup ==
  /\ leader.phase = "finish"
  /\ LET taken == {writers[k] : k \in 1 .. leader.taken}
         done == Range(leader.group)
     IN  /\ result' = [i \in Ids |->
              IF i \notin taken THEN result[i]
              ELSE IF ~leader.ok THEN "error"
              ELSE IF kind[i] = "flush" THEN "waiting" ELSE "ok"]
         /\ acknowledged' = IF leader.ok THEN acknowledged \cup done ELSE acknowledged
         /\ synced' = IF leader.ok
                      THEN synced \cup {e \in done : kind[e.id] = "sync"}
                      ELSE synced
  /\ lastSequence' = lastSequence + Len(leader.group)
  /\ writers' = SubSeq(writers, leader.taken + 1, Len(writers))
  /\ leader' = Idle
  /\ UNCHANGED <<calls, kind, before, mem, imm, logfileNumber, vset, bgVars, reader,
                 disk, phase, unreplayed, errors, crashes>>

\* TEST_CompactMemTable, after its Write: it waits until imm_ is gone.
FlushReturns(i) ==
  /\ result[i] = "waiting" /\ (imm = {} \/ bgError)
  /\ result' = [result EXCEPT ![i] = IF imm = {} THEN "ok" ELSE "error"]
  /\ UNCHANGED <<calls, kind, before, writers, leader, memory, vset, bgVars, reader,
                 disk, history>>

-----------------------------------------------------------------------------
(* The background thread.                                                  *)

\* Mutant: MaybeScheduleCompaction is not called again.
EndBackgroundCallForGood(i, v, error) ==
  scheduled' = FALSE /\ bg' = NoWork /\ leader' = Awake

\* The end of BackgroundCall: work that is left is scheduled, waiters are woken.
EndBackgroundCall(i, v, error) ==
  /\ scheduled' = Schedulable(i, v, error)
  /\ bg' = NoWork
  /\ leader' = Awake

\* BackgroundCompaction finds something to do.
Begins == Running /\ scheduled /\ bg = NoWork /\ ~bgError

\* CompactMemTable allocates the number of the table it will write.
CompactMemTable ==
  /\ imm # {}
  /\ bg' = [phase |-> "build", kind |-> "flush", number |-> nextFile, edit |-> None]
  /\ nextFile' = nextFile + 1
  /\ pendingOutputs' = pendingOutputs \cup {nextFile}
  /\ UNCHANGED <<callers, writers, leader, memory, version, logNumber, manifestNumber,
                 scheduled, compaction, bgError, reader, disk, history>>

\* The memtable goes first ...
FlushFirst == Begins /\ CompactMemTable

\* ... also between two keys of a compaction, whatever failed before.  While an
\* output is open, one of the entries that are not in outputs yet is in it.
Left == EntriesOf(compaction.inputs) \ compaction.merged
FlushBetweenKeys ==
  /\ bg.phase = "merge"
  /\ IF compaction.open = 0 THEN Left # {} ELSE Cardinality(Left) > 1
  /\ CompactMemTable

Picks == Begins /\ imm = {} /\ NeedsCompaction(version)

\* PickCompaction and DoCompactionWork, which releases the mutex; which tables
\* are picked, and what is dropped of them, is in VersionSet.
PickCompaction ==
  /\ Picks
  /\ \E inputs \in [level0 : SUBSET version.level0, base : SUBSET version.base] :
       /\ inputs.level0 # {}
       /\ compaction' = [NoCompaction EXCEPT !.inputs = inputs]
  /\ bg' = Merging
  /\ UNCHANGED <<callers, writers, leader, memory, vset, scheduled, bgError,
                 pendingOutputs, reader, disk, history>>

\* A table that overlaps nothing only moves to the next level.
MoveTable ==
  /\ Picks
  /\ \E n \in version.level0 :
       bg' = [phase |-> "manifest", kind |-> "move", number |-> 0,
              edit |-> [level0 |-> {}, base |-> {n}, deleted |-> {n}, log |-> logNumber,
                        next |-> nextFile, seq |-> lastSequence]]
  /\ UNCHANGED <<callers, writers, leader, memory, vset, scheduled, compaction, bgError,
                 pendingOutputs, reader, disk, history>>

NoWorkLeft ==
  /\ Running /\ scheduled /\ bg = NoWork
  /\ bgError \/ (imm = {} /\ ~NeedsCompaction(version))
  /\ EndBackgroundCall(imm, version, bgError)
  /\ UNCHANGED <<callers, writers, memory, vset, compaction, bgError, pendingOutputs, reader,
                 disk, history>>

\* After CompactMemTable the compaction it came between goes on.
EndCompactMemTable(i, v, error) ==
  IF Compacting
  THEN bg' = Merging /\ leader' = Awake /\ UNCHANGED scheduled
  ELSE EndBackgroundCall(i, v, error)

\* RecordBackgroundError: nothing is deleted or begun from now on, but a
\* compaction goes on when it is a flush in the middle of it that failed.
FailWork ==
  /\ errors < MaxErrors /\ errors' = errors + 1
  /\ bgError' = TRUE
  /\ IF bg.kind = "flush"
     THEN /\ EndCompactMemTable(imm, version, TRUE)
          /\ pendingOutputs' = pendingOutputs \ {bg.number}
          /\ UNCHANGED compaction
     ELSE /\ EndBackgroundCall(imm, version, TRUE)
          /\ pendingOutputs' = pendingOutputs \ compaction.outputs
          /\ compaction' = NoCompaction

\* BuildTable has written and synced the table of the memtable, which goes to
\* level 0 or, where it overlaps nothing, below.  What LogAndApply will record is
\* fixed now: the logs before the memtable's own are no longer needed.
BuildTable ==
  /\ bg.phase = "build"
  /\ LET n == bg.number
         entries == UNION imm
         made == IF entries = {} THEN {} ELSE {n}
     IN  /\ tables' = IF entries = {} THEN tables ELSE NewFile(tables, n, entries)
         /\ \E lower \in SUBSET made :
              bg' = [bg EXCEPT !.phase = "manifest", !.edit =
                [level0 |-> made \ lower, base |-> lower, deleted |-> {},
                 log |-> logfileNumber, next |-> nextFile, seq |-> lastSequence]]
         /\ pendingOutputs' = pendingOutputs \ {n}
  /\ UNCHANGED <<callers, writers, leader, memory, vset, scheduled, compaction, bgError,
                 reader, logs, manifests, current, damage, history>>

\* OpenCompactionOutputFile: the file is made, empty.
OpenOutput ==
  /\ bg.phase = "merge" /\ compaction.open = 0 /\ Left # {}
  /\ compaction' = [compaction EXCEPT !.outputs = @ \cup {nextFile}, !.open = nextFile]
  /\ tables' = NewFile(tables, nextFile, {})
  /\ nextFile' = nextFile + 1
  /\ pendingOutputs' = pendingOutputs \cup {nextFile}
  /\ UNCHANGED <<callers, writers, leader, memory, version, logNumber, manifestNumber,
                 scheduled, bg, bgError, reader, logs, manifests, current, damage, history>>

\* FinishCompactionOutputFile: some of the entries are in it, and synced; in vain
\* if the file was deleted meanwhile.
FinishOutput ==
  /\ bg.phase = "merge" /\ compaction.open # 0
  /\ \E part \in SUBSET Left :
       /\ part # {}
       /\ tables' = [n \in DOMAIN tables |-> IF n = compaction.open THEN part ELSE tables[n]]
       /\ compaction' = [compaction EXCEPT !.merged = @ \cup part, !.open = 0]
  /\ UNCHANGED <<callers, writers, leader, memory, vset, scheduled, bg, bgError,
                 pendingOutputs, reader, logs, manifests, current, damage, history>>

\* Everything is merged: InstallCompactionResults.
InstallCompactionResults ==
  /\ bg.phase = "merge" /\ compaction.open = 0 /\ Left = {}
  /\ bg' = [bg EXCEPT !.phase = "manifest", !.edit =
       [level0 |-> {}, base |-> compaction.outputs, deleted |-> TablesOf(compaction.inputs),
        log |-> logNumber, next |-> nextFile, seq |-> lastSequence]]
  /\ UNCHANGED <<callers, writers, leader, memory, vset, scheduled, compaction, bgError,
                 pendingOutputs, reader, disk, history>>

\* A table cannot be made or written, or one that is merged not read.
BuildFails ==
  /\ bg.phase \in {"build", "merge"}
  /\ FailWork
  /\ UNCHANGED <<callers, writers, memory, vset, reader, disk, phase, unreplayed,
                 acknowledged, synced, crashes>>

\* What comes behind a piece of a record is not read: recovery takes it for the
\* rest of a record that was not finished, or finds the MANIFEST corrupt.
WriteBehind == damage' \in {damage, "spoiled"}

\* LogAndApply appends the edit to the MANIFEST and syncs it, without the mutex.
WriteManifest ==
  /\ bg.phase = "manifest"
  /\ LET old == manifests[manifestNumber].edits
         edits == IF damage = "none" THEN Append(old, bg.edit) ELSE old
     IN  manifests' = [manifests EXCEPT ![manifestNumber] =
                         [edits |-> edits, durable |-> Len(edits)]]
  /\ IF damage = "none" THEN UNCHANGED damage ELSE WriteBehind
  /\ bg' = [bg EXCEPT !.phase = "install"]
  /\ UNCHANGED <<callers, writers, leader, memory, vset, scheduled, compaction, bgError,
                 pendingOutputs, reader, logs, tables, current, history>>

\* The append or the sync fails: the edit, or a piece of it, may be in the file
\* all the same.
ManifestFails ==
  /\ bg.phase = "manifest"
  /\ FailWork
  /\ \/ UNCHANGED <<manifests, damage>>
     \/ damage = "none" /\ UNCHANGED damage
        /\ manifests' = [manifests EXCEPT ![manifestNumber].edits = Append(@, bg.edit)]
     \/ damage = "none" /\ damage' = "tail" /\ UNCHANGED manifests
     \/ damage # "none" /\ WriteBehind /\ UNCHANGED manifests
  /\ UNCHANGED <<callers, writers, memory, vset, reader, logs, tables, current, phase,
                 unreplayed, acknowledged, synced, crashes>>

\* Mutant: only the current version's tables are live.
LiveInCurrent(v, inputs) == TablesOf(v)

\* The tables of the versions in use: the current one's, a reader's, and those a
\* compaction merges.
Live(v, inputs) ==
  TablesOf(v) \cup TablesOf(inputs) \cup (IF reader = None THEN {} ELSE TablesOf(reader.version))

\* Mutant: outputs that are not installed yet are not live.
DeleteObsoleteFilesAndOutputs(v, log, pending, inputs) ==
  /\ logs' = Restrict(logs, {n \in DOMAIN logs : n >= log})
  /\ tables' = Restrict(tables, DOMAIN tables \cap Live(v, inputs))
  /\ manifests' = Restrict(manifests, {n \in DOMAIN manifests : n >= manifestNumber})

\* DeleteObsoleteFiles, when v is current and logs before log are not needed.
DeleteObsoleteFiles(v, log, pending, inputs) ==
  /\ logs' = Restrict(logs, {n \in DOMAIN logs : n >= log})
  /\ tables' = Restrict(tables, DOMAIN tables \cap (Live(v, inputs) \cup pending))
  /\ manifests' = Restrict(manifests, {n \in DOMAIN manifests : n >= manifestNumber})

\* LogAndApply has the mutex again and installs the version.
Installs ==
  /\ bg.phase = "install"
  /\ version' = Apply(version, bg.edit)
  /\ logNumber' = bg.edit.log
  /\ UNCHANGED <<callers, writers, mem, logfileNumber, lastSequence, nextFile,
                 manifestNumber, bgError, reader, current, damage, history>>

InstallMemTable ==
  /\ Installs /\ bg.kind = "flush"
  /\ imm' = {}
  /\ IF bgError
     THEN UNCHANGED <<logs, tables, manifests>>
     ELSE DeleteObsoleteFiles(version', logNumber', pendingOutputs, compaction.inputs)
  /\ EndCompactMemTable({}, version', bgError)
  /\ UNCHANGED <<compaction, pendingOutputs>>

\* CleanupCompaction and ReleaseInputs come first; a moved table makes nothing
\* obsolete.
InstallCompaction ==
  /\ Installs /\ bg.kind # "flush"
  /\ UNCHANGED imm
  /\ compaction' = NoCompaction
  /\ pendingOutputs' = pendingOutputs \ compaction.outputs
  /\ IF bgError \/ bg.kind = "move"
     THEN UNCHANGED <<logs, tables, manifests>>
     ELSE DeleteObsoleteFiles(version', logNumber', pendingOutputs', NoTables)
  /\ EndBackgroundCall(imm, version', bgError)

-----------------------------------------------------------------------------
(* Reading.                                                                *)

\* Get, or an iterator without a snapshot of its own, holds on to the memtables
\* and the version and reads up to the last sequence.
Get ==
  /\ Running /\ reader = None
  /\ reader' = [seq |-> lastSequence, version |-> version,
                held |-> mem \cup UNION imm,
                expected |-> acknowledged]
  /\ UNCHANGED <<callers, writers, leader, memory, vset, bgVars, disk, history>>

GetEnds ==
  /\ reader # None
  /\ reader' = None
  /\ UNCHANGED <<callers, writers, leader, memory, vset, bgVars, disk, history>>

-----------------------------------------------------------------------------
(* Failing and recovering.                                                 *)

\* Mutant: only the logs after the one the edits name.
LogsAfter(edits) == {n \in DOMAIN logs : n > Last(edits).log}

\* The logs that are not in tables yet.
LogsOf(edits) == {n \in DOMAIN logs : n >= Last(edits).log}

\* What recovery finds when so many edits and log records have survived.
Survivors(edits, records) ==
  LET v == VersionOf(edits)
  IN  UNION ({tables[n] : n \in TablesOf(v) \cap DOMAIN tables}
             \cup {UNION Range(SubSeq(logs[n].records, 1, records[n])) :
                     n \in LogsOf(edits)})

AllRecords == [n \in DOMAIN logs |-> Len(logs[n].records)]
DurableRecords == [n \in DOMAIN logs |-> logs[n].durable]
Recoverable == Survivors(manifests[current].edits, AllRecords)

\* Everything in memory is gone.
Lose ==
  /\ phase' = "closed" /\ unreplayed' = {}
  /\ result' = [i \in Ids |-> IF result[i] \in {"pending", "waiting"} THEN "lost" ELSE result[i]]
  /\ writers' = <<>> /\ leader' = Idle /\ reader' = None
  /\ mem' = {} /\ imm' = {} /\ logfileNumber' = 0 /\ lastSequence' = 0
  /\ version' = NoTables /\ logNumber' = 0 /\ nextFile' = 0 /\ manifestNumber' = 0
  /\ scheduled' = FALSE /\ bg' = NoWork /\ bgError' = FALSE /\ pendingOutputs' = {}
  /\ compaction' = NoCompaction
  /\ crashes < MaxCrashes /\ crashes' = crashes + 1
  /\ UNCHANGED <<calls, kind, before, errors>>

ProcessFails == Lose /\ UNCHANGED <<disk, acknowledged, synced>>

\* Of a file that was not synced the machine keeps a prefix; files are made,
\* renamed and deleted in order.  A piece of a record may go without its being
\* noticed, as recovery would read the same edits.
MachineFails ==
  /\ Lose
  /\ UNCHANGED <<tables, current, synced>>
  /\ \E cut \in [DOMAIN logs -> 0 .. MaxWrites] :
       /\ \A n \in DOMAIN logs : cut[n] \in logs[n].durable .. AllRecords[n]
       /\ logs' = [n \in DOMAIN logs |->
            [records |-> SubSeq(logs[n].records, 1, cut[n]), durable |-> cut[n]]]
  /\ LET m == manifests[current]
     IN  \E k \in m.durable .. Len(m.edits) :
           /\ manifests' = [manifests EXCEPT ![current] =
                              [edits |-> SubSeq(m.edits, 1, k), durable |-> k]]
           /\ damage' \in {"none"} \cup (IF k = Len(m.edits) THEN {damage} ELSE {})
  /\ acknowledged' = acknowledged \cap Recoverable'

\* Recover reads the MANIFEST first, if it is not corrupt ...
Recover ==
  /\ phase = "closed" /\ damage # "spoiled"
  /\ LET edits == manifests[current].edits
     IN  /\ version' = VersionOf(edits)
         /\ manifestNumber' = Last(edits).next /\ nextFile' = Last(edits).next + 1
         /\ lastSequence' = Last(edits).seq
         /\ unreplayed' = LogsOf(edits)
  /\ phase' = "replaying"
  /\ UNCHANGED <<callers, writers, leader, mem, imm, logfileNumber, logNumber, bgVars,
                 reader, disk, acknowledged, synced, errors, crashes>>

\* ... and then the logs: RecoverLogFile makes a table of what a log has, and the
\* log's own number counts as used.
Replay(n) ==
  /\ unreplayed' = unreplayed \ {n}
  /\ LET entries == EntriesIn(logs[n])
         after == IF entries = {} THEN nextFile ELSE nextFile + 1
     IN  /\ IF entries = {}
            THEN UNCHANGED <<tables, version>>
            ELSE /\ tables' = NewFile(tables, nextFile, entries)
                 /\ version' = [version EXCEPT !.level0 = @ \cup {nextFile}]
         /\ nextFile' = IF after > n THEN after ELSE n + 1
         /\ \E last \in {lastSequence} \cup {e.seq : e \in entries} :
              /\ last >= lastSequence /\ \A e \in entries : e.seq <= last
              /\ lastSequence' = last
  /\ UNCHANGED <<callers, writers, leader, mem, imm, logfileNumber, logNumber,
                 manifestNumber, bgVars, reader, logs, manifests, current, damage, phase,
                 acknowledged, synced, errors, crashes>>

ReplayLog == \E n \in unreplayed : (\A m \in unreplayed : n <= m) /\ Replay(n)

\* DB::Open makes a log for the new memtable.
OpenLog ==
  /\ phase = "replaying" /\ unreplayed = {}
  /\ logs' = NewFile(logs, nextFile, EmptyLog)
  /\ logfileNumber' = nextFile /\ nextFile' = nextFile + 1
  /\ phase' = "logged"
  /\ UNCHANGED <<callers, writers, leader, mem, imm, lastSequence, version, logNumber,
                 manifestNumber, bgVars, reader, tables, manifests, current, damage,
                 unreplayed, acknowledged, synced, errors, crashes>>

\* LogAndApply writes a new MANIFEST ...
OpenManifest ==
  /\ phase = "logged"
  /\ manifests' = NewFile(manifests, manifestNumber,
       [edits |-> <<[level0 |-> version.level0, base |-> version.base, deleted |-> {},
                     log |-> logfileNumber, next |-> nextFile, seq |-> lastSequence]>>,
        durable |-> 1])
  /\ phase' = "described"
  /\ UNCHANGED <<callers, writers, leader, memory, vset, bgVars, reader, logs, tables,
                 current, damage, unreplayed, acknowledged, synced, errors, crashes>>

\* ... and SetCurrentFile makes it the one that counts.
SetCurrentFile ==
  /\ phase = "described"
  /\ current' = manifestNumber /\ damage' = "none"
  /\ phase' = "current"
  /\ UNCHANGED <<callers, writers, leader, memory, vset, bgVars, reader, logs, tables,
                 manifests, unreplayed, acknowledged, synced, errors, crashes>>

Opened ==
  /\ phase = "current"
  /\ phase' = "open"
  /\ logNumber' = logfileNumber
  /\ DeleteObsoleteFiles(version, logfileNumber, {}, NoTables)
  /\ scheduled' = Schedulable({}, version, FALSE)
  /\ acknowledged' = EntriesOf(version)
  /\ UNCHANGED <<callers, writers, leader, memory, version, nextFile, manifestNumber, bg,
                 compaction, bgError, pendingOutputs, reader, current, damage, unreplayed, synced, errors, crashes>>

Leader ==
  \/ Lead \/ WaitForRoom \/ SwitchMemTable \/ BuildBatchGroup \/ NoRoom
  \/ \E ok \in BOOLEAN : AppendLog(ok) \/ SyncLog(ok)
  \/ InsertIntoMemTable \/ FinishGroup
Background ==
  \/ FlushFirst \/ PickCompaction \/ MoveTable \/ NoWorkLeft
  \/ BuildTable \/ OpenOutput \/ FinishOutput \/ FlushBetweenKeys \/ InstallCompactionResults
  \/ BuildFails \/ WriteManifest \/ ManifestFails \/ InstallMemTable \/ InstallCompaction
Open == Recover \/ ReplayLog \/ OpenLog \/ OpenManifest \/ SetCurrentFile \/ Opened

Next ==
  \/ \E k \in Kinds : Call(k)
  \/ Leader \/ Background
  \/ \E i \in Ids : FlushReturns(i)
  \/ Get \/ GetEnds
  \/ ProcessFails \/ MachineFails
  \/ Open

Spec == Init /\ [][Next]_vars

\* Threads that can run do run, and a database that was lost is opened again.
Fairness ==
  /\ WF_vars(Leader) /\ WF_vars(Background) /\ WF_vars(Open)
  /\ \A i \in Ids : WF_vars(FlushReturns(i))

FairSpec == Spec /\ Fairness

-----------------------------------------------------------------------------
(* Properties.                                                             *)

Entries == [id : Ids, seq : Nat]
Edits == [level0 : SUBSET Nat, base : SUBSET Nat, deleted : SUBSET Nat, log : Nat,
          next : Nat, seq : Nat]

TypeOK ==
  /\ calls \in 0 .. MaxWrites /\ kind \in [Ids -> Kinds \cup {"none"}]
  /\ result \in [Ids -> {"none", "pending", "waiting", "ok", "error", "lost"}]
  /\ \A i \in Ids : before[i] \subseteq Entries
  /\ writers \in Seq(Ids)
  /\ leader.phase \in {"none", "room", "wait", "append", "sync", "insert", "finish"}
  /\ Range(leader.group) \subseteq Entries /\ leader.taken \in 0 .. Len(writers)
  /\ mem \subseteq Entries /\ UNION imm \subseteq Entries /\ imm \in {{}, {UNION imm}}
  /\ {logfileNumber, lastSequence, logNumber, nextFile, manifestNumber} \subseteq Nat
  /\ version \in [level0 : SUBSET Nat, base : SUBSET Nat]
  /\ bg.phase \in {"none", "build", "merge", "manifest", "install"}
  /\ compaction.outputs \subseteq Nat /\ compaction.open \in compaction.outputs \cup {0}
  /\ bg.edit = None \/ bg.edit \in Edits
  /\ {scheduled, bgError} \subseteq BOOLEAN /\ pendingOutputs \subseteq Nat
  /\ \A n \in DOMAIN logs : logs[n].durable \in 0 .. Len(logs[n].records)
  /\ UNION Range(tables) \subseteq Entries
  /\ \A n \in DOMAIN manifests : manifests[n].durable \in 1 .. Len(manifests[n].edits)
  /\ current \in DOMAIN manifests /\ damage \in {"none", "tail", "spoiled"}
  /\ unreplayed \subseteq DOMAIN logs
  /\ phase \in {"open", "closed", "replaying", "logged", "described", "current"}
  /\ acknowledged \subseteq Entries /\ synced \subseteq Entries
  /\ errors \in 0 .. MaxErrors /\ crashes \in 0 .. MaxCrashes

\* At every step, also in the middle of a flush, a deletion or a recovery, what
\* is on the disk is enough: after a failure of the process recovery would find
\* every acknowledged write, and after a failure of the machine every synced
\* one, whatever prefix of the unsynced files is left (options.h, sync).  Whether
\* DB::Open takes a damaged MANIFEST is another matter: OpensAgain.
AlwaysRecoverable ==
  /\ acknowledged \subseteq Recoverable
  /\ LET m == manifests[current]
     IN  \A k \in m.durable .. Len(m.edits) :
           LET edits == SubSeq(m.edits, 1, k)
           IN  /\ synced \subseteq Survivors(edits, DurableRecords)
               /\ TablesOf(VersionOf(edits)) \subseteq DOMAIN tables

\* A write that comes later shadows an earlier one of the same key: sequence
\* numbers follow the order of the calls, across groups that failed, crashes and
\* recoveries, and no number is used twice.
SequenceOrder ==
  LET all == Recoverable \cup mem
  IN  /\ \A e, f \in all : e.id < f.id => e.seq < f.seq
      /\ \A e, f \in all : e.id = f.id => e = f
      /\ phase = "open" => \A e \in all : e.seq <= lastSequence + Len(leader.group)

\* A reader finds exactly the writes acknowledged when it started, nothing of a
\* group that is being written, while memtables are switched, flushed and
\* dropped; and the tables it reads from are not deleted under it.
ReadsSnapshot ==
  reader # None =>
    /\ TablesOf(reader.version) \subseteq DOMAIN tables
    /\ {e \in reader.held \cup EntriesOf(reader.version) : e.seq <= reader.seq}
         = reader.expected

\* At every step the disk has what was promised, and sequence numbers follow the
\* order of the calls.
DBExact == TypeOK /\ AlwaysRecoverable /\ SequenceOrder

\* Every call returns, however full the memtable and level 0 are and whatever
\* fails, unless the database is lost first: as calls are bounded, again and
\* again none is on its way.
CallsReturn == []<>(\A i \in Ids : result[i] \notin {"pending", "waiting"})

\* DBImpl keeps the promise of DurableStore.
Store == INSTANCE DurableStore WITH
  Writes <- Ids,
  issued <- {i \in Ids : kind[i] # "none"},
  visible <- IdsOf(IF phase = "open" THEN acknowledged ELSE Recoverable),
  acknowledged <- IdsOf(acknowledged),
  synced <- IdsOf(synced)
StoreSpec == Store!DSSpec

\* "Force current memtable contents to be compacted" (db_impl.h): what had been
\* written when TEST_CompactMemTable was called is in tables when it returns.
FlushFlushes ==
  crashes = 0 => \A i \in Ids :
    kind[i] = "flush" /\ result[i] = "ok" => before[i] \subseteq EntriesOf(version)

\* "If it is just the process that crashes, no writes will be lost even if
\* sync==false" (options.h): DB::Open does not find the MANIFEST corrupt.
OpensAgain == phase = "closed" => damage # "spoiled"
=============================================================================
