------------------------------ MODULE MCDBImpl ------------------------------
(***************************************************************************)
(* Two small instances of DBImpl in one run.  In the one there are few     *)
(* calls, of every kind, with a reader, failures and crashes: the more of  *)
(* the one the fewer of the others, so that with few calls a recovery is   *)
(* itself cut short.  In the other there are calls enough to flush a       *)
(* memtable in the middle of a compaction that has outputs, one at a time; *)
(* what fails does so there.                                               *)
(***************************************************************************)
EXTENDS DBImpl

CONSTANTS
  Budget,  \* bound: calls, errors, crashes and the reader together
  Variety  \* bound: up to so many of them tables are chosen freely

VARIABLE busy  \* which of the two instances

Cost == calls + errors + crashes + (IF reader = None THEN 0 ELSE 1)

\* Flushes go to level 0, and a compaction merges every table.
Plain ==
  /\ ~Compacting /\ Compacting' => compaction'.inputs = version
  /\ bg.phase = "build" /\ bg'.phase = "manifest" => bg'.edit.base = {}
  /\ bg'.kind # "move"

Few ==
  /\ calls' < MaxWrites /\ Cost' <= Budget
  /\ Plain \/ Cost < Variety
  /\ compaction.open # 0 /\ Compacting' => compaction'.merged \in {compaction.merged,
                                              EntriesOf(compaction.inputs)}

\* Synced writes, and at last TEST_CompactMemTable.
Busy ==
  /\ \A i \in 1 .. calls' : kind'[i] = IF i = MaxWrites THEN "flush" ELSE "sync"
  /\ \A i \in 1 .. calls' - 1 : result'[i] # "pending"
  /\ Plain /\ reader' = None
  /\ errors' # errors => Compacting /\ bg.kind = "flush"
  /\ crashes' # crashes =>
       crashes = 0 /\ leader = Idle /\ (bgError \/ (Compacting /\ bg.kind = "flush"))

Bounded == UNCHANGED busy /\ IF busy THEN Busy ELSE Few

BoundedInit == busy \in BOOLEAN /\ Init

BoundedSpec == BoundedInit /\ [][Next /\ Bounded]_<<vars, busy>> /\ Fairness
=============================================================================
