--------------------------- MODULE MCEnvironment ---------------------------
(***************************************************************************)
(* What LevelDB builds on files and threads: the log, and of PosixEnv the  *)
(* lock files, the limits on open files and the background thread.  They   *)
(* share no state, so a behaviour is about one part and leaves the others  *)
(* as they began; the log is two parts, for it has two instances.          *)
(***************************************************************************)
EXTENDS FileLocks, ReadLimits, WorkQueue, TLC

CONSTANTS
  p1, p2, p3, t1, t2, t3, t4,
  BlockSize, HeaderSize,
  Parts  \* the parts the behaviours are about

VARIABLES
  part,
  file, durable, blockOffset, next, acknowledged, synced, failures, damages, crashes

logVars == <<file, durable, blockOffset, next, acknowledged, synced, failures, damages, crashes>>
allVars == <<part, logVars, vars, limitVars, queueVars>>

\* Two threads of one process and the only ones of two others.
TwoInOne == t1 :> p1 @@ t2 :> p1 @@ t3 :> p2 @@ t4 :> p3

\* A log that only crashes cut, and one that fails, rots and is used again.
Log == INSTANCE WriteAheadLog WITH
  Sizes <- {0, 1, 5, 8}, MaxRecords <- 3, MaxFailures <- 0, MaxDamage <- 0, MaxCrashes <- 1,
  ReuseLogs <- FALSE
BadLog == INSTANCE WriteAheadLog WITH
  Sizes <- {1, 5, 8}, MaxRecords <- 2, MaxFailures <- 1, MaxDamage <- 1, MaxCrashes <- 1,
  ReuseLogs <- TRUE

ASSUME BlockAssumption == HeaderSize \in Nat \ {0} /\ BlockSize \in Nat /\ BlockSize > HeaderSize

EnvironmentInit == part \in Parts /\ Log!Init /\ Init /\ LimitsInit /\ QueueInit

EnvironmentNext ==
  /\ part' = part
  /\ \/ /\ \/ part = "log" /\ Log!Next
           \/ part = "bad log" /\ BadLog!Next
        /\ UNCHANGED <<vars, limitVars, queueVars>>
     \/ part = "locks" /\ Next /\ UNCHANGED <<logVars, limitVars, queueVars>>
     \/ part = "limits" /\ LimitsNext /\ UNCHANGED <<logVars, vars, queueVars>>
     \/ part = "queue" /\ QueueNext /\ UNCHANGED <<logVars, vars, limitVars>>

EnvironmentSpec == EnvironmentInit /\ [][EnvironmentNext]_allVars

-----------------------------------------------------------------------------
\* Until a write fails or a byte rots, the reader returns what was written up
\* to where a crash cut the file, and from any initial offset the records that
\* begin there or later.  Whatever was torn, dropped or damaged, it never glues
\* fragments of two records, invents a record or gives one twice.
LogExact ==
  /\ part = "log" => Log!TypeOK /\ Log!ReadsPrefix /\ Log!InitialOffsetExact
  /\ part = "bad log" => BadLog!TypeOK /\ BadLog!ReadsOnlyWritten
=============================================================================
