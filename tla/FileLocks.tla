----------------------------- MODULE FileLocks -----------------------------
(***************************************************************************)
(* The LOCK file of a database: PosixEnv::LockFile and UnlockFile          *)
(* (util/env_posix.cc) called by DBImpl::Recover, ~DBImpl and DestroyDB of *)
(* several threads of several processes.  A system call and a call of the  *)
(* table of locked files are a step each.  The record locks of fcntl       *)
(* belong to a process, and closing any descriptor of a file drops the     *)
(* locks its process has on it.                                            *)
(***************************************************************************)
EXTENDS Integers, FiniteSets

CONSTANTS
  Processes,
  ProcessOf,   \* per thread, its process
  Destroyers,  \* the threads that call DestroyDB rather than DB::Open
  MaxInodes,   \* bound: files named LOCK ever created
  None

Threads == DOMAIN ProcessOf

ASSUME ThreadsAssumption == \A t \in Threads : ProcessOf[t] \in Processes
ASSUME DestroyersAssumption == Destroyers \subseteq Threads
ASSUME InodesAssumption == MaxInodes \in Nat /\ None \notin Processes \cup Nat

VARIABLES
  linked,   \* the file that has the name LOCK, or None
  created,  \* files created so far
  owner,    \* per file, the process with a record lock on it, or None
  locked,   \* per process, whether locked_files_ holds the name
  thread    \* per thread: where it is, and the file of its descriptor

vars == <<linked, created, owner, locked, thread>>

Files == 1 .. MaxInodes
Idle == [pc |-> "idle", file |-> None]

Init ==
  /\ linked = None /\ created = 0
  /\ owner = [f \in Files |-> None]
  /\ locked = [p \in Processes |-> FALSE]
  /\ thread = [t \in Threads |-> Idle]

Goes(t, from, to) == thread[t].pc = from /\ thread' = [thread EXCEPT ![t].pc = to]

\* open(O_RDWR | O_CREAT)
Open(t) ==
  /\ thread[t] = Idle
  /\ IF linked = None
     THEN /\ created < MaxInodes
          /\ created' = created + 1 /\ linked' = created'
     ELSE UNCHANGED <<created, linked>>
  /\ thread' = [thread EXCEPT ![t] = [pc |-> "opened", file |-> linked']]
  /\ UNCHANGED <<owner, locked>>

\* Mutant: the result of the insertion is ignored.
InsertAlways(t) ==
  /\ Goes(t, "opened", "inserted")
  /\ locked' = [locked EXCEPT ![ProcessOf[t]] = TRUE]
  /\ UNCHANGED <<linked, created, owner>>

\* locks_.Insert(filename): a second thread of the process is refused.
Insert(t) ==
  /\ Goes(t, "opened", IF locked[ProcessOf[t]] THEN "refused" ELSE "inserted")
  /\ locked' = [locked EXCEPT ![ProcessOf[t]] = TRUE]
  /\ UNCHANGED <<linked, created, owner>>

\* Closing a descriptor: the record lock of the process on that file goes.
Closed(t) ==
  LET f == thread[t].file
  IN [owner EXCEPT ![f] = IF @ = ProcessOf[t] THEN None ELSE @]

CloseRefused(t) ==
  /\ thread[t].pc = "refused"
  /\ owner' = Closed(t)
  /\ thread' = [thread EXCEPT ![t] = Idle]
  /\ UNCHANGED <<linked, created, locked>>

\* Mutant: the result of fcntl is not tested.
LockUntested(t) ==
  /\ Goes(t, "inserted", "holding")
  /\ owner' = [owner EXCEPT ![thread[t].file] = IF @ = None THEN ProcessOf[t] ELSE @]
  /\ UNCHANGED <<linked, created, locked>>

\* fcntl(F_SETLK) gives the lock unless another process has it.
Lock(t) ==
  LET f == thread[t].file
      free == owner[f] \in {None, ProcessOf[t]}
  IN /\ Goes(t, "inserted", IF free THEN "holding" ELSE "denied")
     /\ owner' = [owner EXCEPT ![f] = IF free THEN ProcessOf[t] ELSE @]
     /\ UNCHANGED <<linked, created, locked>>

CloseDenied(t) ==
  /\ Goes(t, "denied", "closed")
  /\ owner' = Closed(t)
  /\ UNCHANGED <<linked, created, locked>>

RemoveDenied(t) ==
  /\ thread[t].pc = "closed"
  /\ thread' = [thread EXCEPT ![t] = Idle]
  /\ locked' = [locked EXCEPT ![ProcessOf[t]] = FALSE]
  /\ UNCHANGED <<linked, created, owner>>

-----------------------------------------------------------------------------
\* UnlockFile: fcntl(F_UNLCK), then the table, then the descriptor.
Unlock(t) ==
  /\ Goes(t, "holding", "unlocked")
  /\ owner' = Closed(t)
  /\ UNCHANGED <<linked, created, locked>>

RemoveUnlocked(t) ==
  /\ Goes(t, "unlocked", "removed")
  /\ locked' = [locked EXCEPT ![ProcessOf[t]] = FALSE]
  /\ UNCHANGED <<linked, created, owner>>

CloseRemoved(t) ==
  /\ thread[t].pc = "removed"
  /\ owner' = Closed(t)
  /\ thread' = [thread EXCEPT ![t] = IF t \in Destroyers THEN [@ EXCEPT !.pc = "deleting"] ELSE Idle]
  /\ UNCHANGED <<linked, created, locked>>

\* DestroyDB deletes the file once it is unlocked.
DeleteLockFile(t) ==
  /\ thread[t].pc = "deleting"
  /\ linked' = None
  /\ thread' = [thread EXCEPT ![t] = Idle]
  /\ UNCHANGED <<created, owner, locked>>

\* The process ends or is killed: its locks and its memory go.
Exit(p) ==
  /\ \E t \in Threads : ProcessOf[t] = p /\ thread[t] # Idle
  /\ owner' = [f \in Files |-> IF owner[f] = p THEN None ELSE owner[f]]
  /\ locked' = [locked EXCEPT ![p] = FALSE]
  /\ thread' = [t \in Threads |-> IF ProcessOf[t] = p THEN Idle ELSE thread[t]]
  /\ UNCHANGED <<linked, created>>

LockFile(t) ==
  \/ Open(t)
  \/ Insert(t)
  \/ CloseRefused(t)
  \/ Lock(t)
  \/ CloseDenied(t)
  \/ RemoveDenied(t)

UnlockFile(t) == Unlock(t) \/ RemoveUnlocked(t) \/ CloseRemoved(t)

Next ==
  \/ \E t \in Threads : LockFile(t) \/ UnlockFile(t) \/ DeleteLockFile(t)
  \/ \E p \in Processes : Exit(p)

Spec == Init /\ [][Next]_vars

-----------------------------------------------------------------------------
Holding(t) == thread[t].pc = "holding"
Listed(t) == thread[t].pc \in {"inserted", "denied", "closed", "holding", "unlocked"}

TypeOK ==
  /\ linked \in Files \cup {None}
  /\ created \in 0 .. MaxInodes
  /\ owner \in [Files -> Processes \cup {None}]
  /\ locked \in [Processes -> BOOLEAN]
  /\ \A t \in Threads :
       /\ thread[t].pc \in {"idle", "opened", "refused", "inserted", "denied", "closed",
                            "holding", "unlocked", "removed", "deleting"}
       /\ thread[t].file \in (1 .. created) \cup {None}
       /\ thread[t].file = None <=> thread[t].pc = "idle"
       /\ Listed(t) => locked[ProcessOf[t]]

\* Two threads of one process never both hold the lock: what the table of
\* locked files adds to fcntl.
OneHolderInProcess ==
  \A t, u \in Threads : Holding(t) /\ Holding(u) /\ ProcessOf[t] = ProcessOf[u] => t = u

\* No lock outlives the calls that took it: a name in the table belongs to
\* one thread of the process that locks, holds or unlocks the file, a
\* record lock to a thread that holds it, so the next DB::Open can succeed.
NoLockLeaks ==
  /\ \A p \in Processes : locked[p] =>
       \E t \in Threads : ProcessOf[t] = p /\ Listed(t)
  /\ \A f \in Files : owner[f] # None =>
       \E t \in Threads : ProcessOf[t] = owner[f] /\ Holding(t) /\ thread[t].file = f

\* What fcntl adds to the table: the only threads of two processes never both
\* hold the lock of one file, whatever the threads of other processes do, and
\* no lock outlives the calls that took it.
Alone(t) == \A u \in Threads : ProcessOf[u] = ProcessOf[t] => u = t
OneProcess ==
  /\ NoLockLeaks
  /\ \A t, u \in Threads :
       /\ Alone(t) /\ Holding(t) /\ Alone(u) /\ Holding(u)
       /\ thread[t].file = thread[u].file
       => t = u

\* At most one caller of LockFile has the database at a time, whatever
\* process it is in.
OneHolder == \A t, u \in Threads : Holding(t) /\ Holding(u) => t = u
=============================================================================
