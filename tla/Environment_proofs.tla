-------------------------- MODULE Environment_proofs --------------------------
(***************************************************************************)
(* PosixEnv, for every set of processes, threads, files and works: the     *)
(* LOCK file, the limits on open files and the background thread.          *)
(***************************************************************************)
EXTENDS FileLocks, ReadLimits, WorkQueue, FiniteSetTheorems, SequenceTheorems, TLAPS

-----------------------------------------------------------------------------
(***************************************************************************)
(* FileLocks: what the table of locked files keeps within a process.       *)
(* LocksInv is inductive: the entry of a process in its table belongs to   *)
(* one thread (OneListed), so that no other call can remove it, and a      *)
(* record lock to one that holds the file.                                 *)
(***************************************************************************)
OneListed ==
  \A t, u \in Threads : Listed(t) /\ Listed(u) /\ ProcessOf[t] = ProcessOf[u] => t = u

Threading == [pc : {"idle", "opened", "refused", "inserted", "denied", "closed",
                    "holding", "unlocked", "removed", "deleting"},
              file : Files \cup {None}]

LocksInv ==
  /\ TypeOK /\ thread \in [Threads -> Threading]
  /\ linked \in (1 .. created) \cup {None}
  /\ OneListed
  /\ NoLockLeaks

LEMMA LocksInit == Init => LocksInv
<1> SUFFICES ASSUME Init PROVE LocksInv
  OBVIOUS
<1>1. TypeOK
  BY InodesAssumption DEF Init, TypeOK, Idle, Listed
<1> QED
  BY <1>1 DEF Init, LocksInv, OneListed, NoLockLeaks, Idle, Listed, Threading

\* A step of a thread that does not hold the file, and at most closes a
\* descriptor of it, leaves each name and each record lock to its owner.
LEMMA ClosingKeeps ==
  ASSUME LocksInv, NEW t \in Threads, ~Holding(t), Listed(t) => Listed(t)',
         owner' \in {owner, Closed(t)}, thread[t].pc = "idle" => owner' = owner, locked' = locked,
         \A u \in Threads \ {t} : thread'[u] = thread[u]
  PROVE  NoLockLeaks'
<1> USE ThreadsAssumption, InodesAssumption DEF LocksInv
<1>1. \A f \in Files : owner'[f] # None => owner'[f] = owner[f]
  <2>1. CASE owner' = owner
    BY <2>1
  <2>2. CASE owner' = Closed(t) /\ thread[t].pc # "idle"
    BY <2>2 DEF Closed, TypeOK, Files
  <2> QED
    BY <2>1, <2>2
<1>2. \A u \in Threads : Listed(u) => Listed(u)'
  BY DEF Listed
<1>3. \A u \in Threads : Holding(u) => thread'[u] = thread[u] /\ Holding(u)'
  BY DEF Holding
<1>4. \A p \in Processes : locked'[p] => \E u \in Threads : ProcessOf[u] = p /\ Listed(u)'
  BY <1>2 DEF NoLockLeaks
<1>5. \A f \in Files : owner'[f] # None =>
        \E u \in Threads : ProcessOf[u] = owner'[f] /\ Holding(u)' /\ thread'[u].file = f
  BY <1>1, <1>3 DEF NoLockLeaks
<1> QED
  BY <1>4, <1>5 DEF NoLockLeaks

LEMMA OpenInv ==
  ASSUME LocksInv, NEW t \in Threads, Open(t)
  PROVE  LocksInv'
<1> USE ThreadsAssumption, InodesAssumption DEF LocksInv
<1>1. thread' \in [Threads -> Threading]
  BY DEF Open, Threading, Idle, Goes, TypeOK, Files
<1>2. TypeOK'
  BY <1>1 DEF Open, TypeOK, OneListed, Threading, Idle, Goes, Listed, Closed, Files
<1>3. OneListed'
  BY DEF Open, TypeOK, OneListed, Threading, Idle, Goes, Listed
<1>4. NoLockLeaks'
  BY ClosingKeeps DEF Open, TypeOK, Threading, Idle, Listed, Holding
<1>5. (linked \in (1 .. created) \cup {None})'
  BY DEF Open, TypeOK, Files, Goes
<1> QED
  BY <1>1, <1>2, <1>3, <1>4, <1>5

LEMMA InsertInv ==
  ASSUME LocksInv, NEW t \in Threads, Insert(t)
  PROVE  LocksInv'
<1> USE ThreadsAssumption, InodesAssumption DEF LocksInv
<1>1. thread' \in [Threads -> Threading]
  BY DEF Insert, Threading, Idle, Goes, TypeOK, Files
<1>2. TypeOK'
  BY <1>1 DEF Insert, TypeOK, OneListed, Threading, Idle, Goes, Listed, Closed, Files
<1>3. OneListed'
  BY DEF Insert, TypeOK, OneListed, Threading, Idle, Goes, Listed
<1>4. NoLockLeaks'
  BY DEF Insert, TypeOK, OneListed, NoLockLeaks, Threading, Idle, Goes, Listed, Holding, Closed, Files
<1>5. (linked \in (1 .. created) \cup {None})'
  BY DEF Insert, TypeOK, Files, Goes
<1> QED
  BY <1>1, <1>2, <1>3, <1>4, <1>5

LEMMA CloseRefusedInv ==
  ASSUME LocksInv, NEW t \in Threads, CloseRefused(t)
  PROVE  LocksInv'
<1> USE ThreadsAssumption, InodesAssumption DEF LocksInv
<1>1. thread' \in [Threads -> Threading]
  BY DEF CloseRefused, Threading, Idle, Goes, TypeOK, Files
<1>2. TypeOK'
  BY <1>1 DEF CloseRefused, TypeOK, OneListed, Threading, Idle, Goes, Listed, Closed, Files
<1>3. OneListed'
  BY DEF CloseRefused, TypeOK, OneListed, Threading, Idle, Goes, Listed
<1>4. NoLockLeaks'
  BY ClosingKeeps DEF CloseRefused, TypeOK, Threading, Idle, Goes, Listed, Holding
<1>5. (linked \in (1 .. created) \cup {None})'
  BY DEF CloseRefused, TypeOK, Files, Goes
<1> QED
  BY <1>1, <1>2, <1>3, <1>4, <1>5

LEMMA LockInv ==
  ASSUME LocksInv, NEW t \in Threads, Lock(t)
  PROVE  LocksInv'
<1> USE ThreadsAssumption, InodesAssumption DEF LocksInv
<1>1. thread' \in [Threads -> Threading]
  BY DEF Lock, Threading, Idle, Goes, TypeOK, Files
<1>2. TypeOK'
  BY <1>1 DEF Lock, TypeOK, OneListed, Threading, Idle, Goes, Listed, Closed, Files
<1>3. OneListed'
  BY DEF Lock, TypeOK, OneListed, Threading, Idle, Goes, Listed
<1>4. NoLockLeaks'
  BY DEF Lock, TypeOK, OneListed, NoLockLeaks, Threading, Idle, Goes, Listed, Holding, Closed, Files
<1>5. (linked \in (1 .. created) \cup {None})'
  BY DEF Lock, TypeOK, Files, Goes
<1> QED
  BY <1>1, <1>2, <1>3, <1>4, <1>5

LEMMA CloseDeniedInv ==
  ASSUME LocksInv, NEW t \in Threads, CloseDenied(t)
  PROVE  LocksInv'
<1> USE ThreadsAssumption, InodesAssumption DEF LocksInv
<1>1. thread' \in [Threads -> Threading]
  BY DEF CloseDenied, Threading, Idle, Goes, TypeOK, Files
<1>2. TypeOK'
  BY <1>1 DEF CloseDenied, TypeOK, OneListed, Threading, Idle, Goes, Listed, Closed, Files
<1>3. OneListed'
  BY DEF CloseDenied, TypeOK, OneListed, Threading, Idle, Goes, Listed
<1>4. NoLockLeaks'
  BY ClosingKeeps DEF CloseDenied, TypeOK, Threading, Idle, Goes, Listed, Holding
<1>5. (linked \in (1 .. created) \cup {None})'
  BY DEF CloseDenied, TypeOK, Files, Goes
<1> QED
  BY <1>1, <1>2, <1>3, <1>4, <1>5

LEMMA RemoveDeniedInv ==
  ASSUME LocksInv, NEW t \in Threads, RemoveDenied(t)
  PROVE  LocksInv'
<1> USE ThreadsAssumption, InodesAssumption DEF LocksInv
<1>1. thread' \in [Threads -> Threading]
  BY DEF RemoveDenied, Threading, Idle, Goes, TypeOK, Files
<1>2. TypeOK'
  BY <1>1 DEF RemoveDenied, TypeOK, OneListed, Threading, Idle, Goes, Listed, Closed, Files
<1>3. OneListed'
  BY DEF RemoveDenied, TypeOK, OneListed, Threading, Idle, Goes, Listed
<1>4. NoLockLeaks'
  BY DEF RemoveDenied, TypeOK, OneListed, NoLockLeaks, Threading, Idle, Goes, Listed, Holding, Closed, Files
<1>5. (linked \in (1 .. created) \cup {None})'
  BY DEF RemoveDenied, TypeOK, Files, Goes
<1> QED
  BY <1>1, <1>2, <1>3, <1>4, <1>5

LEMMA UnlockInv ==
  ASSUME LocksInv, NEW t \in Threads, Unlock(t)
  PROVE  LocksInv'
<1> USE ThreadsAssumption, InodesAssumption DEF LocksInv
<1>1. thread' \in [Threads -> Threading]
  BY DEF Unlock, Threading, Idle, Goes, TypeOK, Files
<1>2. TypeOK'
  BY <1>1 DEF Unlock, TypeOK, OneListed, Threading, Idle, Goes, Listed, Closed, Files
<1>3. OneListed'
  BY DEF Unlock, TypeOK, OneListed, Threading, Idle, Goes, Listed
<1>4. NoLockLeaks'
  <2>1. \A u \in Threads : Listed(u) => Listed(u)'
    BY DEF Unlock, Goes, Listed
  <2>2. \A u \in Threads \ {t} : Holding(u) => Holding(u)' /\ thread'[u] = thread[u]
    BY DEF Unlock, Goes, Holding
  <2>3. \A f \in Files : owner'[f] # None =>
          owner'[f] = owner[f] /\ ~(f = thread[t].file /\ owner[f] = ProcessOf[t])
    BY DEF Unlock, Goes, Closed, TypeOK, Files
  <2>4. \A f \in Files : owner'[f] # None =>
          \E u \in Threads \ {t} : ProcessOf[u] = owner'[f] /\ Holding(u) /\ thread[u].file = f
    BY <2>3 DEF NoLockLeaks
  <2> QED
    BY <2>1, <2>2, <2>4 DEF NoLockLeaks, Unlock
<1>5. (linked \in (1 .. created) \cup {None})'
  BY DEF Unlock, TypeOK, Files, Goes
<1> QED
  BY <1>1, <1>2, <1>3, <1>4, <1>5

LEMMA RemoveUnlockedInv ==
  ASSUME LocksInv, NEW t \in Threads, RemoveUnlocked(t)
  PROVE  LocksInv'
<1> USE ThreadsAssumption, InodesAssumption DEF LocksInv
<1>1. thread' \in [Threads -> Threading]
  BY DEF RemoveUnlocked, Threading, Idle, Goes, TypeOK, Files
<1>2. TypeOK'
  BY <1>1 DEF RemoveUnlocked, TypeOK, OneListed, Threading, Idle, Goes, Listed, Closed, Files
<1>3. OneListed'
  BY DEF RemoveUnlocked, TypeOK, OneListed, Threading, Idle, Goes, Listed
<1>4. NoLockLeaks'
  BY DEF RemoveUnlocked, TypeOK, OneListed, NoLockLeaks, Threading, Idle, Goes, Listed, Holding, Closed, Files
<1>5. (linked \in (1 .. created) \cup {None})'
  BY DEF RemoveUnlocked, TypeOK, Files, Goes
<1> QED
  BY <1>1, <1>2, <1>3, <1>4, <1>5

LEMMA CloseRemovedInv ==
  ASSUME LocksInv, NEW t \in Threads, CloseRemoved(t)
  PROVE  LocksInv'
<1> USE ThreadsAssumption, InodesAssumption DEF LocksInv
<1>1. thread' \in [Threads -> Threading]
  BY DEF CloseRemoved, Threading, Idle, Goes, TypeOK, Files
<1>2. TypeOK'
  BY <1>1 DEF CloseRemoved, TypeOK, OneListed, Threading, Idle, Goes, Listed, Closed, Files
<1>3. OneListed'
  BY DEF CloseRemoved, TypeOK, OneListed, Threading, Idle, Goes, Listed
<1>4. NoLockLeaks'
  BY ClosingKeeps DEF CloseRemoved, TypeOK, Threading, Idle, Goes, Listed, Holding
<1>5. (linked \in (1 .. created) \cup {None})'
  BY DEF CloseRemoved, TypeOK, Files, Goes
<1> QED
  BY <1>1, <1>2, <1>3, <1>4, <1>5

LEMMA DeleteLockFileInv ==
  ASSUME LocksInv, NEW t \in Threads, DeleteLockFile(t)
  PROVE  LocksInv'
<1> USE ThreadsAssumption, InodesAssumption DEF LocksInv
<1>1. thread' \in [Threads -> Threading]
  BY DEF DeleteLockFile, Threading, Idle, Goes, TypeOK, Files
<1>2. TypeOK'
  BY <1>1 DEF DeleteLockFile, TypeOK, OneListed, Threading, Idle, Goes, Listed, Closed, Files
<1>3. OneListed'
  BY DEF DeleteLockFile, TypeOK, OneListed, Threading, Idle, Goes, Listed
<1>4. NoLockLeaks'
  BY DEF DeleteLockFile, TypeOK, OneListed, NoLockLeaks, Threading, Idle, Goes, Listed, Holding, Closed, Files
<1>5. (linked \in (1 .. created) \cup {None})'
  BY DEF DeleteLockFile, TypeOK, Files, Goes
<1> QED
  BY <1>1, <1>2, <1>3, <1>4, <1>5

\* What is left when a process ends belongs to the others.
LEMMA ExitInv ==
  ASSUME LocksInv, NEW p \in Processes, Exit(p)
  PROVE  LocksInv'
<1> USE ThreadsAssumption, InodesAssumption DEF LocksInv
<1>1. thread' \in [Threads -> Threading]
  BY DEF Exit, Threading, Idle
<1>2. TypeOK'
  BY <1>1 DEF Exit, TypeOK, Threading, Idle, Listed
<1>3. OneListed'
  BY DEF Exit, OneListed, Idle, Listed
<1>4. NoLockLeaks'
  BY DEF Exit, TypeOK, NoLockLeaks, Idle, Listed, Holding
<1> QED
  BY <1>1, <1>2, <1>3, <1>4 DEF Exit

LEMMA LocksStep == LocksInv /\ [Next]_vars => LocksInv'
<1> SUFFICES ASSUME LocksInv, [Next]_vars PROVE LocksInv'
  OBVIOUS
<1>1. ASSUME NEW t \in Threads, LockFile(t) PROVE LocksInv'
  BY <1>1, OpenInv, InsertInv, CloseRefusedInv, LockInv, CloseDeniedInv, RemoveDeniedInv DEF LockFile
<1>2. ASSUME NEW t \in Threads, UnlockFile(t) PROVE LocksInv'
  BY <1>2, UnlockInv, RemoveUnlockedInv, CloseRemovedInv DEF UnlockFile
<1>3. CASE UNCHANGED vars
  BY <1>3 DEF vars, LocksInv, TypeOK, OneListed, NoLockLeaks, Listed, Holding
<1> QED
  BY <1>1, <1>2, <1>3, DeleteLockFileInv, ExitInv DEF Next

-----------------------------------------------------------------------------
\* The invariant holds throughout.
THEOREM LocksInvariant == Spec => []LocksInv
<1> QED
  BY LocksInit, LocksStep, PTL DEF Spec

\* Type correctness, with the entry of each thread that relies on it.
THEOREM LocksTypeCorrect == Spec => []TypeOK
<1>1. LocksInv => TypeOK
  BY DEF LocksInv
<1> QED
  BY <1>1, LocksInvariant, PTL

\* The table keeps the threads of a process apart, whatever the others and
\* the record locks do.
THEOREM AlwaysOneHolder == Spec => []OneHolderInProcess
<1>1. LocksInv => OneHolderInProcess
  BY DEF LocksInv, OneListed, OneHolderInProcess, Holding, Listed
<1> QED
  BY <1>1, LocksInvariant, PTL

\* No lock outlives the calls that took it.
THEOREM NoLockEverLeaks == Spec => []NoLockLeaks
<1>1. LocksInv => NoLockLeaks
  BY DEF LocksInv
<1> QED
  BY <1>1, LocksInvariant, PTL

-----------------------------------------------------------------------------
(***************************************************************************)
(* A thread that is alone in its process, when it holds the lock, has the  *)
(* record lock of the file: no other thread of the process closes a        *)
(* descriptor of it.  So such threads exclude each other from one file,    *)
(* and where nobody deletes the file there is only one.                    *)
(***************************************************************************)
HoldersOwn ==
  \A t \in Threads : Alone(t) /\ Holding(t) => owner[thread[t].file] = ProcessOf[t]

OneFile ==
  \A t \in Threads : thread[t].pc # "deleting" /\ (thread[t].file # None => thread[t].file = linked)

\* A descriptor closed drops no record lock of a thread of another process.
LEMMA OthersStayOwners ==
  ASSUME LocksInv, HoldersOwn, NEW t \in Threads, owner' \in {owner, Closed(t)},
         thread[t].file # None \/ owner' = owner,
         \A u \in Threads \ {t} : thread'[u] = thread[u], ~Holding(t)'
  PROVE  HoldersOwn'
<1> SUFFICES ASSUME NEW u \in Threads, Alone(u), Holding(u)'
             PROVE  owner'[thread'[u].file] = ProcessOf[u]
  BY DEF HoldersOwn, Alone
<1>1. u # t /\ thread'[u] = thread[u] /\ Holding(u) /\ ProcessOf[u] # ProcessOf[t]
  BY DEF Holding, Alone
<1>2. thread[u].file \in Files /\ owner[thread[u].file] = ProcessOf[u]
  BY <1>1, InodesAssumption DEF LocksInv, TypeOK, Holding, HoldersOwn, Files
<1>3. owner' = owner \/ owner' = Closed(t)
  OBVIOUS
<1>4. CASE owner' = Closed(t) /\ thread[t].file # None
  BY <1>1, <1>2, <1>4 DEF Closed, LocksInv, TypeOK
<1> QED
  BY <1>1, <1>2, <1>3, <1>4

\* No step gives the lock that such a thread holds to a second process, or
\* takes it away.
LEMMA HoldersStep ==
  ASSUME LocksInv, HoldersOwn, [Next]_vars
  PROVE  HoldersOwn'
<1> USE InodesAssumption, ThreadsAssumption
<1>0. /\ thread \in [Threads -> Threading] /\ owner \in [Files -> Processes \cup {None}]
      /\ \A t \in Threads : thread[t].pc # "idle" => thread[t].file \in Files /\ thread[t].file # None
  BY DEF LocksInv, TypeOK, Files
<1>1. ASSUME NEW t \in Threads, Open(t) PROVE HoldersOwn'
  <2>1. owner' = owner /\ thread' = [thread EXCEPT ![t] = [pc |-> "opened", file |-> linked']]
    BY <1>1 DEF Open
  <2>2. (\A u \in Threads \ {t} : thread'[u] = thread[u]) /\ thread'[t].pc = "opened"
    BY <1>0, <2>1
  <2> QED
    BY <2>1, <2>2, OthersStayOwners DEF Holding
<1>2. ASSUME NEW t \in Threads,
             CloseRefused(t) \/ RemoveDenied(t) \/ CloseRemoved(t) \/ DeleteLockFile(t)
      PROVE  HoldersOwn'
  <2>1. /\ thread[t].pc \in {"refused", "closed", "removed", "deleting"}
        /\ owner' \in {owner, Closed(t)}
    BY <1>2 DEF CloseRefused, RemoveDenied, CloseRemoved, DeleteLockFile
  <2>2. PICK v \in {Idle, [thread[t] EXCEPT !.pc = "deleting"]} : thread' = [thread EXCEPT ![t] = v]
    BY <1>2 DEF CloseRefused, RemoveDenied, CloseRemoved, DeleteLockFile
  <2>3. v.pc \in {"idle", "deleting"}
    BY <1>0 DEF Idle, Threading
  <2>4. (\A u \in Threads \ {t} : thread'[u] = thread[u]) /\ thread'[t].pc \in {"idle", "deleting"}
    BY <1>0, <2>2, <2>3
  <2> QED
    BY <1>0, <2>1, <2>4, OthersStayOwners DEF Holding
<1>3. ASSUME NEW t \in Threads, Insert(t) \/ CloseDenied(t) \/ Unlock(t) \/ RemoveUnlocked(t)
      PROVE  HoldersOwn'
  <2>1. /\ thread[t].pc \in {"opened", "denied", "holding", "unlocked"}
        /\ owner' \in {owner, Closed(t)}
    BY <1>3 DEF Insert, CloseDenied, Unlock, RemoveUnlocked, Goes
  <2>2. PICK pc \in {"refused", "inserted", "closed", "unlocked", "removed"} :
          thread' = [thread EXCEPT ![t].pc = pc]
    BY <1>3 DEF Insert, CloseDenied, Unlock, RemoveUnlocked, Goes
  <2>3. /\ \A u \in Threads \ {t} : thread'[u] = thread[u]
        /\ thread'[t].pc \in {"refused", "inserted", "closed", "unlocked", "removed"}
    BY <1>0, <2>2
  <2> QED
    BY <1>0, <2>1, <2>3, OthersStayOwners DEF Holding
<1>4. ASSUME NEW t \in Threads, Lock(t) PROVE HoldersOwn'
  <2> DEFINE f == thread[t].file
             free == owner[f] \in {None, ProcessOf[t]}
  <2>1. /\ thread[t].pc = "inserted"
        /\ owner' = [owner EXCEPT ![f] = IF free THEN ProcessOf[t] ELSE owner[f]]
        /\ thread' = [thread EXCEPT ![t].pc = IF free THEN "holding" ELSE "denied"]
    BY <1>4 DEF Lock, Goes
  <2>2. /\ \A u \in Threads \ {t} : thread'[u] = thread[u]
        /\ thread'[t].pc = (IF free THEN "holding" ELSE "denied") /\ thread'[t].file = f
    BY <1>0, <2>1
  <2>3. f \in Files /\ owner'[f] = (IF free THEN ProcessOf[t] ELSE owner[f])
        /\ \A g \in Files \ {f} : owner'[g] = owner[g]
    BY <1>0, <2>1
  <2>4. ASSUME NEW u \in Threads, Alone(u), Holding(u)' PROVE owner'[thread'[u].file] = ProcessOf[u]
    <3>1. CASE u = t
      BY <2>2, <2>3, <2>4, <3>1 DEF Holding
    <3>2. CASE u # t
      <4>1. /\ thread'[u] = thread[u] /\ ProcessOf[u] # ProcessOf[t] /\ thread[u].file \in Files
            /\ owner[thread[u].file] = ProcessOf[u] /\ ProcessOf[u] # None
        BY <1>0, <2>2, <2>4, <3>2 DEF Holding, Alone, HoldersOwn
      <4> QED
        BY <2>3, <4>1
    <3> QED
      BY <3>1, <3>2
  <2> QED
    BY <2>4 DEF HoldersOwn, Alone
<1>5. ASSUME NEW p \in Processes, Exit(p) PROVE HoldersOwn'
  <2>1. /\ \A f \in Files : owner'[f] = IF owner[f] = p THEN None ELSE owner[f]
        /\ \A t \in Threads : thread'[t] = IF ProcessOf[t] = p THEN Idle ELSE thread[t]
    BY <1>5 DEF Exit
  <2>2. ASSUME NEW u \in Threads, Alone(u), Holding(u)' PROVE owner'[thread'[u].file] = ProcessOf[u]
    <3>1. ProcessOf[u] # p /\ thread'[u] = thread[u] /\ Holding(u)
      BY <2>1, <2>2 DEF Holding, Idle
    <3>2. thread[u].file \in Files /\ owner[thread[u].file] = ProcessOf[u]
      BY <1>0, <2>2, <3>1 DEF Holding, HoldersOwn
    <3> QED
      BY <2>1, <3>1, <3>2
  <2> QED
    BY <2>2 DEF HoldersOwn, Alone
<1>6. CASE UNCHANGED vars
  BY <1>6 DEF vars, HoldersOwn, Holding, Alone
<1> QED
  BY <1>1, <1>2, <1>3, <1>4, <1>5, <1>6 DEF Next, LockFile, UnlockFile

\* Where nobody calls DestroyDB, every descriptor is of the file with the name.
LEMMA OneFileStep ==
  ASSUME LocksInv, Destroyers = {}, OneFile, [Next]_vars
  PROVE  OneFile'
<1> USE InodesAssumption
<1>0. thread \in [Threads -> Threading]
  BY DEF LocksInv
<1>1. ASSUME NEW t \in Threads, Open(t) PROVE OneFile'
  <2>1. thread' = [thread EXCEPT ![t] = [pc |-> "opened", file |-> linked']]
    BY <1>1 DEF Open
  <2>2. /\ \A u \in Threads \ {t} : thread'[u] = thread[u]
        /\ thread'[t].pc = "opened" /\ thread'[t].file = linked'
    BY <1>0, <2>1
  <2>3. linked # None => linked' = linked
    BY <1>1 DEF Open
  <2> QED
    BY <2>2, <2>3 DEF OneFile
<1>2. ASSUME NEW t \in Threads, CloseRefused(t) \/ RemoveDenied(t) \/ CloseRemoved(t) PROVE OneFile'
  <2>1. thread' = [thread EXCEPT ![t] = Idle] /\ linked' = linked
    BY <1>2 DEF CloseRefused, RemoveDenied, CloseRemoved
  <2> QED
    BY <1>0, <2>1 DEF OneFile, Idle
<1>3. ASSUME NEW t \in Threads,
             Insert(t) \/ Lock(t) \/ CloseDenied(t) \/ Unlock(t) \/ RemoveUnlocked(t)
      PROVE  OneFile'
  <2>1. PICK pc \in {"refused", "inserted", "holding", "denied", "closed", "unlocked", "removed"} :
          thread' = [thread EXCEPT ![t].pc = pc]
    BY <1>3 DEF Insert, Lock, CloseDenied, Unlock, RemoveUnlocked, Goes
  <2>2. linked' = linked
    BY <1>3 DEF Insert, Lock, CloseDenied, Unlock, RemoveUnlocked
  <2> QED
    BY <1>0, <2>1, <2>2 DEF OneFile
<1>4. ASSUME NEW t \in Threads, DeleteLockFile(t) PROVE FALSE
  BY <1>4 DEF DeleteLockFile, OneFile
<1>5. ASSUME NEW p \in Processes, Exit(p) PROVE OneFile'
  BY <1>5 DEF Exit, OneFile, Idle
<1>6. CASE UNCHANGED vars
  BY <1>6 DEF vars, OneFile
<1> QED
  BY <1>1, <1>2, <1>3, <1>4, <1>5, <1>6 DEF Next, LockFile, UnlockFile

\* What the record lock adds to the table: the only threads of two processes
\* never both hold one file, though other processes open, delete and close
\* it through many threads; and no lock outlives its holder.
THEOREM ProcessesExclude == Spec => []OneProcess
<1>1. Init => HoldersOwn
  BY DEF Init, HoldersOwn, Holding, Idle
<1>2. LocksInv /\ HoldersOwn /\ [Next]_vars => HoldersOwn'
  BY HoldersStep
<1>3. LocksInv /\ HoldersOwn => OneProcess
  BY DEF OneProcess, LocksInv, HoldersOwn, Alone
<1> QED
  BY <1>1, <1>2, <1>3, LocksInvariant, PTL DEF Spec

\* Processes of one thread each that delete no file: at most one caller of
\* LockFile has the database, whatever is opened, refused, closed or killed.
THEOREM OneCallerHolds ==
  ASSUME \A t \in Threads : Alone(t), Destroyers = {}
  PROVE  Spec => []OneHolder
<1>1. Init => OneFile /\ HoldersOwn
  BY DEF Init, OneFile, HoldersOwn, Holding, Idle
<1>2. LocksInv /\ OneFile /\ HoldersOwn /\ [Next]_vars => OneFile' /\ HoldersOwn'
  BY HoldersStep, OneFileStep
<1>3. LocksInv /\ OneFile /\ HoldersOwn => OneHolder
  <2> SUFFICES ASSUME LocksInv, OneFile, HoldersOwn,
                      NEW t \in Threads, NEW u \in Threads, Holding(t), Holding(u)
               PROVE  t = u
    BY DEF OneHolder
  <2>1. thread[t].file = linked /\ thread[u].file = linked
    BY DEF LocksInv, TypeOK, OneFile, Holding
  <2>2. ProcessOf[t] = ProcessOf[u]
    BY <2>1 DEF HoldersOwn
  <2> QED
    BY <2>2 DEF Alone
<1> QED
  BY <1>1, <1>2, <1>3, LocksInvariant, PTL DEF Spec

-----------------------------------------------------------------------------
(***************************************************************************)
(* ReadLimits: no right is lost or invented (CountersExact), from which it *)
(* follows that the limits hold (WithinLimits) although the test and the   *)
(* subtraction of Acquire are one step and the addition of a refused call  *)
(* another.                                                                *)
(***************************************************************************)
\* The handles in some set of states.
In(S) == {h \in Handles : at[h] \in S}

MapTaking == MapStates \cup {"map_refused"}
FileTaking == FileStates \cup {"file_refused"}

\* How a step of one handle changes the number of handles in S.
LEMMA Count ==
  ASSUME NEW S, NEW h \in Handles, NEW from, NEW to,
         at \in [Handles -> States], Moves(h, from, to)
  PROVE  /\ Cardinality(In(S)) \in Nat /\ Cardinality(In(S)') \in Nat
         /\ (from \in S <=> to \in S) => Cardinality(In(S)') = Cardinality(In(S))
         /\ from \notin S /\ to \in S => Cardinality(In(S)') = Cardinality(In(S)) + 1
         /\ from \in S /\ to \notin S => Cardinality(In(S)') = Cardinality(In(S)) - 1
<1>1. IsFiniteSet(In(S)) /\ IsFiniteSet(In(S)')
  BY HandlesAssumption, FS_Subset DEF In
<1>2. Cardinality(In(S)) \in Nat /\ Cardinality(In(S)') \in Nat
  BY <1>1, FS_CardinalityType
<1>3. \A k \in Handles : at'[k] = IF k = h THEN to ELSE at[k]
  BY DEF Moves
<1>4. (from \in S <=> to \in S) => In(S)' = In(S)
  BY <1>3 DEF In, Moves
<1>5. ASSUME from \notin S, to \in S
      PROVE  Cardinality(In(S)') = Cardinality(In(S)) + 1
  <2>1. In(S)' = In(S) \cup {h} /\ h \notin In(S)
    BY <1>3, <1>5 DEF In, Moves
  <2> QED
    BY <1>1, <2>1, FS_AddElement
<1>6. ASSUME from \in S, to \notin S
      PROVE  Cardinality(In(S)') = Cardinality(In(S)) - 1
  <2>1. In(S)' = In(S) \ {h} /\ h \in In(S)
    BY <1>3, <1>6 DEF In, Moves
  <2> QED
    BY <1>1, <2>1, FS_RemoveElement
<1> QED
  BY <1>2, <1>4, <1>5, <1>6

LEMMA TakersAreIn ==
  /\ MapTakers = In(MapTaking) /\ FileTakers = In(FileTaking)
  /\ MapHolders = In(MapStates) /\ FileHolders = In(FileStates)
BY DEF MapTakers, FileTakers, MapHolders, FileHolders, In, MapTaking, FileTaking

\* Whoever holds a region or a descriptor has taken it from the counter.
LEMMA HoldersTook ==
  /\ Cardinality(In(MapStates)) <= Cardinality(In(MapTaking))
  /\ Cardinality(In(FileStates)) <= Cardinality(In(FileTaking))
<1>1. \A S : IsFiniteSet(In(S))
  BY HandlesAssumption, FS_Subset DEF In
<1>2. In(MapStates) \subseteq In(MapTaking) /\ In(FileStates) \subseteq In(FileTaking)
  BY DEF In, MapTaking, FileTaking
<1> QED
  BY <1>1, <1>2, FS_Subset

-----------------------------------------------------------------------------
\* The invariant; LimitsTypeOK follows from it.
LimitsInv ==
  /\ mmaps \in Int /\ files \in Int
  /\ at \in [Handles -> States]
  /\ CountersExact
  /\ WithinLimits

One(b) == IF b THEN 1 ELSE 0

LEMMA LimitsStart == LimitsInit => LimitsInv
<1> SUFFICES ASSUME LimitsInit PROVE LimitsInv
  OBVIOUS
<1>1. at \in [Handles -> States]
  BY DEF LimitsInit, States
<1>2. MapTakers = {} /\ FileTakers = {} /\ MapHolders = {} /\ FileHolders = {}
  BY DEF LimitsInit, MapTakers, FileTakers, MapHolders, FileHolders, MapStates, FileStates
<1> QED
  BY <1>1, <1>2, FS_EmptySet, LimitsAssumption DEF LimitsInit, LimitsInv, CountersExact, WithinLimits

\* A step of one handle that changes the counters by what it takes or gives
\* back, and takes a region or a descriptor only from a counter above zero.
LEMMA Step ==
  ASSUME LimitsInv, NEW h \in Handles, NEW from, NEW to \in States, Moves(h, from, to),
         mmaps' = mmaps + One(from \in MapTaking) - One(to \in MapTaking),
         files' = files + One(from \in FileTaking) - One(to \in FileTaking),
         from \notin MapStates /\ to \in MapStates => mmaps > 0 /\ from \notin MapTaking,
         from \notin FileStates /\ to \in FileStates => files > 0 /\ from \notin FileTaking
  PROVE  LimitsInv'
<1> USE LimitsAssumption DEF LimitsInv
<1>1. at' \in [Handles -> States]
  BY DEF Moves
<1>2. mmaps' \in Int /\ files' \in Int
  BY DEF One
<1>3. MapTakers' = In(MapTaking)' /\ FileTakers' = In(FileTaking)'
  BY DEF MapTakers, FileTakers, In, MapTaking, FileTaking
<1>4. MapHolders' = In(MapStates)' /\ FileHolders' = In(FileStates)'
  BY DEF MapHolders, FileHolders, In
<1>5. /\ mmaps = MaxMmaps - Cardinality(In(MapTaking))
      /\ files = MaxFiles - Cardinality(In(FileTaking))
      /\ Cardinality(In(MapStates)) <= MaxMmaps
      /\ Cardinality(In(FileStates)) <= MaxFiles
  BY TakersAreIn DEF CountersExact, WithinLimits
<1>6. CountersExact'
  <2>1. mmaps' = MaxMmaps - Cardinality(In(MapTaking)')
    BY <1>5, Count DEF One
  <2>2. files' = MaxFiles - Cardinality(In(FileTaking)')
    BY <1>5, Count DEF One
  <2> QED
    BY <1>3, <2>1, <2>2 DEF CountersExact
<1>7. WithinLimits'
  <2>1. Cardinality(In(MapStates)') <= MaxMmaps
    BY <1>5, HoldersTook, Count
  <2>2. Cardinality(In(FileStates)') <= MaxFiles
    BY <1>5, HoldersTook, Count
  <2> QED
    BY <1>4, <2>1, <2>2 DEF WithinLimits
<1> QED
  BY <1>1, <1>2, <1>6, <1>7

LEMMA LimitsStep == LimitsInv /\ [LimitsNext]_limitVars => LimitsInv'
<1> SUFFICES ASSUME LimitsInv, [LimitsNext]_limitVars PROVE LimitsInv'
  OBVIOUS
<1> USE DEF One, States, MapTaking, FileTaking, MapStates, FileStates, Acquires
<1>1. ASSUME NEW h \in Handles, AcquireMmap(h) PROVE LimitsInv'
  <2>1. CASE mmaps > 0
    BY <1>1, <2>1, Step DEF AcquireMmap, LimitsInv
  <2>2. CASE ~(mmaps > 0)
    BY <1>1, <2>2, Step DEF AcquireMmap, LimitsInv
  <2> QED
    BY <2>1, <2>2
<1>2. ASSUME NEW h \in Handles, AcquireFile(h) PROVE LimitsInv'
  <2>1. CASE files > 0
    BY <1>2, <2>1, Step DEF AcquireFile, LimitsInv
  <2>2. CASE ~(files > 0)
    BY <1>2, <2>2, Step DEF AcquireFile, LimitsInv
  <2> QED
    BY <2>1, <2>2
<1>3. ASSUME NEW h \in Handles,
             GiveBackMmap(h) \/ GiveBackFile(h) \/ ReleaseFailed(h) \/ ReleaseMmap(h) \/ ReleaseFile(h)
      PROVE  LimitsInv'
  <2>1. CASE GiveBackMmap(h)
    BY <2>1, Step DEF GiveBackMmap, LimitsInv
  <2>2. CASE GiveBackFile(h)
    BY <2>2, Step DEF GiveBackFile, LimitsInv
  <2>3. CASE ReleaseFailed(h)
    BY <2>3, Step DEF ReleaseFailed, LimitsInv
  <2>4. CASE ReleaseMmap(h)
    BY <2>4, Step DEF ReleaseMmap, LimitsInv
  <2>5. CASE ReleaseFile(h)
    BY <2>5, Step DEF ReleaseFile, LimitsInv
  <2> QED
    BY <1>3, <2>1, <2>2, <2>3, <2>4, <2>5
<1>4. ASSUME NEW h \in Handles,
             \/ OpenForReading(h) \/ CloseDescriptor(h) \/ Map(h) \/ CloseMapped(h) \/ Unmap(h)
             \/ CloseFile(h) \/ DeleteTransient(h) \/ ReadTransient(h)
      PROVE  LimitsInv'
  <2>1. CASE OpenForReading(h)
    BY <2>1, Step DEF OpenForReading, LimitsInv
  <2>2. CASE CloseDescriptor(h)
    BY <2>2, Step DEF CloseDescriptor, LimitsInv
  <2>3. CASE Map(h)
    BY <2>3, Step DEF Map, LimitsInv
  <2>4. CASE CloseMapped(h)
    BY <2>4, Step DEF CloseMapped, LimitsInv
  <2>5. CASE Unmap(h)
    BY <2>5, Step DEF Unmap, LimitsInv
  <2>6. CASE CloseFile(h)
    BY <2>6, Step DEF CloseFile, LimitsInv
  <2>7. CASE DeleteTransient(h)
    BY <2>7, Step DEF DeleteTransient, LimitsInv
  <2>8. CASE ReadTransient(h)
    BY <2>8, Step DEF ReadTransient, LimitsInv
  <2> QED
    BY <1>4, <2>1, <2>2, <2>3, <2>4, <2>5, <2>6, <2>7, <2>8
<1>5. CASE UNCHANGED limitVars
  BY <1>5 DEF limitVars, LimitsInv, CountersExact, WithinLimits, MapTakers, FileTakers, MapHolders, FileHolders
<1> QED
  BY <1>1, <1>2, <1>3, <1>4, <1>5 DEF LimitsNext

-----------------------------------------------------------------------------
\* The invariant holds throughout.
THEOREM LimitsInvariant == LimitsSpec => []LimitsInv
<1> QED
  BY LimitsStart, LimitsStep, PTL DEF LimitsSpec

\* The counters stay within their bounds: those in flight are at most the
\* handles.
LEMMA InvTypeOK == LimitsInv => LimitsTypeOK
<1> SUFFICES ASSUME LimitsInv PROVE LimitsTypeOK
  OBVIOUS
<1>1. /\ IsFiniteSet(MapTakers) /\ IsFiniteSet(FileTakers)
      /\ Cardinality(MapTakers) <= Cardinality(Handles)
      /\ Cardinality(FileTakers) <= Cardinality(Handles)
  BY HandlesAssumption, FS_Subset DEF MapTakers, FileTakers
<1>2. /\ Cardinality(Handles) \in Nat
      /\ Cardinality(MapTakers) \in Nat /\ Cardinality(FileTakers) \in Nat
  BY <1>1, HandlesAssumption, FS_CardinalityType
<1> QED
  BY <1>1, <1>2, LimitsAssumption DEF LimitsInv, LimitsTypeOK, CountersExact

\* Type correctness of the limiters, for every number of files in flight.
THEOREM LimitsTypeCorrect == LimitsSpec => []LimitsTypeOK
<1> QED
  BY LimitsInvariant, InvTypeOK, PTL

\* No failure or deletion loses or invents a right to a region or a file.
THEOREM AlwaysCounted == LimitsSpec => []CountersExact
<1>1. LimitsInv => CountersExact
  BY DEF LimitsInv
<1> QED
  BY <1>1, LimitsInvariant, PTL

\* The limits hold however the atomic operations interleave.
THEOREM AlwaysWithinLimits == LimitsSpec => []WithinLimits
<1>1. LimitsInv => WithinLimits
  BY DEF LimitsInv
<1> QED
  BY <1>1, LimitsInvariant, PTL

-----------------------------------------------------------------------------
(***************************************************************************)
(* WorkQueue: works are done once and in order, and no signal is lost.     *)
(***************************************************************************)
QueueInv == QueueTypeOK /\ OnceInOrder /\ AwakeForWork

LEMMA AppendToConcatenation ==
  ASSUME NEW a \in Seq(Works), NEW b \in Seq(Works), NEW w \in Works
  PROVE  Append(a \o b, w) = a \o Append(b, w)
OBVIOUS

LEMMA QueueStart == QueueInit => QueueInv
<1> SUFFICES ASSUME QueueInit PROVE QueueInv
  OBVIOUS
<1>1. OnceInOrder
  <2>1. Taken = <<>> /\ finished = <<>> /\ queue = <<>> /\ scheduled = <<>>
    BY DEF QueueInit, Taken
  <2>2. <<>> = <<>> \o <<>> \o <<>>
    OBVIOUS
  <2> QED
    BY <2>1, <2>2 DEF OnceInOrder
<1>2. <<>> \in Seq(Works)
  OBVIOUS
<1>3. QueueTypeOK
  BY <1>2, NoWorkAssumption DEF QueueInit, QueueTypeOK
<1> QED
  BY <1>1, <1>3 DEF QueueInit, QueueInv, AwakeForWork

\* Scheduling adds at the end, and wakes the thread that waits for it.
LEMMA ScheduleInv ==
  ASSUME QueueInv, NEW w \in Works, Schedule(w)
  PROVE  QueueInv'
<1>1. QueueTypeOK'
  BY DEF QueueInv, QueueTypeOK, Schedule, Woken, Begun
<1>2. Taken \in Seq(Works)
  BY NoWorkAssumption DEF QueueInv, QueueTypeOK, Taken
<1>3. OnceInOrder'
  <2>1. Taken' = Taken
    BY DEF Schedule, Taken
  <2>2. Append(finished \o Taken \o queue, w) = finished \o Taken \o Append(queue, w)
    <3>1. finished \o Taken \in Seq(Works) /\ queue \in Seq(Works)
      BY <1>2 DEF QueueInv, QueueTypeOK
    <3> QED
      BY <3>1, AppendToConcatenation
  <2> QED
    BY <2>1, <2>2 DEF Schedule, QueueInv, OnceInOrder
<1>4. AwakeForWork'
  BY DEF QueueInv, QueueTypeOK, AwakeForWork, Schedule, Woken, Begun
<1> QED
  BY <1>1, <1>3, <1>4 DEF QueueInv

LEMMA TakeInv ==
  ASSUME QueueInv, Take
  PROVE  QueueInv'
<1>1. QueueTypeOK'
  BY NoWorkAssumption DEF QueueInv, QueueTypeOK, Take
<1>2. running = NoWork /\ queue = <<Head(queue)>> \o Tail(queue)
  BY DEF QueueInv, QueueTypeOK, Take
<1>3. OnceInOrder'
  <2>1. Taken = <<>> /\ Taken' = <<Head(queue)>>
    BY <1>1, <1>2, NoWorkAssumption DEF QueueInv, QueueTypeOK, Take, Taken
  <2>2. finished \o <<>> \o queue = finished \o <<Head(queue)>> \o Tail(queue)
    BY <1>2 DEF QueueInv, QueueTypeOK, Take
  <2> QED
    BY <2>1, <2>2 DEF Take, QueueInv, OnceInOrder
<1> QED
  BY <1>1, <1>3 DEF QueueInv, AwakeForWork, Take

LEMMA FinishInv ==
  ASSUME QueueInv, Finish
  PROVE  QueueInv'
<1>1. running \in Works
  BY DEF QueueInv, QueueTypeOK, Finish
<1>2. QueueTypeOK'
  BY <1>1 DEF QueueInv, QueueTypeOK, Finish
<1>3. OnceInOrder'
  <2>1. Taken = <<running>> /\ Taken' = <<>>
    BY <1>1, NoWorkAssumption DEF Finish, Taken
  <2>2. finished \o <<running>> \o queue = Append(finished, running) \o <<>> \o queue
    BY <1>1 DEF QueueInv, QueueTypeOK
  <2> QED
    BY <2>1, <2>2 DEF Finish, QueueInv, OnceInOrder
<1> QED
  BY <1>2, <1>3 DEF QueueInv, AwakeForWork, Finish

LEMMA QueueStep == QueueInv /\ [QueueNext]_queueVars => QueueInv'
<1> SUFFICES ASSUME QueueInv, [QueueNext]_queueVars PROVE QueueInv'
  OBVIOUS
<1>1. CASE Wait
  BY <1>1 DEF Wait, QueueInv, QueueTypeOK, OnceInOrder, AwakeForWork, Taken
<1>2. CASE WakeSpuriously
  BY <1>2 DEF WakeSpuriously, QueueInv, QueueTypeOK, OnceInOrder, AwakeForWork, Taken
<1>3. CASE UNCHANGED queueVars
  BY <1>3 DEF queueVars, QueueInv, QueueTypeOK, OnceInOrder, AwakeForWork, Taken
<1> QED
  BY <1>1, <1>2, <1>3, ScheduleInv, TakeInv, FinishInv DEF QueueNext

-----------------------------------------------------------------------------
\* The invariant holds throughout.
THEOREM QueueInvariant == QueueSpec => []QueueInv
<1> QED
  BY QueueStart, QueueStep, PTL DEF QueueSpec

\* Type correctness of the queue.
THEOREM QueueTypeCorrect == QueueSpec => []QueueTypeOK
<1>1. QueueInv => QueueTypeOK
  BY DEF QueueInv
<1> QED
  BY <1>1, QueueInvariant, PTL

\* Whatever is scheduled is done once, one at a time, in order.
THEOREM AlwaysInOrder == QueueSpec => []OnceInOrder
<1>1. QueueInv => OnceInOrder
  BY DEF QueueInv
<1> QED
  BY <1>1, QueueInvariant, PTL

\* The thread never sleeps on a queue that has work.
THEOREM AlwaysAwake == QueueSpec => []AwakeForWork
<1>1. QueueInv => AwakeForWork
  BY DEF QueueInv
<1> QED
  BY <1>1, QueueInvariant, PTL
=============================================================================
