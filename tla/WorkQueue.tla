----------------------------- MODULE WorkQueue -----------------------------
(***************************************************************************)
(* The background thread of PosixEnv: Schedule and BackgroundThreadMain    *)
(* (util/env_posix.cc).  Each holds background_work_mutex_ while it looks  *)
(* at the queue, so a critical section is a step; Wait gives the mutex up, *)
(* and a thread it wakes has to take it again.  Work may schedule more     *)
(* work, and any thread may schedule at any time.                          *)
(***************************************************************************)
EXTENDS Integers, Sequences, FiniteSets

CONSTANTS
  Works,  \* calls of Schedule
  NoWork

ASSUME NoWorkAssumption == NoWork \notin Works

VARIABLES
  started,   \* started_background_thread_
  queue,     \* background_work_queue_
  background, \* where the background thread is
  running,   \* the work it has taken out of the queue
  finished,  \* the works done, in order
  scheduled  \* the works scheduled, in order

queueVars == <<started, queue, background, running, finished, scheduled>>

QueueInit ==
  /\ started = FALSE
  /\ queue = <<>>
  /\ background = "none" /\ running = NoWork
  /\ finished = <<>> /\ scheduled = <<>>

Begun == IF started THEN background ELSE "looking"

\* Mutant: signals when the queue has work, rather than when it has none.
WokenBy(where) == IF where = "waiting" /\ queue # <<>> THEN "looking" ELSE where

\* Signal wakes the thread if it waits, and is lost if it does not.
Woken(where) == IF where = "waiting" /\ queue = <<>> THEN "looking" ELSE where

Schedule(w) ==
  /\ \A i \in DOMAIN scheduled : scheduled[i] # w
  /\ started' = TRUE
  /\ background' = Woken(Begun)
  /\ queue' = Append(queue, w)
  /\ scheduled' = Append(scheduled, w)
  /\ UNCHANGED <<running, finished>>

Wait ==
  /\ background = "looking" /\ queue = <<>>
  /\ background' = "waiting"
  /\ UNCHANGED <<started, queue, running, finished, scheduled>>

\* A condition variable may wake a thread for no reason.
WakeSpuriously ==
  /\ background = "waiting"
  /\ background' = "looking"
  /\ UNCHANGED <<started, queue, running, finished, scheduled>>

Take ==
  /\ background = "looking" /\ queue # <<>>
  /\ background' = "running"
  /\ running' = Head(queue) /\ queue' = Tail(queue)
  /\ UNCHANGED <<started, finished, scheduled>>

Finish ==
  /\ background = "running"
  /\ background' = "looking"
  /\ finished' = Append(finished, running) /\ running' = NoWork
  /\ UNCHANGED <<started, queue, scheduled>>

QueueNext ==
  \/ \E w \in Works : Schedule(w)
  \/ Wait
  \/ WakeSpuriously
  \/ Take
  \/ Finish

QueueSpec == QueueInit /\ [][QueueNext]_queueVars

-----------------------------------------------------------------------------
Taken == IF running = NoWork THEN <<>> ELSE <<running>>

QueueTypeOK ==
  /\ started \in BOOLEAN
  /\ queue \in Seq(Works) /\ finished \in Seq(Works) /\ scheduled \in Seq(Works)
  /\ background \in {"none", "looking", "waiting", "running"}
  /\ started <=> background # "none"
  /\ running \in Works \cup {NoWork}
  /\ background = "running" <=> running # NoWork

\* Every work is done once, one at a time, in the order of the calls.
OnceInOrder == scheduled = finished \o Taken \o queue

\* The thread never sleeps on a queue that has work: the signal, sent only
\* when the queue was empty and before the work is in it, is not lost.
AwakeForWork == background = "waiting" => queue = <<>>
=============================================================================
