----------------------------- MODULE ReadLimits -----------------------------
(***************************************************************************)
(* The limits on files open for reading: Limiter, the constructors and     *)
(* destructors of PosixRandomAccessFile and PosixMmapReadableFile, and     *)
(* PosixEnv::NewRandomAccessFile (util/env_posix.cc), called by several    *)
(* threads.  A file is followed from the call that opens it to the end of  *)
(* its destructor; each atomic operation on a counter and each system call *)
(* is a step.                                                              *)
(***************************************************************************)
EXTENDS Integers, FiniteSets

CONSTANTS
  Handles,  \* files that may be open, or being opened, at one time
  MaxMmaps, \* mmap_limiter_'s max_acquires
  MaxFiles  \* fd_limiter_'s

ASSUME LimitsAssumption == MaxMmaps \in Nat /\ MaxFiles \in Nat
ASSUME HandlesAssumption == IsFiniteSet(Handles)

VARIABLES
  mmaps, \* mmap_limiter_.acquires_allowed_
  files, \* fd_limiter_.acquires_allowed_
  at     \* per handle: where its call, or the life of its file, is

limitVars == <<mmaps, files, at>>

LimitsInit == mmaps = MaxMmaps /\ files = MaxFiles /\ at = [h \in Handles |-> "none"]

\* The states in which a handle has taken one from a counter: as the owner
\* of a region or a descriptor, or as a refused call that has not given it
\* back.
MapStates == {"mapping", "mapped_open", "mapped", "unmapped", "map_failed", "failed"}
FileStates == {"file", "file_closed"}
MapHolders == {h \in Handles : at[h] \in MapStates}
FileHolders == {h \in Handles : at[h] \in FileStates}
MapTakers == {h \in Handles : at[h] \in MapStates \cup {"map_refused"}}
FileTakers == {h \in Handles : at[h] \in FileStates \cup {"file_refused"}}

Moves(h, from, to) == at[h] = from /\ at' = [at EXCEPT ![h] = to]

OpenForReading(h) == Moves(h, "none", "opened") /\ UNCHANGED <<mmaps, files>>

-----------------------------------------------------------------------------
\* Limiter::Acquire: fetch_sub, and fetch_add when there was none left.
Acquires(old) == old > 0

AcquireMmap(h) ==
  /\ Moves(h, "opened", IF Acquires(mmaps) THEN "mapping" ELSE "map_refused")
  /\ mmaps' = mmaps - 1
  /\ UNCHANGED files

\* Mutant: what a refused call took is never given back.
GiveBackMmapForgotten(h) == Moves(h, "map_refused", "unlimited") /\ UNCHANGED <<mmaps, files>>

GiveBackMmap(h) ==
  /\ Moves(h, "map_refused", "unlimited")
  /\ mmaps' = mmaps + 1
  /\ UNCHANGED files

\* PosixRandomAccessFile's constructor.
AcquireFile(h) ==
  /\ Moves(h, "unlimited", IF Acquires(files) THEN "file" ELSE "file_refused")
  /\ files' = files - 1
  /\ UNCHANGED mmaps

GiveBackFile(h) ==
  /\ Moves(h, "file_refused", "transient_open")
  /\ files' = files + 1
  /\ UNCHANGED mmaps

CloseDescriptor(h) == Moves(h, "transient_open", "transient") /\ UNCHANGED <<mmaps, files>>

-----------------------------------------------------------------------------
\* GetFileSize and mmap succeed or fail; the descriptor is closed in both
\* cases and the right to a region released when they fail.
Map(h) ==
  /\ \E result \in {"mapped_open", "map_failed"} : Moves(h, "mapping", result)
  /\ UNCHANGED <<mmaps, files>>

CloseMapped(h) ==
  /\ Moves(h, "mapped_open", "mapped") \/ Moves(h, "map_failed", "failed")
  /\ UNCHANGED <<mmaps, files>>

ReleaseFailed(h) == Moves(h, "failed", "none") /\ mmaps' = mmaps + 1 /\ UNCHANGED files

\* The destructors: the resource goes first, then the right to it.
Unmap(h) == Moves(h, "mapped", "unmapped") /\ UNCHANGED <<mmaps, files>>

ReleaseMmap(h) == Moves(h, "unmapped", "none") /\ mmaps' = mmaps + 1 /\ UNCHANGED files

CloseFile(h) == Moves(h, "file", "file_closed") /\ UNCHANGED <<mmaps, files>>

DeleteTransient(h) == Moves(h, "transient", "none") /\ UNCHANGED <<mmaps, files>>

ReleaseFile(h) == Moves(h, "file_closed", "none") /\ files' = files + 1 /\ UNCHANGED mmaps

\* Read opens the file for the time of the call when it has no descriptor.
ReadTransient(h) ==
  /\ Moves(h, "transient", "reading") \/ Moves(h, "reading", "transient")
  /\ UNCHANGED <<mmaps, files>>

LimitsNext ==
  \E h \in Handles :
    \/ OpenForReading(h)
    \/ AcquireMmap(h)
    \/ GiveBackMmap(h)
    \/ AcquireFile(h)
    \/ GiveBackFile(h)
    \/ CloseDescriptor(h)
    \/ Map(h)
    \/ CloseMapped(h)
    \/ ReleaseFailed(h)
    \/ Unmap(h)
    \/ ReleaseMmap(h)
    \/ CloseFile(h)
    \/ DeleteTransient(h)
    \/ ReleaseFile(h)
    \/ ReadTransient(h)

LimitsSpec == LimitsInit /\ [][LimitsNext]_limitVars

-----------------------------------------------------------------------------
States ==
  MapStates \cup FileStates \cup
    {"none", "opened", "map_refused", "unlimited", "file_refused", "transient_open",
     "transient", "reading"}

LimitsTypeOK ==
  /\ mmaps \in MaxMmaps - Cardinality(Handles) .. MaxMmaps
  /\ files \in MaxFiles - Cardinality(Handles) .. MaxFiles
  /\ at \in [Handles -> States]

\* The counters are what the calls and files in flight leave of the limits,
\* so no failure or deletion on any path loses or invents a right: once all
\* files are deleted the limits are whole again.
CountersExact ==
  /\ mmaps = MaxMmaps - Cardinality(MapTakers)
  /\ files = MaxFiles - Cardinality(FileTakers)

\* However the atomic operations of the calls interleave, no more regions
\* are mapped, and no more descriptors kept, than the limits say, although
\* a counter may be negative for a while.
WithinLimits ==
  /\ Cardinality(MapHolders) <= MaxMmaps
  /\ Cardinality(FileHolders) <= MaxFiles

\* A call is refused a region only when all of them are taken.
RefusedOnlyWhenFull ==
  [][\A h \in Handles :
       at[h] = "opened" /\ at'[h] = "map_refused" => Cardinality(MapHolders) = MaxMmaps]_limitVars
=============================================================================
