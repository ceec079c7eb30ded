------------------------------ MODULE LRUCache ------------------------------
(***************************************************************************)
(* One shard of the cache (LRUCache, util/cache.cc) and the threads that   *)
(* open tables through it (db/table_cache.cc).  Every call holds the mutex *)
(* of the shard and is a step; a thread that misses opens the file between *)
(* two calls.  An entry is a slot that malloc may hand out again once it   *)
(* is freed.  The hash table is the map that HandleTable implements.       *)
(***************************************************************************)
EXTENDS Integers, FiniteSets, FiniteSetsExt, SequencesExt

CONSTANTS
  Files,     \* file numbers
  Threads,
  Capacity,  \* capacity_
  Charge(_), \* the charge of a file's entry: 1 for a table
  Slots,     \* bound: the entries there is memory for
  None

ASSUME CacheAssumption ==
  /\ Capacity \in Nat /\ \A k \in Files : Charge(k) \in Nat \ {0}
  /\ IsFiniteSet(Threads) /\ IsFiniteSet(Slots) /\ None \notin Files \cup Slots

Free == [key |-> None, refs |-> 0, in_cache |-> FALSE]

VARIABLES
  entry,   \* per slot: LRUHandle, or Free
  table,   \* table_
  lru,     \* lru_, oldest first
  in_use,  \* in_use_
  usage,   \* usage_
  thread,  \* per thread: what it does, to which file, the handle it holds
  closed   \* the cache is destroyed

cache == <<entry, table, lru, in_use, usage>>
cacheVars == <<entry, table, lru, in_use, usage, thread, closed>>

IdleThread == [pc |-> "idle", key |-> None, handle |-> None]

CacheInit ==
  /\ entry = [s \in Slots |-> Free]
  /\ table = [k \in Files |-> None]
  /\ lru = <<>> /\ in_use = {}
  /\ usage = 0
  /\ thread = [t \in Threads |-> IdleThread]
  /\ closed = FALSE

-----------------------------------------------------------------------------
\* The state of the shard as a record, which the calls below transform.
Shard == [entry |-> entry, table |-> table, lru |-> lru, in_use |-> in_use, usage |-> usage]

Becomes(c) ==
  /\ entry' = c.entry /\ table' = c.table
  /\ lru' = c.lru /\ in_use' = c.in_use
  /\ usage' = c.usage

Ref(c, e) ==
  [c EXCEPT !.entry[e].refs = @ + 1,
            !.lru = IF c.entry[e].refs = 1 /\ c.entry[e].in_cache THEN RemoveFirst(@, e) ELSE @,
            !.in_use = IF c.entry[e].in_cache THEN @ \cup {e} ELSE @]

\* Mutant: an entry that is no longer used stays on the list of those in use.
UnrefOnly(c, e) ==
  IF c.entry[e].refs = 1 THEN [c EXCEPT !.entry[e] = Free]
  ELSE [c EXCEPT !.entry[e].refs = @ - 1]

Unref(c, e) ==
  CASE c.entry[e].refs = 1 -> [c EXCEPT !.entry[e] = Free]
    [] c.entry[e].refs = 2 /\ c.entry[e].in_cache ->
         [c EXCEPT !.entry[e].refs = 1, !.in_use = @ \ {e}, !.lru = Append(@, e)]
    [] OTHER -> [c EXCEPT !.entry[e].refs = @ - 1]

\* What is left to do for an entry that left the hash table.
FinishErase(c, e) ==
  IF e = None THEN c
  ELSE Unref([c EXCEPT !.lru = RemoveFirst(@, e), !.in_use = @ \ {e},
                       !.entry[e].in_cache = FALSE,
                       !.usage = @ - Charge(c.entry[e].key)], e)

Erased(c, k) == FinishErase([c EXCEPT !.table[k] = None], c.table[k])

\* The oldest n entries of the LRU list leave the cache.
EvictOldest(c, n) ==
  LET after[i \in 0 .. n] == IF i = 0 THEN c
                             ELSE Erased(after[i - 1], after[i - 1].entry[c.lru[i]].key)
  IN after[n]

\* while (usage_ > capacity_ && lru_.next != &lru_): as few as are enough.
Evict(c) ==
  EvictOldest(c, Min({n \in 0 .. Len(c.lru) :
                        n = Len(c.lru) \/ EvictOldest(c, n).usage <= Capacity}))

\* The new entry has a reference of the caller and one of the cache; one of
\* the same key that was there leaves.
Cached(c, e, k) ==
  FinishErase([c EXCEPT !.entry[e] = [key |-> k, refs |-> 2, in_cache |-> TRUE],
                        !.in_use = @ \cup {e},
                        !.usage = @ + Charge(k),
                        !.table[k] = e],
              c.table[k])

\* With capacity 0 nothing is cached.
NotCached(c, e, k) == [c EXCEPT !.entry[e] = [key |-> k, refs |-> 1, in_cache |-> FALSE]]

Inserted(c, e, k) == Evict(IF Capacity > 0 THEN Cached(c, e, k) ELSE NotCached(c, e, k))

-----------------------------------------------------------------------------
(***************************************************************************)
(* The threads.                                                            *)
(***************************************************************************)

\* FindTable: a hit.
Hit(t, k) ==
  /\ ~closed /\ thread[t] = IdleThread
  /\ table[k] # None
  /\ Becomes(Ref(Shard, table[k]))
  /\ thread' = [thread EXCEPT ![t] = [pc |-> "holds", key |-> k, handle |-> table[k]]]
  /\ UNCHANGED closed

\* A miss: the thread opens the file without the mutex.
Miss(t, k) ==
  /\ ~closed /\ thread[t] = IdleThread
  /\ table[k] = None
  /\ thread' = [thread EXCEPT ![t] = [pc |-> "opens", key |-> k, handle |-> None]]
  /\ UNCHANGED <<cache, closed>>

\* NewRandomAccessFile or Table::Open fails: nothing is cached.
OpenFails(t) ==
  /\ thread[t].pc = "opens"
  /\ thread' = [thread EXCEPT ![t] = IdleThread]
  /\ UNCHANGED <<cache, closed>>

Insert(t, e) ==
  /\ thread[t].pc = "opens"
  /\ entry[e] = Free
  /\ Becomes(Inserted(Shard, e, thread[t].key))
  /\ thread' = [thread EXCEPT ![t].pc = "holds", ![t].handle = e]
  /\ UNCHANGED closed

\* The end of Get, or of an iterator (UnrefEntry).
Release(t) ==
  /\ thread[t].pc = "holds"
  /\ Becomes(Unref(Shard, thread[t].handle))
  /\ thread' = [thread EXCEPT ![t] = IdleThread]
  /\ UNCHANGED closed

\* TableCache::Evict, when the file is obsolete.
Erase(k) ==
  /\ ~closed
  /\ Becomes(Erased(Shard, k))
  /\ UNCHANGED <<thread, closed>>

Prune ==
  /\ ~closed
  /\ Becomes(EvictOldest(Shard, Len(lru)))
  /\ UNCHANGED <<thread, closed>>

\* ~LRUCache, once no client holds a handle: every entry on the list is freed.
\* The table goes with the object.
Destroy ==
  /\ ~closed /\ \A t \in Threads : thread[t] = IdleThread
  /\ entry' = [s \in Slots |-> IF s \in Range(lru) THEN Free ELSE entry[s]]
  /\ lru' = <<>>
  /\ table' = [k \in Files |-> None]
  /\ usage' = 0
  /\ closed' = TRUE
  /\ UNCHANGED <<in_use, thread>>

CacheNext ==
  \/ \E t \in Threads, k \in Files : Hit(t, k) \/ Miss(t, k)
  \/ \E t \in Threads : OpenFails(t) \/ Release(t)
  \/ \E t \in Threads, e \in Slots : Insert(t, e)
  \/ \E k \in Files : Erase(k)
  \/ Prune \/ Destroy

CacheSpec == CacheInit /\ [][CacheNext]_cacheVars

-----------------------------------------------------------------------------
Alive == {e \in Slots : entry[e] # Free}
InCache == {e \in Slots : entry[e].in_cache}
Holders(e) == {t \in Threads : thread[t].handle = e}

CacheTypeOK ==
  /\ entry \in [Slots -> [key : Files \cup {None}, refs : 0 .. Cardinality(Threads) + 1,
                          in_cache : BOOLEAN]]
  /\ table \in [Files -> Slots \cup {None}]
  /\ lru \in Seq(Slots) /\ IsInjective(lru)
  /\ in_use \subseteq Slots
  /\ usage \in Nat
  /\ thread \in [Threads -> [pc : {"idle", "opens", "holds"}, key : Files \cup {None},
                             handle : Slots \cup {None}]]
  /\ closed \in BOOLEAN

\* An entry lives for as long as the cache or a client has it and no longer,
\* although threads that missed together insert the same key, and entries are
\* evicted and erased while they are held: refs counts the clients and the
\* cache, so that the deleter runs once, and never under a client.
FreedOnce ==
  \A e \in Slots :
    entry[e].refs = Cardinality(Holders(e)) + (IF entry[e].in_cache THEN 1 ELSE 0)

\* The comment on the cache's lists: every entry of the cache is on one of the
\* two, by whether a client holds it, and the table finds all of them; an entry
\* on the LRU list may be evicted, one in use may not.
ListsExact ==
  /\ Range(lru) = {e \in InCache : entry[e].refs = 1}
  /\ in_use = {e \in InCache : entry[e].refs >= 2}
  /\ InCache = {table[k] : k \in Files} \ {None}
  /\ \A k \in Files : table[k] # None => entry[table[k]].key = k
  /\ usage = MapThenSumSet(LAMBDA e : Charge(entry[e].key), InCache)

\* The files that are open never outnumber the threads and the capacity: what
\* max_open_files is to bound.  Entries that were inserted while all others were
\* held stay when they are released, so it is the threads once more where these
\* are more than the capacity.
OpenFilesBounded ==
  Cardinality(Alive) + Cardinality({t \in Threads : thread[t].pc = "opens"})
    <= Cardinality(Threads) + Max({Capacity, Cardinality(Threads)})

\* A destroyed cache leaves no entry behind: no file stays open.
NothingLeaks == closed => Alive = {}

\* However threads look up, insert, erase and prune, an entry is on the list
\* that its references call for and is freed when the last one goes: not
\* before, not twice and not never; the cache keeps to its capacity.
CacheExact == CacheTypeOK /\ ListsExact /\ FreedOnce /\ OpenFilesBounded /\ NothingLeaks
=============================================================================
