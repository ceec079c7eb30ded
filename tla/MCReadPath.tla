----------------------------- MODULE MCReadPath -----------------------------
(***************************************************************************)
(* What a read goes through: the memtable, the iterators over it and the   *)
(* tables, a table with its blocks, and the cache that keeps tables open.  *)
(* Each is checked against what it promises the next one, so they share no *)
(* state here: a behaviour is about one part and leaves the others as they *)
(* began.  The cache has a second instance, with a capacity of zero, and   *)
(* the iterator has two: one with fewer keys, which is written to while it *)
(* is used, and one that has more keys to pass but no writes.              *)
(***************************************************************************)
EXTENDS SkipList, DBIter, LRUCache

CONSTANTS
  Parts,                                     \* the parts the behaviours are about
  MaxByte, MaxTag, MaxEntries, Interval, FilterBase,  \* Table
  HashKeys, Ids, MinLength                   \* HandleTable

VARIABLES
  part,
  added, builder, filter, bad, it, wanted,
  list, elems, returned, map

tableVars == <<added, builder, filter, bad, it, wanted>>
hashVars == <<list, elems, returned, map>>
allVars == <<part, vars, iterVars, tableVars, cacheVars, hashVars>>

\* A key, one it is a prefix of and that one byte tells from the next, and a run
\* of the last byte.
SomeUserKeys == {<<0>>, <<0, 2>>, <<3, 3>>}

\* One table is larger than the others, one than the cache.
Size(k) == k

\* Keys 1, 3 and 5 share one of two chains, 1 and 5 and 2 and 6 one of four.
KeyItself(k) == k

FewKeys == INSTANCE DBIter WITH UserKeys <- {1, 2}
MoreKeys == INSTANCE DBIter WITH Written <- MaxSeq
CacheOff == INSTANCE LRUCache WITH Capacity <- 0
TableFile == INSTANCE Table WITH UserKeys <- SomeUserKeys
Hash == INSTANCE HandleTable WITH Keys <- HashKeys, Hash <- KeyItself

ASSUME TableAssumption ==
  /\ SomeUserKeys \subseteq Seq(0 .. MaxByte) /\ MaxTag \in Nat \ {0}
  /\ MaxEntries \in Nat \ {0} /\ Interval \in Nat \ {0} /\ FilterBase \in Nat \ {0}
ASSUME HashAssumption == HashKeys \subseteq Nat /\ MinLength \in Nat \ {0}

\* An iterator that rests has nothing to go over.
IteratorRests == Made /\ sequence = 0 /\ entries = [c \in Children |-> {}]

ReadPathInit ==
  /\ part \in Parts
  /\ Init
  /\ CASE part = "few keys" -> FewKeys!IterInit
       [] part = "more keys" -> MoreKeys!IterInit
       [] OTHER -> IteratorRests
  /\ TableFile!Init
  /\ CacheInit
  /\ Hash!Init

ReadPathNext ==
  /\ part' = part
  /\ \/ part = "skip list" /\ Next /\ UNCHANGED <<iterVars, tableVars, cacheVars, hashVars>>
     \/ /\ \/ part = "few keys" /\ FewKeys!IterNext
           \/ part = "more keys" /\ MoreKeys!IterNext
        /\ UNCHANGED <<vars, tableVars, cacheVars, hashVars>>
     \/ part = "table" /\ TableFile!Next /\ UNCHANGED <<vars, iterVars, cacheVars, hashVars>>
     \/ /\ \/ part = "cache" /\ CacheNext
           \/ part = "no cache" /\ CacheOff!CacheNext
        /\ UNCHANGED <<vars, iterVars, tableVars, hashVars>>
     \/ part = "hash" /\ Hash!Next /\ UNCHANGED <<vars, iterVars, tableVars, cacheVars>>

ReadPathSpec == ReadPathInit /\ [][ReadPathNext]_allVars

-----------------------------------------------------------------------------
\* A table gives back each key that was added, in both directions and by
\* lookup through index and filter; when a block cannot be read, keys are
\* missing only with an error that tells of it.
TableExact ==
  part = "table" => /\ TableFile!TypeOK /\ TableFile!IndexSeparates
                    /\ TableFile!ShowsNeighbour /\ TableFile!PassedOverTells
                    /\ TableFile!GetFinds

\* The hash table is a map: a lookup finds the last entry inserted, an insert
\* or a remove returns the one it displaces, and chains stay short as it grows.
HashExact == [](Hash!TypeOK /\ Hash!LookupIsMap /\ Hash!ChainsShort) /\ Hash!ReturnsOld
=============================================================================
