---------------------------- MODULE HandleTable ----------------------------
(***************************************************************************)
(* The hash table of a cache shard (HandleTable, util/cache.cc): an array  *)
(* of chains that grows when it holds more entries than chains.  An entry  *)
(* is its key and an id that tells two entries of one key apart.           *)
(***************************************************************************)
EXTENDS Integers, FiniteSets, SequencesExt

CONSTANTS
  Keys,
  Ids,        \* the entries a key may have
  Hash(_),    \* the hash of a key
  MinLength   \* how many chains a table starts with: 4 in the code

NoId == "none"

VARIABLES
  list,      \* list_: the chains
  elems,     \* elems_
  returned,  \* what the last call returned
  map        \* the map the table is to be: the last entry inserted of a key

vars == <<list, elems, returned, map>>

length == Len(list)
Chain(k, n) == (Hash(k) % n) + 1
Entries == Range(FlattenSeq(list))

Init ==
  /\ list = [i \in 1 .. MinLength |-> <<>>]
  /\ elems = 0
  /\ returned = NoId
  /\ map = [k \in Keys |-> NoId]

\* FindPointer: where the key is in its chain, or past the chain's end.
FindPointer(k) ==
  LET chain == list[Chain(k, length)]
      at == {i \in 1 .. Len(chain) : chain[i].key = k}
  IN IF at = {} THEN Len(chain) + 1 ELSE CHOOSE i \in at : \A j \in at : i <= j

Lookup(k) ==
  LET chain == list[Chain(k, length)]
      i == FindPointer(k)
  IN IF i <= Len(chain) THEN chain[i].id ELSE NoId

\* The least of MinLength, 2 * MinLength, 4 * MinLength, ... that is enough.
NewLength(n) == CHOOSE m \in {MinLength * 2^i : i \in 0 .. n} :
                  m >= n /\ (m = MinLength \/ m \div 2 < n)

\* Mutant: a bigger table that keeps the place of every chain.
ResizeInPlace(chains, n) == chains \o [i \in 1 .. NewLength(n) - Len(chains) |-> <<>>]

\* Each entry, chain by chain, goes to the front of its new chain.
Resize(chains, n) ==
  [c \in 1 .. NewLength(n) |->
     Reverse(SelectSeq(FlattenSeq(chains), LAMBDA h : Chain(h.key, NewLength(n)) = c))]

\* h->next_hash = old->next_hash; *ptr = h
Linked(chain, i, h) == SubSeq(chain, 1, i - 1) \o <<h>> \o SubSeq(chain, i + 1, Len(chain))

InsertEntry(k, id) ==
  LET c == Chain(k, length)
      i == FindPointer(k)
      old == Lookup(k)
      chains == [list EXCEPT ![c] = Linked(@, i, [key |-> k, id |-> id])]
      more == IF old = NoId THEN elems + 1 ELSE elems
  IN /\ elems' = more
     /\ list' = IF old = NoId /\ more > length THEN Resize(chains, more) ELSE chains
     /\ returned' = <<old>>
     /\ map' = [map EXCEPT ![k] = id]

RemoveEntry(k) ==
  LET c == Chain(k, length)
      i == FindPointer(k)
      old == Lookup(k)
  IN /\ list' = IF old = NoId THEN list ELSE [list EXCEPT ![c] = RemoveAt(@, i)]
     /\ elems' = IF old = NoId THEN elems ELSE elems - 1
     /\ returned' = <<old>>
     /\ map' = [map EXCEPT ![k] = NoId]

Next ==
  \/ \E k \in Keys, id \in Ids : InsertEntry(k, id)
  \/ \E k \in Keys : RemoveEntry(k)

Spec == Init /\ [][Next]_vars

-----------------------------------------------------------------------------
TypeOK ==
  /\ list # <<>>
  /\ \A c \in DOMAIN list : Range(list[c]) \subseteq [key : Keys, id : Ids]
  /\ elems = Cardinality(Entries)
  /\ map \in [Keys -> Ids \cup {NoId}]

\* After any calls, with chains that were shared, cut and moved, a lookup finds
\* the entry of the last insert that was not removed.
LookupIsMap == \A k \in Keys : Lookup(k) = map[k]

\* What Insert and Remove return is the entry that they took out: the cache
\* drops its reference to that one (FinishErase).
ReturnsOld ==
  [][\A k \in Keys : map'[k] # map[k] => returned' = <<map[k]>>]_vars

\* "average linked list length (<= 1)".
ChainsShort == elems <= length
=============================================================================
