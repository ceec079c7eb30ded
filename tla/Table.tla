------------------------------- MODULE Table -------------------------------
(***************************************************************************)
(* A table file: TableBuilder makes it of blocks, an index of separators   *)
(* and filters (table/table_builder.cc, table/filter_block.cc); a reader   *)
(* goes through it with a TwoLevelIterator or looks a key up with          *)
(* InternalGet (table/table.cc, table/two_level_iterator.cc).  When a      *)
(* block is full depends on values, which are left out: a block may end    *)
(* after any key.  Blocks whose checksum is wrong cannot be read.          *)
(***************************************************************************)
EXTENDS Block, FiniteSets

CONSTANTS
  UserKeys,     \* the user keys, sequences of bytes
  MaxEntries,   \* bound: keys in a table
  Interval,     \* block_restart_interval
  FilterBase    \* kFilterBase, in entries

InternalKeys == {Append(u, t) : u \in UserKeys, t \in 1 .. MaxTag - 1}
NoKey == <<>>

VARIABLES
  added,    \* the keys added so far
  builder,  \* TableBuilder::Rep
  filter,   \* FilterBlockBuilder: the filters made, and the keys of the next
  bad,      \* the blocks that cannot be read, once the table is finished
  it,       \* the TwoLevelIterator
  wanted    \* the key its last call is to show, and the one if no block were bad

vars == <<added, builder, filter, bad, it, wanted>>

Closed == builder.closed
NoData == 0

Init ==
  /\ added = <<>>
  /\ builder = [data |-> EmptyBlock, index |-> EmptyBlock, blocks |-> <<>>, offset |-> 0,
                offsets |-> <<>>, pending |-> FALSE, closed |-> FALSE]
  /\ filter = [made |-> <<>>, keys |-> {}]
  /\ bad = {}
  /\ it = [index |-> NewIter(EmptyBlock), data |-> NoData, at |-> NewIter(EmptyBlock),
           error |-> FALSE]
  /\ wanted = [readable |-> NoKey, all |-> NoKey]

-----------------------------------------------------------------------------
(***************************************************************************)
(* Building.                                                               *)
(***************************************************************************)

\* Mutant: the filter starts anew at every block.
StartBlockPerBlock(f, offset) == [made |-> Append(f.made, f.keys), keys |-> {}]

\* FilterBlockBuilder::StartBlock: one filter for each FilterBase of the file,
\* the first of them with the keys added since, the others empty.
StartBlock(f, offset) ==
  LET behind == offset \div FilterBase - Len(f.made)
  IN IF behind <= 0 THEN f
     ELSE [made |-> f.made \o [i \in 1 .. behind |-> IF i = 1 THEN f.keys ELSE {}], keys |-> {}]

\* The block's index entry: a key at or after its last key and before the next.
IndexEntry(b, key) ==
  [b EXCEPT !.index = IF b.pending THEN AddToBlock(b.index, key, Len(b.blocks), 1) ELSE @,
            !.pending = FALSE]

Flushed(b) ==
  IF b.data = EmptyBlock THEN b
  ELSE [b EXCEPT !.blocks = Append(@, b.data),
                 !.offsets = Append(@, b.offset),
                 !.offset = @ + Size(b.data),
                 !.data = EmptyBlock,
                 !.pending = TRUE]

WithSeparator(b, key) ==
  IF b.pending THEN IndexEntry(b, FindShortestSeparator(Last(added), key)) ELSE b

Add(key, full) ==
  /\ ~Closed
  /\ Len(added) < MaxEntries
  /\ added # <<>> => Before(Last(added), key)
  /\ LET b == WithSeparator(builder, key)
         b2 == [b EXCEPT !.data = AddToBlock(@, key, key, Interval)]
         b3 == IF full THEN Flushed(b2) ELSE b2
         f == [filter EXCEPT !.keys = @ \cup {User(key)}]
     IN /\ builder' = b3
        /\ filter' = IF full THEN StartBlock(f, b3.offset) ELSE f
  /\ added' = Append(added, key)
  /\ UNCHANGED <<bad, it, wanted>>

\* Finish: the last block, its index entry and the last filter.
Finish(damaged) ==
  /\ ~Closed /\ added # <<>>
  /\ LET b == Flushed(builder)
         f == IF builder.data = EmptyBlock THEN filter ELSE StartBlock(filter, b.offset)
         last == IndexEntry(b, FindShortSuccessor(Last(added)))
     IN /\ damaged \subseteq DOMAIN b.blocks
        /\ builder' = [last EXCEPT !.closed = TRUE]
        /\ filter' = IF f.keys = {} THEN f ELSE [made |-> Append(f.made, f.keys), keys |-> {}]
        /\ it' = [it EXCEPT !.index = NewIter(last.index)]
  /\ bad' = damaged
  /\ UNCHANGED <<added, wanted>>

-----------------------------------------------------------------------------
(***************************************************************************)
(* TwoLevelIterator.  The iterator of a block that cannot be read is never *)
(* valid and has an error.                                                 *)
(***************************************************************************)
Index == builder.index
BlockAt(n) == builder.blocks[n]

DataValid(i) == i.data # NoData /\ i.data \notin bad /\ IterValid(BlockAt(i.data), i.at)
IndexValid(i) == IterValid(Index, i.index)

SetDataIterator(i, n) ==
  [i EXCEPT !.error = @ \/ i.data \in bad,
            !.data = n,
            !.at = IF n = NoData THEN @ ELSE NewIter(BlockAt(n))]

\* The block of the index entry, or none; the same block is not read again.
InitDataBlock(i) ==
  IF ~IndexValid(i) THEN SetDataIterator(i, NoData)
  ELSE LET n == IterValue(Index, i.index)
       IN IF i.data = n THEN i ELSE SetDataIterator(i, n)

\* The call on data_iter_, when there is one that can be read.
OnData(i, Call(_)) ==
  IF i.data = NoData \/ i.data \in bad THEN i ELSE [i EXCEPT !.at = Call(BlockAt(i.data))]

RECURSIVE SkipForward(_)
SkipForward(i) ==
  IF DataValid(i) THEN i
  ELSE IF ~IndexValid(i) THEN SetDataIterator(i, NoData)
  ELSE SkipForward(OnData(InitDataBlock([i EXCEPT !.index = IterNext(Index, @)]), IterSeekToFirst))

RECURSIVE SkipBackward(_)
SkipBackward(i) ==
  IF DataValid(i) THEN i
  ELSE IF ~IndexValid(i) THEN SetDataIterator(i, NoData)
  ELSE SkipBackward(OnData(InitDataBlock([i EXCEPT !.index = IterPrev(Index, @)]), IterSeekToLast))

Key(i) == IF DataValid(i) THEN i.at.key ELSE NoKey

Least(S) == IF S = {} THEN NoKey ELSE CHOOSE k \in S : \A j \in S \ {k} : Before(k, j)
Greatest(S) == IF S = {} THEN NoKey ELSE CHOOSE k \in S : \A j \in S \ {k} : Before(j, k)

\* The keys of the blocks that can be read.
Readable ==
  {added[n] : n \in {m \in DOMAIN added :
     \A c \in bad : m <= builder.offsets[c] \/ m > builder.offsets[c] + Size(BlockAt(c))}}

Moves(i, Pick(_)) ==
  /\ Closed
  /\ it' = i
  /\ wanted' = [readable |-> Pick(Readable), all |-> Pick(Range(added))]
  /\ UNCHANGED <<added, builder, filter, bad>>

Seek(t) ==
  Moves(SkipForward(OnData(InitDataBlock([it EXCEPT !.index = IterSeek(Index, t)]),
                           LAMBDA b : IterSeek(b, t))),
        LAMBDA S : Least({k \in S : ~Before(k, t)}))

SeekToFirst ==
  Moves(SkipForward(OnData(InitDataBlock([it EXCEPT !.index = IterSeekToFirst(Index)]),
                           IterSeekToFirst)),
        Least)

SeekToLast ==
  Moves(SkipBackward(OnData(InitDataBlock([it EXCEPT !.index = IterSeekToLast(Index)]),
                            IterSeekToLast)),
        Greatest)

MoveNext ==
  /\ DataValid(it)
  /\ Moves(SkipForward(OnData(it, LAMBDA b : IterNext(b, it.at))),
           LAMBDA S : Least({k \in S : Before(Key(it), k)}))

MovePrev ==
  /\ DataValid(it)
  /\ Moves(SkipBackward(OnData(it, LAMBDA b : IterPrev(b, it.at))),
           LAMBDA S : Greatest({k \in S : Before(k, Key(it))}))

Next ==
  \/ \E k \in InternalKeys, full \in BOOLEAN : Add(k, full)
  \/ \E damaged \in SUBSET (1 .. MaxEntries) : Finish(damaged)
  \/ \E t \in InternalKeys : Seek(t)
  \/ SeekToFirst \/ SeekToLast \/ MoveNext \/ MovePrev

Spec == Init /\ [][Next]_vars

-----------------------------------------------------------------------------
(***************************************************************************)
(* InternalGet.                                                            *)
(***************************************************************************)

\* FilterBlockReader::KeyMayMatch, with filters that are exact.
KeyMayMatch(offset, user) ==
  LET i == offset \div FilterBase + 1
  IN i \in DOMAIN filter.made => user \in filter.made[i]

\* The entry of the key's block that is at or after the key, if it is of its
\* user key (SaveValue).  A table may be opened with a filter policy or without.
InternalGet(k, policy) ==
  LET i == IterSeek(Index, k)
      n == IterValue(Index, i)
      e == IterSeek(BlockAt(n), k)
  IN IF ~IterValid(Index, i) \/ (policy /\ ~KeyMayMatch(builder.offsets[n], User(k))) THEN NoKey
     ELSE IF n \in bad THEN <<"error">>
     ELSE IF IterValid(BlockAt(n), e) /\ User(e.key) = User(k) THEN e.key
     ELSE NoKey

-----------------------------------------------------------------------------
TypeOK ==
  /\ added \in Seq(InternalKeys)
  /\ builder.pending => builder.data = EmptyBlock
  /\ Size(builder.data) + builder.offset = Len(added)
  /\ filter.keys \subseteq UserKeys
  /\ bad \subseteq DOMAIN builder.blocks
  /\ it.data \in {NoData} \cup DOMAIN builder.blocks
  /\ wanted.readable \in {NoKey} \cup InternalKeys

\* The comment on pending_index_entry: the key of a block's index entry is at or
\* after every key of the block and before every key of the blocks after it.
IndexSeparates ==
  \A n \in 1 .. Size(Index) :
    LET key == Index.entries[n].delta
        first == builder.offsets[n]
    IN \A m \in DOMAIN added :
         IF m <= first + Size(BlockAt(n)) THEN ~Before(key, added[m]) ELSE Before(key, added[m])

\* In any order of calls, through blocks and restart points, the iterator shows
\* the neighbours that the readable blocks have, key for key.
ShowsNeighbour == Closed => Key(it) = wanted.readable

\* A key that is passed over since its block cannot be read leaves an error.
PassedOverTells == Key(it) # wanted.all => it.error \/ it.data \in bad

\* A lookup finds what the table has of a key, at or below a sequence number,
\* whatever filters and shortened index keys it goes by; or it says that the
\* block cannot be read.
GetFinds ==
  Closed => \A k \in InternalKeys, policy \in BOOLEAN :
    LET found == Least({e \in Range(added) : User(e) = User(k) /\ ~Before(e, k)})
    IN InternalGet(k, policy) = found \/ (InternalGet(k, policy) = <<"error">> /\ bad # {})
=============================================================================
