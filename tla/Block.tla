------------------------------- MODULE Block -------------------------------
(***************************************************************************)
(* The blocks of a table: keys in order, each without the prefix it shares *)
(* with the one before it, save at restart points (table/block_builder.cc, *)
(* table/block.cc), and the order of internal keys (util/comparator.cc,    *)
(* db/dbformat.cc).  A key is the bytes of the user key and a tag, the     *)
(* packed sequence number.  An entry takes one unit of the buffer: offsets *)
(* are only compared.                                                      *)
(***************************************************************************)
EXTENDS Integers, SequencesExt

CONSTANTS
  MaxByte,   \* 0xff
  MaxTag     \* kMaxSequenceNumber

User(k) == Front(k)
Tag(k) == Last(k)

\* How many bytes two strings have in common at their start.
Shared(a, b) == CHOOSE n \in 0 .. Len(a) : /\ n <= Len(b)
                                           /\ SubSeq(a, 1, n) = SubSeq(b, 1, n)
                                           /\ n < Len(a) /\ n < Len(b) => a[n + 1] # b[n + 1]

BytesBefore(a, b) ==
  LET n == Shared(a, b)
  IN n < Len(b) /\ (n < Len(a) => a[n + 1] < b[n + 1])

\* InternalKeyComparator::Compare < 0
Before(a, b) == BytesBefore(User(a), User(b)) \/ (User(a) = User(b) /\ Tag(a) > Tag(b))

\* BytewiseComparator, on the user keys.
BytesSeparator(start, limit) ==
  LET n == Shared(start, limit)
  IN IF n < Len(start) /\ n < Len(limit) /\ start[n + 1] < MaxByte /\ start[n + 1] + 1 < limit[n + 1]
     THEN Append(SubSeq(start, 1, n), start[n + 1] + 1)
     ELSE start

BytesSuccessor(key) ==
  LET free == {i \in 1 .. Len(key) : key[i] # MaxByte}
  IN IF free = {} THEN key
     ELSE LET i == CHOOSE i \in free : \A j \in free : i <= j
          IN Append(SubSeq(key, 1, i - 1), key[i] + 1)

\* "Tack on the earliest possible number to the shortened user key."
Shortened(key, user) ==
  IF Len(user) < Len(User(key)) /\ BytesBefore(User(key), user) THEN Append(user, MaxTag) ELSE key

FindShortestSeparator(start, limit) == Shortened(start, BytesSeparator(User(start), User(limit)))
FindShortSuccessor(key) == Shortened(key, BytesSuccessor(User(key)))

-----------------------------------------------------------------------------
(***************************************************************************)
(* BlockBuilder.                                                           *)
(***************************************************************************)
EmptyBlock == [entries |-> <<>>, restarts |-> <<0>>, counter |-> 0, last |-> <<>>]

AddToBlock(b, key, value, interval) ==
  LET restart == b.counter >= interval
      shared == IF restart THEN 0 ELSE Shared(b.last, key)
  IN [entries |-> Append(b.entries, [shared |-> shared, value |-> value,
                                     delta |-> SubSeq(key, shared + 1, Len(key))]),
      restarts |-> IF restart THEN Append(b.restarts, Len(b.entries)) ELSE b.restarts,
      counter |-> IF restart THEN 1 ELSE b.counter + 1,
      last |-> key]

-----------------------------------------------------------------------------
(***************************************************************************)
(* Block::Iter: current_, restart_index_, key_ and the offset where value_ *)
(* ends.                                                                   *)
(***************************************************************************)
Size(b) == Len(b.entries)
NumRestarts(b) == Len(b.restarts)
RestartPoint(b, r) == b.restarts[r + 1]

IterValid(b, i) == i.current < Size(b)
Invalid(b, i) == [i EXCEPT !.current = Size(b), !.restart = NumRestarts(b)]
NewIter(b) == [current |-> Size(b), restart |-> NumRestarts(b), key |-> <<>>, next |-> 0]
IterValue(b, i) == b.entries[i.current + 1].value

SeekToRestartPoint(b, r) ==
  [current |-> RestartPoint(b, r), restart |-> r, key |-> <<>>, next |-> RestartPoint(b, r)]

ParseNextKey(b, i) ==
  IF i.next >= Size(b) THEN Invalid(b, i)
  ELSE LET e == b.entries[i.next + 1]
           Ahead(r) == r + 1 < NumRestarts(b) /\ RestartPoint(b, r + 1) < i.next
       IN [current |-> i.next,
           next |-> i.next + 1,
           key |-> SubSeq(i.key, 1, e.shared) \o e.delta,
           restart |-> CHOOSE r \in i.restart .. NumRestarts(b) - 1 :
                         ~Ahead(r) /\ \A q \in i.restart .. r - 1 : Ahead(q)]

\* Parse keys until one stops the loop or there is no more.
ParseUntil(b, i, Stops(_)) ==
  FoldLeft(LAMBDA s, n : IF s.done THEN s
                         ELSE LET j == ParseNextKey(b, s.iter)
                              IN [iter |-> j, done |-> ~IterValid(b, j) \/ Stops(j)],
           [iter |-> i, done |-> FALSE], [n \in 1 .. Size(b) + 1 |-> n]).iter

IterNext(b, i) == ParseNextKey(b, i)
IterSeekToFirst(b) == ParseNextKey(b, SeekToRestartPoint(b, 0))

IterSeekToLast(b) ==
  ParseUntil(b, SeekToRestartPoint(b, NumRestarts(b) - 1), LAMBDA j : j.next >= Size(b))

\* Back to a restart point before the entry, then forward to the one before it.
IterPrev(b, i) ==
  LET before == {r \in 0 .. i.restart : RestartPoint(b, r) < i.current}
  IN IF before = {} THEN Invalid(b, i)
     ELSE ParseUntil(b, SeekToRestartPoint(b, CHOOSE r \in before : \A q \in before : q <= r),
                     LAMBDA j : j.next >= i.current)

\* The last restart point with a key before the target, or the first.
RECURSIVE BinarySearch(_, _, _, _)
BinarySearch(b, target, left, right) ==
  IF left >= right THEN left
  ELSE LET mid == (left + right + 1) \div 2
       IN IF Before(b.entries[RestartPoint(b, mid) + 1].delta, target)
          THEN BinarySearch(b, target, mid, right)
          ELSE BinarySearch(b, target, left, mid - 1)

IterSeek(b, target) ==
  ParseUntil(b, SeekToRestartPoint(b, BinarySearch(b, target, 0, NumRestarts(b) - 1)),
             LAMBDA j : ~Before(j.key, target))
=============================================================================
