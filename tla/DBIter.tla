------------------------------- MODULE DBIter -------------------------------
(***************************************************************************)
(* An iterator of a database (db/db_iter.cc) over the merged entries of    *)
(* the memtable, the one being flushed and the tables (table/merger.cc).   *)
(* The iterator takes no lock: writers go on inserting into the memtable   *)
(* it stands on, also between two of the steps of one of its calls.        *)
(***************************************************************************)
EXTENDS Integers, FiniteSets

CONSTANTS
  UserKeys,
  End,       \* an iterator that is not valid, above every key
  Tables,    \* the tables that are merged
  Written,   \* how many entries there are when the iterator is made
  MaxSeq     \* bound: the last sequence number

ASSUME UserKeysAssumption == UserKeys \subseteq Nat /\ End \in Nat /\ \A k \in UserKeys : k < End
ASSUME TablesAssumption == "none" \notin Tables
ASSUME SequenceAssumption == Written \in Nat /\ MaxSeq \in Nat /\ Written <= MaxSeq

Children == {"mem", "imm"} \cup Tables
Types == {"deletion", "value"}
NoEntry == [key |-> End, seq |-> 0, type |-> "none"]

VARIABLES
  entries,    \* per child: what it holds, [key, seq, type]
  last,       \* the last sequence number
  sequence,   \* sequence_: the snapshot of the iterator
  merge,      \* MergingIterator: where its children stand, current_, direction_
  iter,       \* DBIter: direction_, valid_, saved_key_, saved_value_, the loop's locals
  call,       \* the internal call that comes next, and what follows it
  shown,      \* what key() and value() have been since the last call
  wantedKey   \* what the last call is to show

iterVars == <<entries, last, sequence, merge, iter, call, shown, wantedKey>>

\* Internal keys: by key, then from the newest to the oldest.
Before(e, f) == e.key < f.key \/ (e.key = f.key /\ e.seq > f.seq)

FirstOf(S) == IF S = {} THEN NoEntry ELSE CHOOSE e \in S : \A f \in S \ {e} : Before(e, f)
LastOf(S) == IF S = {} THEN NoEntry ELSE CHOOSE e \in S : \A f \in S \ {e} : Before(f, e)

\* A key's last write that the snapshot sees, and the keys it leaves.
Visible(k) == LET es == {e \in UNION {entries[c] : c \in Children} : e.key = k /\ e.seq <= sequence}
              IN FirstOf(es)
Live == {k \in UserKeys : Visible(k).type = "value"}

NotCalled == [op |-> "none", target |-> NoEntry, then |-> "none", turned |-> FALSE]

\* The entries that were written before the iterator was made: newer ones are
\* in newer children.
Filled ==
  \E w \in [1 .. Written -> UserKeys \X Types], place \in [1 .. Written -> Children] :
    /\ \A r, s \in 1 .. Written : r < s =>
         /\ place[r] = "mem" => place[s] = "mem"
         /\ place[r] = "imm" => place[s] \in {"mem", "imm"}
    /\ entries = [c \in Children |-> {[key |-> w[s][1], seq |-> s, type |-> w[s][2]] :
                                       s \in {r \in 1 .. Written : place[r] = c}}]

\* The iterator as it is made.
Made ==
  /\ last = Written
  /\ sequence \in 0 .. Written
  /\ merge = [at |-> [c \in Children |-> NoEntry], current |-> "none", forward |-> TRUE]
  /\ iter = [forward |-> TRUE, valid |-> FALSE, key |-> End, value |-> 0,
             skipping |-> FALSE, type |-> "deletion"]
  /\ call = NotCalled
  /\ shown = [key |-> End, seq |-> 0]
  /\ wantedKey = End

IterInit == Filled /\ Made

-----------------------------------------------------------------------------
(***************************************************************************)
(* MergingIterator.                                                        *)
(***************************************************************************)
SeekIn(c, e) == FirstOf({f \in entries[c] : ~Before(f, e)})
NextIn(c, e) == FirstOf({f \in entries[c] : Before(e, f)})
PrevIn(c, e) == LastOf({f \in entries[c] : Before(f, e)})

\* current_: FindSmallest and FindLargest.
Current(at, forward) ==
  LET found == {at[c] : c \in Children} \ {NoEntry}
  IN IF found = {} THEN "none"
     ELSE CHOOSE c \in Children : at[c] = IF forward THEN FirstOf(found) ELSE LastOf(found)

Merged(at, forward) == [at |-> at, current |-> Current(at, forward), forward |-> forward]
Entry(m) == IF m.current = "none" THEN NoEntry ELSE m.at[m.current]

SeekFirst == Merged([c \in Children |-> FirstOf(entries[c])], TRUE)
SeekLast == Merged([c \in Children |-> LastOf(entries[c])], FALSE)
SeekTo(e) == Merged([c \in Children |-> SeekIn(c, e)], TRUE)

\* Next and Prev that go the other way than the call before first seek with
\* every other child, and step over key() in a second call to it.
Others == Children \ {merge.current}

\* Mutant: the other children stay where the way back left them.
TurnNone == merge

Turn == [merge EXCEPT !.at = [c \in Children |-> IF c \in Others THEN SeekIn(c, Entry(merge))
                                                 ELSE merge.at[c]]]

MergeNext ==
  LET x == Entry(merge)
      after == [c \in Children |-> IF c \in Others /\ merge.at[c] = x THEN NextIn(c, x)
                                   ELSE merge.at[c]]
  IN Merged([(IF merge.forward THEN merge.at ELSE after)
               EXCEPT ![merge.current] = NextIn(merge.current, x)], TRUE)

MergePrev ==
  LET x == Entry(merge)
      before == [c \in Children |-> IF c \notin Others THEN merge.at[c]
                                    ELSE IF merge.at[c] = NoEntry THEN LastOf(entries[c])
                                    ELSE PrevIn(c, merge.at[c])]
  IN Merged([(IF merge.forward THEN before ELSE merge.at)
               EXCEPT ![merge.current] = PrevIn(merge.current, x)], FALSE)

Turns == call.op = IF merge.forward THEN "prev" ELSE "next"

Called ==
  CASE call.op = "first" -> SeekFirst
    [] call.op = "last" -> SeekLast
    [] call.op = "seek" -> SeekTo(call.target)
    [] call.op = "next" -> MergeNext
    [] call.op = "prev" -> MergePrev

-----------------------------------------------------------------------------
(***************************************************************************)
(* DBIter: what it does with the entry x it finds after an internal call.  *)
(***************************************************************************)
Calls(op, then) ==
  /\ call' = [NotCalled EXCEPT !.op = op, !.then = then]
  /\ UNCHANGED shown

Returns(k, s) ==
  /\ call' = NotCalled
  /\ shown' = [key |-> k, seq |-> s]

\* FindNextUserEntry: one turn of its loop.
FindNextUserEntry(it, x) ==
  LET visible == x.seq <= sequence
      hidden == it.skipping /\ x.key <= it.key
  IN \/ /\ x = NoEntry
        /\ iter' = [it EXCEPT !.valid = FALSE, !.key = End]
        /\ Returns(End, 0)
     \/ /\ x # NoEntry /\ visible /\ x.type = "deletion"
        /\ iter' = [it EXCEPT !.key = x.key, !.skipping = TRUE]
        /\ Calls("next", "FindNextUserEntry")
     \/ /\ x # NoEntry /\ visible /\ x.type = "value" /\ ~hidden
        /\ iter' = [it EXCEPT !.valid = TRUE, !.key = End]
        /\ Returns(x.key, x.seq)
     \/ /\ x # NoEntry /\ (~visible \/ (x.type = "value" /\ hidden))
        /\ iter' = it
        /\ Calls("next", "FindNextUserEntry")

\* FindPrevUserEntry: it goes on to the first entry of a smaller key that the
\* snapshot sees, so that what it saved last is the newest of its key.
FindPrevUserEntry(it, x) ==
  LET visible == x.seq <= sequence
      found == x = NoEntry \/ (visible /\ it.type # "deletion" /\ x.key < it.key)
  IN \/ /\ found /\ it.type = "deletion"
        /\ iter' = [it EXCEPT !.valid = FALSE, !.key = End, !.value = 0, !.forward = TRUE]
        /\ Returns(End, 0)
     \/ /\ found /\ it.type # "deletion"
        /\ iter' = [it EXCEPT !.valid = TRUE]
        /\ Returns(it.key, it.value)
     \/ /\ ~found
        /\ iter' = IF ~visible THEN it
                   ELSE IF x.type = "deletion"
                   THEN [it EXCEPT !.type = "deletion", !.key = End, !.value = 0]
                   ELSE [it EXCEPT !.type = "value", !.key = x.key, !.value = x.seq]
        /\ Calls("prev", "FindPrevUserEntry")

\* The loop of Prev that leaves the entries of the current key.
TurnBack(it, x) ==
  \/ /\ x = NoEntry
     /\ iter' = [it EXCEPT !.valid = FALSE, !.key = End, !.value = 0]
     /\ Returns(End, 0)
  \/ /\ x # NoEntry /\ x.key >= it.key
     /\ iter' = it
     /\ Calls("prev", "TurnBack")
  \/ /\ x # NoEntry /\ x.key < it.key
     /\ FindPrevUserEntry([it EXCEPT !.forward = FALSE, !.type = "deletion"], x)

Continue(it, x) ==
  \/ call.then = "FindNextUserEntry" /\ FindNextUserEntry(it, x)
  \/ call.then = "FindPrevUserEntry" /\ FindPrevUserEntry(it, x)
  \/ call.then = "TurnBack" /\ TurnBack(it, x)

-----------------------------------------------------------------------------
(***************************************************************************)
(* The calls of a client.                                                  *)
(***************************************************************************)
Least(S) == IF S = {} THEN End ELSE CHOOSE k \in S : \A j \in S : k <= j
Greatest(S) == IF S = {} THEN End ELSE CHOOSE k \in S : \A j \in S : j <= k

Start(k) ==
  /\ call = NotCalled
  /\ wantedKey' = k
  /\ UNCHANGED <<entries, last, sequence>>

IterSeek(t) ==
  /\ Start(Least({k \in Live : k >= t}))
  /\ iter' = [iter EXCEPT !.forward = TRUE, !.key = t, !.value = 0, !.skipping = FALSE]
  /\ call' = [NotCalled EXCEPT !.op = "seek", !.then = "FindNextUserEntry",
                               !.target = [key |-> t, seq |-> sequence, type |-> "value"]]
  /\ UNCHANGED <<merge, shown>>

IterSeekToFirst ==
  /\ Start(Least(Live))
  /\ iter' = [iter EXCEPT !.forward = TRUE, !.value = 0, !.skipping = FALSE]
  /\ Calls("first", "FindNextUserEntry")
  /\ UNCHANGED merge

IterSeekToLast ==
  /\ Start(Greatest(Live))
  /\ iter' = [iter EXCEPT !.forward = FALSE, !.value = 0, !.type = "deletion"]
  /\ Calls("last", "FindPrevUserEntry")
  /\ UNCHANGED merge

\* After a way back the internal iterator is before all entries of the key, on
\* one of a smaller key or on none.
MoveNext ==
  /\ iter.valid
  /\ Start(Least({k \in Live : k > shown.key}))
  /\ IF iter.forward
     THEN FindNextUserEntry([iter EXCEPT !.key = Entry(merge).key, !.skipping = TRUE], Entry(merge))
     ELSE /\ iter' = [iter EXCEPT !.forward = TRUE, !.skipping = TRUE]
          /\ Calls(IF Entry(merge) = NoEntry THEN "first" ELSE "next", "FindNextUserEntry")
  /\ UNCHANGED merge

MovePrev ==
  /\ iter.valid
  /\ Start(Greatest({k \in Live : k < shown.key}))
  /\ IF iter.forward
     THEN /\ iter' = [iter EXCEPT !.key = Entry(merge).key]
          /\ Calls("prev", "TurnBack")
     ELSE FindPrevUserEntry([iter EXCEPT !.type = "deletion"], Entry(merge))
  /\ UNCHANGED merge

\* The first half of an internal call that turns.
InternalTurn ==
  /\ call # NotCalled /\ Turns /\ ~call.turned
  /\ merge' = Turn
  /\ call' = [call EXCEPT !.turned = TRUE]
  /\ UNCHANGED <<entries, last, sequence, iter, shown, wantedKey>>

InternalCall ==
  /\ call # NotCalled /\ (Turns => call.turned)
  /\ \E m \in {Called} :
       /\ merge' = m
       /\ Continue(iter, Entry(m))
  /\ UNCHANGED <<entries, last, sequence, wantedKey>>

\* A writer adds to the memtable.
Write(k, ty) ==
  /\ last < MaxSeq
  /\ entries' = [entries EXCEPT !["mem"] = @ \cup {[key |-> k, seq |-> last + 1, type |-> ty]}]
  /\ last' = last + 1
  /\ UNCHANGED <<sequence, merge, iter, call, shown, wantedKey>>

IterNext ==
  \/ \E t \in UserKeys : IterSeek(t)
  \/ IterSeekToFirst \/ IterSeekToLast \/ MoveNext \/ MovePrev
  \/ InternalTurn \/ InternalCall
  \/ \E k \in UserKeys, ty \in Types : Write(k, ty)

IterSpec == IterInit /\ [][IterNext]_iterVars

-----------------------------------------------------------------------------
Positions == [key : UserKeys, seq : 1 .. MaxSeq, type : Types] \cup {NoEntry}

IterTypeOK ==
  /\ entries \in [Children -> SUBSET (Positions \ {NoEntry})]
  /\ last \in Written .. MaxSeq /\ sequence \in 0 .. last
  /\ merge \in [at : [Children -> Positions], current : Children \cup {"none"}, forward : BOOLEAN]
  /\ iter \in [forward : BOOLEAN, valid : BOOLEAN, key : UserKeys \cup {End}, value : 0 .. MaxSeq,
               skipping : BOOLEAN, type : Types]
  /\ call.op \in {"none", "first", "last", "seek", "next", "prev"}
  /\ call.op \in {"next", "prev"} => merge.current # "none"

\* Whatever calls came before, in whatever directions, and whatever is written
\* meanwhile, a call shows the key that the snapshot has next to the one shown.
ShowsNeighbour ==
  call = NotCalled => shown.key = wantedKey /\ iter.valid = (wantedKey # End)

\* ... and with it the last value that the snapshot sees of the key.
ShowsLatest == shown.key # End => shown.seq = Visible(shown.key).seq

\* Between an entry the snapshot sees, when it is key(), and where another child
\* of the merging iterator stands is no second one: in either direction none is
\* passed over, though children turn one by one and the memtable grows meanwhile.
NonePassedOver ==
  merge.current # "none" /\ Entry(merge).seq <= sequence /\ ~call.turned =>
    \A c \in Children \ {merge.current}, f \in UNION {entries[d] : d \in Children} :
      LET x == Entry(merge)
          e == merge.at[c]
      IN f \in entries[c] /\ f.seq <= sequence =>
           IF merge.forward THEN ~(Before(x, f) /\ (e = NoEntry \/ Before(f, e)))
           ELSE ~(Before(f, x) /\ (e = NoEntry \/ Before(e, f)))

\* Whatever is inserted between the steps of a call, and whichever way an
\* iterator turns, it shows the next key that its snapshot has, with the value
\* of the newest entry the snapshot sees, and passes over none.
IteratorExact == IterTypeOK /\ ShowsNeighbour /\ ShowsLatest /\ NonePassedOver
=============================================================================
