------------------------------ MODULE SkipList ------------------------------
(***************************************************************************)
(* The skip list of a memtable (db/skiplist.h).  One writer at a time      *)
(* inserts, under the mutex of the database; readers take no lock, so that *)
(* every load and store of a link is a step.  A node is its key: head_ is  *)
(* 0 and the null link is Top, greater than every key.                     *)
(***************************************************************************)
EXTENDS Integers

CONSTANTS
  Keys,       \* the keys a client may insert
  Top,        \* the null link
  MaxHeight,  \* kMaxHeight
  Readers     \* iterators in use at the same time

ASSUME KeysAssumption == Keys \subseteq Nat \ {0} /\ Top \in Nat \ {0} /\ \A k \in Keys : k < Top
ASSUME HeightAssumption == MaxHeight \in Nat \ {0}

HeadNode == 0
Garbage == -1   \* a link of a new node before it is set
Nodes == Keys \cup {HeadNode}
Levels == 0 .. MaxHeight - 1

VARIABLES
  next,       \* Node::next_
  height,     \* how many levels of a node are published, 0 for no node
  maxHeight,  \* max_height_
  writer,     \* the Insert under way: its locals and where it is
  reader,     \* per iterator: the search under way, its x and level
  pos         \* per iterator: node_

vars == <<next, height, maxHeight, writer, reader, pos>>

Idle == [op |-> "idle", x |-> HeadNode, level |-> 0, target |-> 0]

Init ==
  /\ next = [n \in Nodes |-> [l \in Levels |-> IF n = HeadNode THEN Top ELSE Garbage]]
  /\ height = [n \in Nodes |-> IF n = HeadNode THEN MaxHeight ELSE 0]
  /\ maxHeight = 1
  /\ writer = [pc |-> "idle", key |-> HeadNode, height |-> 0, level |-> 0,
               prev |-> [l \in Levels |-> HeadNode]]
  /\ reader = [r \in Readers |-> Idle]
  /\ pos = [r \in Readers |-> Top]

\* The nodes that links of a level lead to.
OnLevel(n, l) == height[n] > l

-----------------------------------------------------------------------------
\* Insert.  Nobody else changes links, so its search is one step: prev[l] is
\* the last node of the level before the key.
StartInsert(k, h, prev) ==
  /\ writer.pc = "idle"
  /\ height[k] = 0
  /\ \A l \in Levels : OnLevel(prev[l], l) /\ prev[l] < k /\ k < next[prev[l]][l]
  /\ writer' = [pc |-> "link", key |-> k, height |-> h, level |-> 0, prev |-> prev]
  /\ maxHeight' = IF h > maxHeight THEN h ELSE maxHeight
  /\ UNCHANGED <<next, height, reader, pos>>

\* Mutant: the new node's link is not set before the node is published.
LinkForgotten ==
  /\ writer.pc = "link"
  /\ writer' = [writer EXCEPT !.pc = "publish"]
  /\ UNCHANGED <<next, height, maxHeight, reader, pos>>

\* x->NoBarrier_SetNext(i, prev[i]->NoBarrier_Next(i))
Link ==
  /\ writer.pc = "link"
  /\ next' = [next EXCEPT ![writer.key][writer.level] =
                            next[writer.prev[writer.level]][writer.level]]
  /\ writer' = [writer EXCEPT !.pc = "publish"]
  /\ UNCHANGED <<height, maxHeight, reader, pos>>

\* prev[i]->SetNext(i, x)
Publish ==
  /\ writer.pc = "publish"
  /\ next' = [next EXCEPT ![writer.prev[writer.level]][writer.level] = writer.key]
  /\ height' = [height EXCEPT ![writer.key] = writer.level + 1]
  /\ writer' = [writer EXCEPT !.level = @ + 1,
                              !.pc = IF writer.level + 1 = writer.height THEN "idle" ELSE "link"]
  /\ UNCHANGED <<maxHeight, reader, pos>>

-----------------------------------------------------------------------------
\* Iterators.  GetMaxHeight is a relaxed load: "stale values are ok".

Search(r, op, target, h) ==
  /\ reader[r].op = "idle"
  /\ reader' = [reader EXCEPT ![r] = [op |-> op, x |-> HeadNode, level |-> h - 1, target |-> target]]
  /\ UNCHANGED <<next, height, maxHeight, writer, pos>>

\* Seek and Contains search with FindGreaterOrEqual, Prev and SeekToLast with
\* FindLessThan and FindLast.
Seek(r, h) == \E t \in Keys : Search(r, "ge", t, h)
Prev(r, h) == pos[r] # Top /\ Search(r, "lt", pos[r], h)
SeekToLast(r, h) == Search(r, "lt", Top, h)

\* One turn of the loop: right, down, or found.
Right(r) ==
  LET s == reader[r]
      link == next[s.x][s.level]
  IN /\ s.op # "idle"
     /\ link < s.target
     /\ reader' = [reader EXCEPT ![r].x = link]
     /\ UNCHANGED <<next, height, maxHeight, writer, pos>>

Down(r) ==
  LET s == reader[r]
      link == next[s.x][s.level]
  IN /\ s.op # "idle" /\ s.level > 0
     /\ link >= s.target
     /\ reader' = [reader EXCEPT ![r].level = @ - 1]
     /\ UNCHANGED <<next, height, maxHeight, writer, pos>>

\* Mutant: a search is over on the level it is on.
FoundAbove(r) ==
  LET s == reader[r]
      link == next[s.x][s.level]
  IN /\ s.op # "idle"
     /\ link >= s.target
     /\ pos' = [pos EXCEPT ![r] = IF s.op = "ge" THEN link
                                  ELSE IF s.x = HeadNode THEN Top ELSE s.x]
     /\ reader' = [reader EXCEPT ![r] = Idle]
     /\ UNCHANGED <<next, height, maxHeight, writer>>

Found(r) ==
  LET s == reader[r]
      link == next[s.x][s.level]
  IN /\ s.op # "idle" /\ s.level = 0
     /\ link >= s.target
     /\ pos' = [pos EXCEPT ![r] = IF s.op = "ge" THEN link
                                  ELSE IF s.x = HeadNode THEN Top ELSE s.x]
     /\ reader' = [reader EXCEPT ![r] = Idle]
     /\ UNCHANGED <<next, height, maxHeight, writer>>

\* Next and SeekToFirst: one load of a bottom link.
Follow(r, n) ==
  /\ reader[r].op = "idle"
  /\ pos' = [pos EXCEPT ![r] = next[n][0]]
  /\ UNCHANGED <<next, height, maxHeight, writer, reader>>

NextKey(r) == pos[r] # Top /\ Follow(r, pos[r])
SeekToFirst(r) == Follow(r, HeadNode)

Next ==
  \/ \E k \in Keys, h \in 1 .. MaxHeight, prev \in [Levels -> Nodes] : StartInsert(k, h, prev)
  \/ Link \/ Publish
  \/ \E r \in Readers, h \in 1 .. maxHeight : Seek(r, h) \/ Prev(r, h) \/ SeekToLast(r, h)
  \/ \E r \in Readers : Right(r) \/ Down(r) \/ Found(r) \/ NextKey(r) \/ SeekToFirst(r)

Spec == Init /\ [][Next]_vars

-----------------------------------------------------------------------------
Linked == {k \in Keys : height[k] > 0}

TypeOK ==
  /\ next \in [Nodes -> [Levels -> Keys \cup {Top, Garbage}]]
  /\ height \in [Nodes -> 0 .. MaxHeight] /\ height[HeadNode] = MaxHeight
  /\ maxHeight \in 1 .. MaxHeight
  /\ writer \in [pc : {"idle", "link", "publish"}, key : Nodes, height : 0 .. MaxHeight,
                 level : 0 .. MaxHeight, prev : [Levels -> Nodes]]
  /\ reader \in [Readers -> [op : {"idle", "ge", "lt"}, x : Nodes, level : Levels,
                             target : Keys \cup {0, Top}]]
  /\ pos \in [Readers -> Keys \cup {Top}]

\* A link that a reader can reach leads on, to a node of the same level, and
\* never to an unset link: the order of the stores in Insert keeps it so.
LinksLead ==
  \A n \in Nodes, l \in Levels : OnLevel(n, l) =>
    /\ next[n][l] # Garbage /\ n < next[n][l]
    /\ next[n][l] # Top => OnLevel(next[n][l], l)

\* No link jumps over a node of its level.
NoneSkipped ==
  \A m, n \in Nodes, l \in Levels :
    OnLevel(m, l) /\ OnLevel(n, l) /\ n < m => next[n][l] <= m

\* FindLessThan's assertion, for both searches: x is before the target, and a
\* reader is on a level that x has.
SearchBehind ==
  \A r \in Readers : LET s == reader[r]
    IN s.op # "idle" => s.x < s.target /\ OnLevel(s.x, s.level)

WellLinked == LinksLead /\ NoneSkipped

\* The insertion under way: what it has published, and that the place it found
\* for the levels above is still the place.
WriterOK ==
  writer.pc # "idle" =>
    /\ writer.key \in Keys /\ writer.level < writer.height
    /\ height[writer.key] = writer.level
    /\ \A l \in writer.level .. MaxHeight - 1 :
         LET p == writer.prev[l]
         IN OnLevel(p, l) /\ p < writer.key /\ writer.key < next[p][l]
    /\ writer.pc = "publish" =>
         next[writer.key][writer.level] = next[writer.prev[writer.level]][writer.level]

\* An iterator stands on a key that is in the list.
PosLinked == \A r \in Readers : pos[r] # Top => pos[r] \in Linked

\* A search keeps the target its iterator gave it.
TargetKept ==
  \A r \in Readers : LET s == reader[r]
    IN /\ s.op = "ge" => s.target \in Keys
       /\ s.op = "lt" => s.target \in {Top, pos[r]}

Inv == TypeOK /\ WellLinked /\ SearchBehind /\ WriterOK /\ PosLinked /\ TargetKept

\* Searches and steps of iterators, though they race with an insertion, take
\* effect at once: the list is a set that grows with the bottom link.
Set == INSTANCE OrderedSet WITH keys <- Linked
SetSpec == Set!Spec
=============================================================================
