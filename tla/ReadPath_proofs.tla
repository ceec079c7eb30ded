---------------------------- MODULE ReadPath_proofs ----------------------------
(***************************************************************************)
(* What a read goes through: the skip list of a memtable, the iterator     *)
(* over the merged entries and the cache of the open tables, each for      *)
(* every value of its constants.                                           *)
(***************************************************************************)
EXTENDS SkipList, DBIter, LRUCache, FiniteSetTheorems, SequenceTheorems, WellFoundedInduction,
        TLAPS

-----------------------------------------------------------------------------
(***************************************************************************)
(* SkipList.  Inv is inductive: a search is right because the links it     *)
(* follows lead on and skip nothing (WellLinked) from a node before its    *)
(* target (SearchBehind), and the links stay so because an insertion       *)
(* publishes a node whose own link is set, between two neighbours that no  *)
(* one else moves (WriterOK).  With it the list implements OrderedSet.     *)
(***************************************************************************)

LEMMA Constants ==
  /\ HeadNode \in Nodes /\ HeadNode \notin Keys /\ Keys \subseteq Nodes
  /\ Nodes \subseteq Nat /\ Top \in Nat
  /\ \A n \in Nodes : n < Top
  /\ \A k \in Keys : HeadNode < k
  /\ 0 \in Levels /\ Levels \subseteq Nat /\ Garbage \notin Nat
BY KeysAssumption, HeightAssumption DEF Nodes, HeadNode, Levels, Garbage

-----------------------------------------------------------------------------
(***************************************************************************)
(* The invariant.                                                          *)
(***************************************************************************)

\* The first state is an empty list.
LEMMA InitInv == Init => Inv
<1> SUFFICES ASSUME Init PROVE Inv
  OBVIOUS
<1> USE Constants, HeightAssumption DEF Init
<1>1. TypeOK
  BY DEF TypeOK, Idle, Levels, Nodes, HeadNode
<1>2. \A n \in Nodes, l \in Levels : OnLevel(n, l) => n = HeadNode
  BY DEF OnLevel, Levels
<1>3. WellLinked
  BY <1>2 DEF WellLinked, LinksLead, NoneSkipped
<1>4. SearchBehind /\ WriterOK /\ PosLinked /\ TargetKept
  BY DEF SearchBehind, WriterOK, PosLinked, TargetKept, Idle
<1> QED
  BY <1>1, <1>3, <1>4 DEF Inv

\* Nodes and links change only in the two stores of an insertion.
LEMMA LinksUnchanged ==
  ASSUME WellLinked, UNCHANGED <<next, height>>
  PROVE  WellLinked'
BY DEF WellLinked, LinksLead, NoneSkipped, OnLevel

\* ... and one that keeps the links readers can reach keeps them well formed.
LEMMA LinksKept ==
  ASSUME WellLinked, UNCHANGED height,
         \A n \in Nodes, l \in Levels : OnLevel(n, l) => next'[n][l] = next[n][l]
  PROVE  WellLinked'
<1>1. \A n, l : OnLevel(n, l)' <=> OnLevel(n, l)
  BY DEF OnLevel
<1>2. \A n \in Nodes, l \in Levels : OnLevel(n, l) =>
        /\ next'[n][l] # Garbage /\ n < next'[n][l]
        /\ next'[n][l] # Top => OnLevel(next[n][l], l)'
  BY DEF WellLinked, LinksLead, OnLevel
<1>3. LinksLead'
  BY <1>1, <1>2 DEF LinksLead
<1>4. NoneSkipped'
  BY <1>1 DEF WellLinked, NoneSkipped
<1> QED
  BY <1>3, <1>4 DEF WellLinked

\* A link that a reader can reach.
LEMMA GoodLink ==
  ASSUME Inv, NEW n \in Nodes, NEW l \in Levels, OnLevel(n, l)
  PROVE  /\ next[n][l] \in Keys \cup {Top} /\ n < next[n][l]
         /\ next[n][l] # Top => OnLevel(next[n][l], l)
<1>1. next[n][l] \in Keys \cup {Top, Garbage}
  BY DEF Inv, TypeOK
<1>2. next[n][l] # Garbage /\ n < next[n][l] /\ (next[n][l] # Top => OnLevel(next[n][l], l))
  BY DEF Inv, WellLinked, LinksLead
<1> QED
  BY <1>1, <1>2

\* What an insertion starts with.
LEMMA StartInsertInv ==
  ASSUME Inv, NEW k \in Keys, NEW h \in 1 .. MaxHeight, NEW prev \in [Levels -> Nodes],
         StartInsert(k, h, prev)
  PROVE  Inv'
<1> USE Constants, HeightAssumption DEF Inv, StartInsert
<1>1. TypeOK'
  BY DEF TypeOK
<1>2. WellLinked'
  BY LinksUnchanged
<1>3. SearchBehind' /\ PosLinked' /\ TargetKept'
  BY DEF SearchBehind, PosLinked, TargetKept, Linked, OnLevel
<1>4. WriterOK'
  BY DEF WriterOK, OnLevel, Levels
<1> QED
  BY <1>1, <1>2, <1>3, <1>4

\* The link of the new node is set before a reader can reach it there.
LEMMA LinkInv == Inv /\ Link => Inv'
<1> SUFFICES ASSUME Inv, Link PROVE Inv'
  OBVIOUS
<1> USE Constants, HeightAssumption DEF Inv, Link
<1> DEFINE k == writer.key  i == writer.level  p == writer.prev[writer.level]
<1>1. /\ k \in Keys /\ i \in Levels /\ p \in Nodes
      /\ writer.height \in 0 .. MaxHeight /\ i < writer.height /\ height[k] = i
      /\ OnLevel(p, i) /\ p < k /\ k < next[p][i]
  BY DEF TypeOK, WriterOK, Levels
<1>2. next[p][i] \in Keys \cup {Top, Garbage}
  BY <1>1 DEF TypeOK
<1>3. TypeOK'
  BY <1>1, <1>2 DEF TypeOK
<1>4. ~OnLevel(k, i)
  BY <1>1 DEF OnLevel, Levels
<1>5. \A n \in Nodes, l \in Levels : OnLevel(n, l) => next'[n][l] = next[n][l]
  BY <1>1, <1>4 DEF TypeOK
<1>6. WellLinked'
  BY <1>5, LinksKept
<1>7. SearchBehind' /\ PosLinked' /\ TargetKept'
  BY DEF SearchBehind, PosLinked, TargetKept, Linked, OnLevel
<1>8. WriterOK'
  <2>1. /\ writer'.pc = "publish" /\ writer'.key = k /\ writer'.level = i
        /\ writer'.height = writer.height /\ writer'.prev = writer.prev
    BY DEF TypeOK
  <2>2. next'[k][i] = next[p][i] /\ next'[p][i] = next[p][i]
    BY <1>1, <1>5 DEF TypeOK
  <2>3. \A l \in i .. MaxHeight - 1 :
          LET q == writer.prev[l]
          IN OnLevel(q, l) /\ q < k /\ k < next'[q][l]
    <3> SUFFICES ASSUME NEW l \in i .. MaxHeight - 1
                 PROVE  LET q == writer.prev[l]
                        IN OnLevel(q, l) /\ q < k /\ k < next'[q][l]
      OBVIOUS
    <3>1. l \in Levels /\ writer.prev[l] \in Nodes
      BY <1>1 DEF TypeOK, Levels
    <3> QED
      BY <3>1, <1>5 DEF WriterOK
  <2> QED
    BY <1>1, <2>1, <2>2, <2>3 DEF WriterOK, OnLevel
<1> QED
  BY <1>3, <1>6, <1>7, <1>8

\* A published node stands between its neighbours.
LEMMA PublishInv == Inv /\ Publish => Inv'
<1> SUFFICES ASSUME Inv, Publish PROVE Inv'
  OBVIOUS
<1> USE Constants, HeightAssumption DEF Inv, Publish
<1> DEFINE k == writer.key  i == writer.level  p == writer.prev[writer.level]
<1>1. /\ k \in Keys /\ k \in Nodes /\ k # HeadNode /\ i \in Levels /\ p \in Nodes
      /\ writer.height \in 0 .. MaxHeight /\ i < writer.height /\ height[k] = i
      /\ OnLevel(p, i) /\ p < k /\ k < next[p][i]
      /\ next[k][i] = next[p][i]
  BY DEF TypeOK, WriterOK, Levels
<1>2. TypeOK'
  <2>1. next' \in [Nodes -> [Levels -> Keys \cup {Top, Garbage}]]
    BY <1>1 DEF TypeOK
  <2>2. height' \in [Nodes -> 0 .. MaxHeight] /\ height'[HeadNode] = MaxHeight
    BY <1>1 DEF TypeOK, Levels
  <2>3. writer' \in [pc : {"idle", "link", "publish"}, key : Nodes, height : 0 .. MaxHeight,
                     level : 0 .. MaxHeight, prev : [Levels -> Nodes]]
    <3>1. writer \in [pc : {"idle", "link", "publish"}, key : Nodes, height : 0 .. MaxHeight,
                      level : 0 .. MaxHeight, prev : [Levels -> Nodes]]
      BY DEF TypeOK
    <3>2. i + 1 \in 0 .. MaxHeight
      BY <1>1 DEF Levels
    <3>3. writer' = [writer EXCEPT !.level = i + 1,
                       !.pc = IF i + 1 = writer.height THEN "idle" ELSE "link"]
      OBVIOUS
    <3> QED
      BY <3>1, <3>2, <3>3
  <2> QED
    BY <2>1, <2>2, <2>3 DEF TypeOK
<1>3. /\ \A n \in Nodes, l \in Levels : ~(n = p /\ l = i) => next'[n][l] = next[n][l]
      /\ next'[p][i] = k
  BY <1>1 DEF TypeOK
<1>4. /\ \A n \in Nodes : n # k => height'[n] = height[n]
      /\ height'[k] = i + 1
  BY <1>1 DEF TypeOK
<1>5. \A n \in Nodes, l \in Levels : OnLevel(n, l)' <=> OnLevel(n, l) \/ (n = k /\ l = i)
  <2> SUFFICES ASSUME NEW n \in Nodes, NEW l \in Levels
               PROVE  OnLevel(n, l)' <=> OnLevel(n, l) \/ (n = k /\ l = i)
    OBVIOUS
  <2>1. CASE n = k
    BY <2>1, <1>1, <1>4 DEF OnLevel
  <2>2. CASE n # k
    BY <2>2, <1>4 DEF OnLevel
  <2> QED
    BY <2>1, <2>2
<1>6. LinksLead'
  <2> SUFFICES ASSUME NEW n \in Nodes, NEW l \in Levels, OnLevel(n, l)'
               PROVE  /\ next'[n][l] # Garbage /\ n < next'[n][l]
                      /\ next'[n][l] # Top => OnLevel(next[n][l], l)'
    BY DEF LinksLead
  <2>1. CASE n = p /\ l = i
    BY <2>1, <1>1, <1>3, <1>5
  <2>2. CASE n = k /\ l = i
    <3>1. next'[n][l] = next[p][i] /\ next[p][i] \in Keys \cup {Top, Garbage}
      BY <2>2, <1>1, <1>3 DEF TypeOK
    <3>2. next[p][i] # Garbage /\ (next[p][i] # Top => OnLevel(next[p][i], i))
      BY <1>1 DEF WellLinked, LinksLead
    <3> QED
      BY <2>2, <3>1, <3>2, <1>1, <1>5
  <2>3. CASE ~(n = p /\ l = i) /\ ~(n = k /\ l = i)
    <3>1. OnLevel(n, l) /\ next'[n][l] = next[n][l] /\ next[n][l] \in Keys \cup {Top, Garbage}
      BY <2>3, <1>3, <1>5 DEF TypeOK
    <3> QED
      BY <3>1, <1>5 DEF WellLinked, LinksLead
  <2> QED
    BY <2>1, <2>2, <2>3
<1>7. NoneSkipped'
  <2> SUFFICES ASSUME NEW m \in Nodes, NEW n \in Nodes, NEW l \in Levels,
                      OnLevel(m, l)', OnLevel(n, l)', n < m
               PROVE  next'[n][l] <= m
    BY DEF NoneSkipped
  <2>0. /\ next[n][l] \in Keys \cup {Top, Garbage}
        /\ next[p][i] \in Keys \cup {Top, Garbage}
        /\ OnLevel(n, l) => next[n][l] # Garbage
        /\ next[p][i] # Garbage
    BY <1>1 DEF TypeOK, WellLinked, LinksLead
  <2>1. CASE l # i
    BY <2>1, <1>3, <1>5 DEF WellLinked, NoneSkipped
  <2>2. CASE l = i /\ m # k /\ n # k /\ n # p
    BY <2>2, <1>3, <1>5 DEF WellLinked, NoneSkipped
  <2>3. CASE l = i /\ m # k /\ n = p
    <3>1. next[p][i] <= m
      BY <2>3, <1>1, <1>5 DEF WellLinked, NoneSkipped
    <3> QED
      BY <3>1, <2>0, <2>3, <1>1, <1>3
  <2>4. CASE l = i /\ m # k /\ n = k
    <3>1. OnLevel(m, i) /\ p < m
      BY <2>4, <1>1, <1>5
    <3>2. next[p][i] <= m
      BY <3>1, <1>1 DEF WellLinked, NoneSkipped
    <3> QED
      BY <3>2, <2>4, <1>1, <1>3
  <2>5. CASE l = i /\ m = k
    <3>1. OnLevel(n, i) /\ n # k
      BY <2>5, <1>5
    <3>2. CASE n = p
      BY <3>2, <2>5, <1>3, <1>1
    <3>3. CASE n < p
      <4>1. next[n][i] <= p
        BY <3>1, <3>3, <1>1 DEF WellLinked, NoneSkipped
      <4> QED
        BY <4>1, <3>3, <2>0, <2>5, <1>1, <1>3, <3>1
    <3>4. CASE p < n
      <4>1. next[p][i] <= n
        BY <3>1, <3>4, <1>1 DEF WellLinked, NoneSkipped
      <4> QED
        BY <4>1, <2>0, <2>5, <1>1
    <3> QED
      BY <3>2, <3>3, <3>4, <1>1
  <2> QED
    BY <2>1, <2>2, <2>3, <2>4, <2>5
<1>8. SearchBehind'
  <2> SUFFICES ASSUME NEW r \in Readers, reader[r].op # "idle"
               PROVE  reader[r].x < reader[r].target /\ OnLevel(reader[r].x, reader[r].level)'
    BY DEF SearchBehind
  <2>1. reader[r].x \in Nodes /\ reader[r].level \in Levels
    BY DEF TypeOK
  <2> QED
    BY <2>1, <1>5 DEF SearchBehind
<1>9. PosLinked'
  <2>1. Linked \subseteq Linked'
    BY <1>1, <1>4 DEF Linked, Levels
  <2> QED
    BY <2>1 DEF PosLinked
<1>10. WriterOK'
  <2>1. /\ writer'.key = k /\ writer'.level = i + 1
        /\ writer'.height = writer.height /\ writer'.prev = writer.prev
        /\ writer'.pc = IF i + 1 = writer.height THEN "idle" ELSE "link"
    BY DEF TypeOK
  <2> SUFFICES ASSUME i + 1 # writer.height PROVE WriterOK'
    BY <2>1 DEF WriterOK
  <2>2. \A l \in i + 1 .. MaxHeight - 1 :
          LET q == writer.prev[l]
          IN OnLevel(q, l)' /\ q < k /\ k < next'[q][l]
    <3> SUFFICES ASSUME NEW l \in i + 1 .. MaxHeight - 1
                 PROVE  LET q == writer.prev[l]
                        IN OnLevel(q, l)' /\ q < k /\ k < next'[q][l]
      OBVIOUS
    <3>1. l \in Levels /\ l # i /\ l \in i .. MaxHeight - 1 /\ writer.prev[l] \in Nodes
      <4>1. l \in Levels /\ l # i /\ l \in i .. MaxHeight - 1
        BY <1>1 DEF Levels
      <4>. QED
        BY <4>1 DEF TypeOK
    <3> QED
      BY <3>1, <1>3, <1>5 DEF WriterOK
  <2> QED
    BY <1>1, <1>4, <2>1, <2>2 DEF WriterOK, Levels
<1>11. TargetKept'
  BY DEF TargetKept
<1> QED
  BY <1>2, <1>6, <1>7, <1>8, <1>9, <1>10, <1>11 DEF WellLinked

\* A search that starts stands on head_, before every key.
LEMMA SearchInv ==
  ASSUME Inv, NEW r \in Readers, NEW op \in {"ge", "lt"}, NEW t \in Keys \cup {Top},
         NEW h \in 1 .. maxHeight, Search(r, op, t, h),
         IF op = "ge" THEN t \in Keys ELSE t \in {Top, pos[r]}
  PROVE  Inv'
<1> USE Constants, HeightAssumption DEF Inv, Search
<1>1. h - 1 \in Levels /\ h - 1 < MaxHeight
  BY DEF TypeOK, Levels
<1>2. TypeOK'
  BY <1>1 DEF TypeOK
<1>3. WellLinked'
  BY LinksUnchanged
<1>4. WriterOK' /\ PosLinked'
  BY DEF WriterOK, PosLinked, Linked, OnLevel
<1>5. SearchBehind'
  <2>1. HeadNode < t /\ OnLevel(HeadNode, h - 1)
    BY <1>1 DEF TypeOK, OnLevel, Nodes, HeadNode, Levels
  <2> QED
    BY <2>1 DEF SearchBehind, OnLevel, TypeOK
<1>6. TargetKept'
  BY DEF TargetKept, TypeOK
<1> QED
  BY <1>2, <1>3, <1>4, <1>5, <1>6

\* What one turn of a search leaves of its type.
LEMMA SearchTyped ==
  ASSUME NEW s \in [op : {"idle", "ge", "lt"}, x : Nodes, level : Levels,
                    target : Keys \cup {0, Top}],
         NEW x \in Nodes, NEW l \in Levels
  PROVE  /\ [s EXCEPT !.x = x] \in [op : {"idle", "ge", "lt"}, x : Nodes, level : Levels,
                                    target : Keys \cup {0, Top}]
         /\ [s EXCEPT !.level = l] \in [op : {"idle", "ge", "lt"}, x : Nodes, level : Levels,
                                        target : Keys \cup {0, Top}]
OBVIOUS

LEMMA HeightNat ==
  ASSUME TypeOK, NEW n \in Nodes
  PROVE  height[n] \in Nat
BY HeightAssumption DEF TypeOK

\* A search goes right and down on nodes of its level, and ends on a key.
LEMMA LoopInv ==
  ASSUME Inv, NEW r \in Readers, Right(r) \/ Down(r) \/ Found(r)
  PROVE  Inv'
<1> USE Constants, HeightAssumption DEF Inv
<1> DEFINE s == reader[r]  link == next[s.x][s.level]
<1>0. s \in [op : {"idle", "ge", "lt"}, x : Nodes, level : Levels,
              target : Keys \cup {0, Top}]
  BY DEF TypeOK
<1>1. /\ s.x \in Nodes /\ s.level \in Levels /\ s.target \in Keys \cup {0, Top}
      /\ s.op \in {"ge", "lt"} /\ s.x < s.target /\ OnLevel(s.x, s.level)
  BY DEF Right, Down, Found, TypeOK, SearchBehind
<1>2. /\ link \in Keys \cup {Top} /\ s.x < link
      /\ link # Top => OnLevel(link, s.level)
  BY <1>1, GoodLink
<1>3. UNCHANGED <<next, height, maxHeight, writer>>
  BY DEF Right, Down, Found
<1>4. WellLinked' /\ WriterOK'
  BY <1>3, LinksUnchanged DEF WriterOK, OnLevel
<1>4a. TargetKept'
  <2>1. reader \in [Readers -> [op : {"idle", "ge", "lt"}, x : Nodes, level : Levels,
                                target : Keys \cup {0, Top}]]
        /\ pos \in [Readers -> Keys \cup {Top}]
    BY DEF TypeOK
  <2>2. \A q \in Readers : /\ reader'[q] = Idle \/ (/\ reader'[q].op = reader[q].op
                                                  /\ reader'[q].target = reader[q].target)
                           /\ q # r => reader'[q] = reader[q] /\ pos'[q] = pos[q]
                           /\ reader'[r] = Idle \/ pos' = pos
    BY <2>1 DEF Right, Down, Found
  <2> QED
    BY <2>2 DEF TargetKept, Idle
<1>5. CASE Right(r)
  <2>1. link \in Keys /\ link \in Nodes /\ OnLevel(link, s.level)
    BY <1>1, <1>2, <1>5 DEF Right, Nodes
  <2>2. TypeOK' /\ PosLinked'
    <3>1. reader' = [reader EXCEPT ![r] = [s EXCEPT !.x = link]] /\ pos' = pos
      BY <1>5 DEF Right
    <3>2. [s EXCEPT !.x = link] \in [op : {"idle", "ge", "lt"}, x : Nodes, level : Levels,
                                     target : Keys \cup {0, Top}]
      BY <1>0, <2>1, <1>1, SearchTyped
    <3> QED
      BY <3>1, <3>2, <1>3 DEF TypeOK, PosLinked, Linked
  <2>3. SearchBehind'
    BY <1>5, <2>1 DEF Right, TypeOK, SearchBehind, OnLevel
  <2> QED
    BY <1>4, <1>4a, <2>2, <2>3
<1>6. CASE Down(r)
  <2>1. s.level - 1 \in Levels /\ OnLevel(s.x, s.level - 1)
    <3>1. s.level \in Nat /\ s.level > 0 /\ s.level - 1 \in Levels
      BY <1>1, <1>6 DEF Down, Levels
    <3>3. height[s.x] \in Nat
      BY <1>1, HeightNat
    <3> QED
      BY <3>1, <3>3, <1>1 DEF OnLevel
  <2>2. TypeOK' /\ PosLinked'
    <3>1. reader' = [reader EXCEPT ![r] = [s EXCEPT !.level = s.level - 1]] /\ pos' = pos
      BY <1>6 DEF Down
    <3>2. s \in [op : {"idle", "ge", "lt"}, x : Nodes, level : Levels,
                  target : Keys \cup {0, Top}]
      BY DEF TypeOK
    <3>3. [s EXCEPT !.level = s.level - 1]
            \in [op : {"idle", "ge", "lt"}, x : Nodes, level : Levels,
                 target : Keys \cup {0, Top}]
      BY <2>1, <3>2
    <3> QED
      BY <3>1, <3>3, <1>3 DEF TypeOK, PosLinked, Linked
  <2>3. SearchBehind'
    BY <1>6, <1>1, <2>1 DEF Down, TypeOK, SearchBehind, OnLevel
  <2> QED
    BY <1>4, <1>4a, <2>2, <2>3
<1>7. CASE Found(r)
  <2> DEFINE found == IF s.op = "ge" THEN link ELSE IF s.x = HeadNode THEN Top ELSE s.x
  <2>1. pos' = [pos EXCEPT ![r] = found]
    BY <1>7 DEF Found
  <2>2. found \in Keys \cup {Top} /\ (found # Top => found \in Linked)
    BY <1>1, <1>2, <1>7 DEF Found, Linked, OnLevel, Nodes, Levels, TypeOK
  <2>3. PosLinked' /\ TypeOK'
    BY <1>7, <2>1, <2>2 DEF Found, TypeOK, PosLinked, Linked, Idle, Nodes
  <2>4. SearchBehind'
    BY <1>7 DEF Found, TypeOK, SearchBehind, Idle, OnLevel
  <2> QED
    BY <1>4, <1>4a, <2>3, <2>4
<1> QED
  BY <1>5, <1>6, <1>7

\* A bottom link leads to a key of the list.
LEMMA BottomLink ==
  ASSUME Inv, NEW n \in Nodes, OnLevel(n, 0)
  PROVE  next[n][0] \in Linked \cup {Top} /\ n < next[n][0]
BY Constants DEF Inv, WellLinked, LinksLead, TypeOK, Linked, OnLevel

LEMMA FollowInv ==
  ASSUME Inv, NEW r \in Readers, NextKey(r) \/ SeekToFirst(r)
  PROVE  Inv'
<1> USE Constants, HeightAssumption DEF Inv, NextKey, SeekToFirst, Follow
<1>1. PICK n \in Nodes : OnLevel(n, 0) /\ pos' = [pos EXCEPT ![r] = next[n][0]]
  <2>1. CASE NextKey(r)
    <3>1. pos[r] \in Linked
      BY <2>1 DEF PosLinked
    <3> QED
      BY <2>1, <3>1 DEF Linked, OnLevel
  <2>2. CASE SeekToFirst(r)
    <3>1. OnLevel(HeadNode, 0)
      BY DEF OnLevel, TypeOK
    <3> QED
      BY <2>2, <3>1
  <2> QED
    BY <2>1, <2>2
<1>2. next[n][0] \in Linked \cup {Top} /\ Linked \subseteq Keys
  BY <1>1, BottomLink DEF Linked
<1>3. TypeOK' /\ PosLinked'
  BY <1>1, <1>2 DEF TypeOK, PosLinked, Linked
<1>4. WellLinked' /\ WriterOK' /\ SearchBehind' /\ TargetKept'
  BY LinksUnchanged DEF WriterOK, SearchBehind, TargetKept, TypeOK, OnLevel
<1> QED
  BY <1>3, <1>4

LEMMA NextInv == Inv /\ [Next]_vars => Inv'
<1> SUFFICES ASSUME Inv, [Next]_vars PROVE Inv'
  OBVIOUS
<1>1. ASSUME NEW k \in Keys, NEW h \in 1 .. MaxHeight, NEW prev \in [Levels -> Nodes],
             StartInsert(k, h, prev)
      PROVE  Inv'
  BY <1>1, StartInsertInv
<1>2. CASE Link \/ Publish
  BY <1>2, LinkInv, PublishInv
<1>3. ASSUME NEW r \in Readers, NEW h \in 1 .. maxHeight,
             Seek(r, h) \/ Prev(r, h) \/ SeekToLast(r, h)
      PROVE  Inv'
  <2>1. CASE Seek(r, h)
    BY <2>1, SearchInv DEF Seek
  <2>2. CASE Prev(r, h)
    BY <2>2, SearchInv DEF Prev, Inv, TypeOK
  <2>3. CASE SeekToLast(r, h)
    BY <2>3, SearchInv DEF SeekToLast
  <2> QED
    BY <1>3, <2>1, <2>2, <2>3
<1>4. ASSUME NEW r \in Readers, Right(r) \/ Down(r) \/ Found(r) \/ NextKey(r) \/ SeekToFirst(r)
      PROVE  Inv'
  BY <1>4, LoopInv, FollowInv
<1>5. CASE UNCHANGED vars
  <2>1. WellLinked'
    BY <1>5, LinksUnchanged DEF vars, Inv
  <2> QED
    BY <1>5, <2>1 DEF vars, Inv, TypeOK, SearchBehind, WriterOK, PosLinked, TargetKept,
                       Linked, OnLevel
<1> QED
  BY <1>1, <1>2, <1>3, <1>4, <1>5 DEF Next

\* The list stays well formed while readers walk it without a lock: types,
\* links and searches, as the code's assertions have them.
THEOREM SkipListInvariant == Spec => []Inv
<1> QED
  BY InitInv, NextInv, PTL DEF Spec

\* A reader never meets an unset link or a link that skips a node.
THEOREM AlwaysWellLinked == Spec => []WellLinked
<1>1. Inv => WellLinked
  BY DEF Inv
<1> QED
  BY <1>1, SkipListInvariant, PTL

\* FindLessThan's assertion holds on every turn of both searches.
THEOREM AlwaysBehind == Spec => []SearchBehind
<1>1. Inv => SearchBehind
  BY DEF Inv
<1> QED
  BY <1>1, SkipListInvariant, PTL

-----------------------------------------------------------------------------
(***************************************************************************)
(* The list implements OrderedSet.                                         *)
(***************************************************************************)

\* A bottom link past a target is the least key from the target on.
LEMMA LeastAfter ==
  ASSUME Inv, NEW n \in Nodes, OnLevel(n, 0), NEW t \in Nat, n < t, next[n][0] >= t
  PROVE  Set!IsLeast(next[n][0], {k \in Linked : k >= t})
<1> USE Constants
<1>1. next[n][0] \in Linked \cup {Top}
  BY BottomLink
<1>2. \A k \in Linked : k \in Nat /\ k < Top
  BY DEF Linked
<1>3. ASSUME NEW k \in Linked, k >= t PROVE next[n][0] <= k
  <2>1. k \in Nodes /\ OnLevel(k, 0)
    BY <1>3 DEF Linked, OnLevel
  <2>2. n < k
    BY <1>2, <1>3
  <2> QED
    BY <2>1, <2>2 DEF Inv, WellLinked, NoneSkipped
<1> QED
  BY <1>1, <1>2, <1>3 DEF Set!IsLeast

\* A node whose bottom link is past a target is the greatest before it.
LEMMA GreatestBefore ==
  ASSUME Inv, NEW n \in Nodes, OnLevel(n, 0), NEW t \in Nat, n < t, next[n][0] >= t
  PROVE  Set!IsGreatest(IF n = HeadNode THEN Top ELSE n, {k \in Linked : k < t})
<1> USE Constants
<1>1. \A k \in Linked : k \in Nat /\ k \in Nodes /\ OnLevel(k, 0) /\ HeadNode < k
  BY DEF Linked, OnLevel
<1>2. ASSUME NEW k \in Linked, k < t PROVE k <= n
  <2>1. n < k => next[n][0] <= k
    BY <1>1 DEF Inv, WellLinked, NoneSkipped
  <2>2. next[n][0] \in Nat
    BY BottomLink, <1>1
  <2> QED
    BY <1>1, <1>2, <2>1, <2>2
<1>3. n # HeadNode => n \in Linked
  BY DEF Linked, OnLevel, Nodes
<1> QED
  BY <1>1, <1>2, <1>3 DEF Set!IsGreatest

\* Each step of the list is a step of the set or none.
LEMMA StepImplements == Inv /\ [Next]_vars => [Set!Step]_<<Linked, pos>>
<1> SUFFICES ASSUME Inv, Next PROVE Set!Step \/ UNCHANGED <<Linked, pos>>
  BY DEF vars, Linked
<1> USE Constants, HeightAssumption
<1>1. ASSUME NEW k \in Keys, NEW h \in 1 .. MaxHeight, NEW prev \in [Levels -> Nodes],
             StartInsert(k, h, prev)
      PROVE  UNCHANGED <<Linked, pos>>
  BY <1>1 DEF StartInsert, Linked
<1>2. CASE Link
  BY <1>2 DEF Link, Linked
<1>3. CASE Publish
  <2>1. writer.key \in Keys /\ writer.level \in Nat /\ height[writer.key] = writer.level
    BY <1>3 DEF Publish, Inv, WriterOK, TypeOK
  <2>2. Linked' = Linked \cup {writer.key}
    BY <1>3, <2>1 DEF Publish, Linked, Inv, TypeOK
  <2>3. CASE writer.level = 0
    <3>1. writer.key \in Keys \ Linked
      BY <2>1, <2>3 DEF Linked
    <3> QED
      BY <1>3, <2>2, <3>1 DEF Publish, Set!Step, Set!Insert
  <2>4. CASE writer.level > 0
    BY <1>3, <2>1, <2>2, <2>4 DEF Publish, Linked
  <2> QED
    BY <2>1, <2>3, <2>4
<1>4. ASSUME NEW r \in Readers, NEW h \in 1 .. maxHeight,
             Seek(r, h) \/ Prev(r, h) \/ SeekToLast(r, h)
      PROVE  UNCHANGED <<Linked, pos>>
  BY <1>4 DEF Seek, Prev, SeekToLast, Search, Linked
<1>5. ASSUME NEW r \in Readers, Right(r) \/ Down(r)
      PROVE  UNCHANGED <<Linked, pos>>
  BY <1>5 DEF Right, Down, Linked
<1>6. ASSUME NEW r \in Readers, Found(r)
      PROVE  Set!Step
  <2> DEFINE s == reader[r]  link == next[s.x][0]  back == IF s.x = HeadNode THEN Top ELSE s.x
  <2>1. /\ s.x \in Nodes /\ s.target \in Keys \cup {0, Top} /\ s.op \in {"ge", "lt"}
        /\ s.x < s.target /\ OnLevel(s.x, 0) /\ link >= s.target
        /\ s.target \in Nat
    BY <1>6 DEF Found, Inv, TypeOK, SearchBehind
  <2>2. Linked' = Linked
    BY <1>6 DEF Found, Linked
  <2>3. CASE s.op = "ge"
    <3>1. pos' = [pos EXCEPT ![r] = link] /\ s.target \in Keys
      BY <1>6, <2>3 DEF Found, Inv, TargetKept
    <3>2. link \in Linked \cup {Top} /\ Set!IsLeast(link, {k \in Linked : k >= s.target})
      BY <2>1, BottomLink, LeastAfter
    <3>3. Set!Seek(r)
      BY <2>2, <3>1, <3>2 DEF Set!Seek, Set!Move
    <3> QED
      BY <3>3 DEF Set!Step
  <2>4. CASE s.op = "lt"
    <3>1. pos' = [pos EXCEPT ![r] = back] /\ s.target \in {Top, pos[r]}
      BY <1>6, <2>4 DEF Found, Inv, TargetKept
    <3>2. back \in Linked \cup {Top}
      BY <2>1 DEF Linked, OnLevel, Nodes
    <3>3. Set!IsGreatest(back, {k \in Linked : k < s.target})
      BY <2>1, GreatestBefore
    <3>4. Set!Back(r, s.target)
      BY <2>2, <3>1, <3>2, <3>3 DEF Set!Back, Set!Move
    <3>5. Set!SeekToLast(r) \/ Set!Prev(r)
      BY <3>1, <3>4 DEF Set!SeekToLast, Set!Prev
    <3> QED
      BY <3>5 DEF Set!Step
  <2> QED
    BY <2>1, <2>3, <2>4
<1>7. ASSUME NEW r \in Readers, NextKey(r)
      PROVE  Set!Step
  <2> DEFINE n == pos[r]
  <2>1. n \in Nodes /\ OnLevel(n, 0) /\ n # Top /\ n \in Nat
    BY <1>7 DEF NextKey, Inv, PosLinked, Linked, OnLevel
  <2>2. pos' = [pos EXCEPT ![r] = next[n][0]] /\ Linked' = Linked
    BY <1>7 DEF NextKey, Follow, Linked
  <2>3. next[n][0] \in Linked \cup {Top} /\ n < next[n][0] /\ next[n][0] \in Nat
    BY <2>1, BottomLink DEF Linked
  <2>4. Set!IsLeast(next[n][0], {k \in Linked : k >= n + 1})
    BY <2>1, <2>3, LeastAfter
  <2>5. {k \in Linked : k >= n + 1} = {k \in Linked : k > n}
    <3>1. \A k \in Linked : k \in Nat
      BY DEF Linked
    <3>2. \A k, m \in Nat : k >= m + 1 <=> k > m
      OBVIOUS
    <3>3. \A k \in Linked : k >= n + 1 <=> k > n
      BY <2>1, <3>1, <3>2, Zenon
    <3> QED
      BY <3>3, Zenon
  <2>6. Set!IsLeast(next[n][0], {k \in Linked : k > n})
    BY <2>4, <2>5
  <2>7. Set!Next(r)
    BY <2>1, <2>2, <2>3, <2>6 DEF Set!Next, Set!Move
  <2> QED
    BY <2>7 DEF Set!Step
<1>8. ASSUME NEW r \in Readers, SeekToFirst(r)
      PROVE  Set!Step
  <2>1. OnLevel(HeadNode, 0)
    BY DEF OnLevel, Inv, TypeOK
  <2>2. pos' = [pos EXCEPT ![r] = next[HeadNode][0]] /\ Linked' = Linked
    BY <1>8 DEF SeekToFirst, Follow, Linked
  <2>3. next[HeadNode][0] \in Linked \cup {Top} /\ HeadNode < next[HeadNode][0] /\ next[HeadNode][0] \in Nat
    BY <2>1, BottomLink DEF Linked
  <2>4. Set!IsLeast(next[HeadNode][0], {k \in Linked : k >= 1})
    BY <2>1, <2>3, LeastAfter DEF HeadNode
  <2>5. {k \in Linked : k >= 1} = {k \in Linked : k >= 0}
    <3>1. \A k \in Linked : k \in Nat /\ k > 0
      BY DEF Linked, HeadNode
    <3>2. \A k \in Nat : k > 0 => k >= 1 /\ k >= 0
      OBVIOUS
    <3>3. \A k \in Linked : k >= 1 /\ k >= 0
      BY <3>1, <3>2, Zenon
    <3> QED
      BY <3>3, Zenon
  <2>6. Set!IsLeast(next[HeadNode][0], {k \in Linked : k >= 0})
    BY <2>4, <2>5
  <2>7. Set!Seek(r)
    BY <2>2, <2>3, <2>6 DEF Set!Seek, Set!Move
  <2> QED
    BY <2>7 DEF Set!Step
<1> QED
  BY <1>1, <1>2, <1>3, <1>4, <1>5, <1>6, <1>7, <1>8 DEF Next

\* Whatever an insertion does meanwhile, every operation of an iterator answers
\* as if it had been done at one moment on the set of the inserted keys.
THEOREM SkipListImplementsSet == Spec => SetSpec
<1>1. Init => Set!Init
  <2> SUFFICES ASSUME Init PROVE Set!Init
    OBVIOUS
  <2>1. \A k \in Keys : k \in Nodes /\ k # HeadNode
    BY Constants
  <2>2. Linked = {}
    BY <2>1 DEF Init, Linked
  <2> QED
    BY <2>2 DEF Init, Set!Init
<1> QED
  BY <1>1, SkipListInvariant, StepImplements, PTL DEF Spec, SetSpec, Set!Spec

-----------------------------------------------------------------------------
(***************************************************************************)
(* DBIter.  What the snapshot sees does not change, whatever is written,   *)
(* so everything is said of the entries it sees, per child: seen.  While a *)
(* call runs, the invariant tells which of them the internal iterator has  *)
(* before it (Left), that no loop passed the entry it looks for (NextLoop, *)
(* PrevLoop, BackLoop), and between two calls where the iterator stands    *)
(* (ShowsForward, ShowsBackward).                                          *)
(***************************************************************************)

Entries == [key : UserKeys, seq : 1 .. MaxSeq, type : Types]

\* No two entries have one sequence number.
Numbered(es) ==
  \A c, d \in Children : \A e \in es[c], f \in es[d] : e.seq = f.seq => c = d /\ e = f

SeenBy == [c \in Children |-> {e \in entries[c] : e.seq <= sequence}]
All(seen) == UNION {seen[c] : c \in Children}

\* The entry of a key that a reader of the snapshot wants, and the keys it has.
Newest(seen, k) == FirstOf({e \in All(seen) : e.key = k})
Has(seen) == {k \in UserKeys : Newest(seen, k).type = "value"}

\* What a merging iterator has before it, forward and backward.
Ahead(seen, m) == IF m.current = "none" THEN {} ELSE {g \in All(seen) : ~Before(g, Entry(m))}
Behind(seen, m) ==
  {g \in All(seen) : \E c \in Children :
     g \in seen[c] /\ m.at[c] # NoEntry /\ ~Before(m.at[c], g)}

UpClosed(seen, L) == L \subseteq All(seen) /\ \A g \in L, h \in All(seen) : Before(g, h) => h \in L
DownClosed(seen, L) == L \subseteq All(seen) /\ \A g \in L, h \in All(seen) : Before(h, g) => h \in L

\* Where its children stand: key() is the first or last of them, and going
\* forward a child has before it what key() has before it.  Backward this
\* holds but for entries that the snapshot does not see: once the iterator
\* turned, one that was written meanwhile may be key() and out of order.
Placed(es, m) ==
  /\ \A c \in Children : m.at[c] \in es[c] \cup {NoEntry}
  /\ m.current = "none" => \A c \in Children : m.at[c] = NoEntry
  /\ m.current # "none" => m.at[m.current] # NoEntry
Forward(seen, m) ==
  m.current # "none" =>
    \A c \in Children :
      /\ m.at[c] # NoEntry => ~Before(m.at[c], Entry(m))
      /\ \A g \in seen[c] :
           (m.at[c] # NoEntry /\ ~Before(g, m.at[c])) <=> ~Before(g, Entry(m))
Backward(seen, m) ==
  /\ m.current # "none" =>
       \A c \in Children : m.at[c] # NoEntry => ~Before(Entry(m), m.at[c])
  /\ DownClosed(seen, Behind(seen, m))

\* What an internal call that is under way will leave before it.
Left(seen, cl, m) ==
  CASE cl.op \in {"first", "last"} -> All(seen)
    [] cl.op = "seek" -> {g \in All(seen) : ~Before(g, cl.target)}
    [] cl.op = "next" -> {g \in All(seen) : Before(Entry(m), g)}
    [] cl.op = "prev" -> IF m.forward THEN {g \in All(seen) : Before(g, Entry(m))}
                         ELSE Behind(seen, m) \ {Entry(m)}

\* The loops, when L is left: forward, a key of which some entries are past is
\* one that is skipped.
NextLoop(seen, it, L, w) ==
  /\ UpClosed(seen, L) /\ it.forward
  /\ \A g \in All(seen) \ L, h \in L : g.key = h.key => it.skipping /\ h.key <= it.key
  /\ it.skipping => \A h \in L : h.key >= it.key
  /\ w = Least({k \in Has(seen) : Newest(seen, k) \in L /\ (it.skipping => k > it.key)})

\* Backward, what is saved is the last entry that was passed.
Saved(it) == [key |-> it.key, seq |-> it.value, type |-> "value"]
PrevLoop(seen, it, L, w) ==
  /\ DownClosed(seen, L) /\ ~it.forward
  /\ it.type = "value" =>
       Saved(it) \in All(seen) \ L /\ \A g \in All(seen) \ L : ~Before(g, Saved(it))
  /\ w = Greatest({k \in Has(seen) :
                     Newest(seen, k) \in L \/ (it.type = "value" /\ Newest(seen, k) = Saved(it))})
BackLoop(seen, it, L, w) ==
  /\ DownClosed(seen, L) /\ it.forward
  /\ \A g \in All(seen) : g.key < it.key => g \in L
  /\ w = Greatest({k \in Has(seen) : k < it.key})

\* Between two calls a valid iterator stands on the entry it shows, or before
\* all entries of its key.
ShowsForward(seen, it, m, s) ==
  /\ it.forward /\ m.forward /\ m.current # "none"
  /\ Entry(m) \in All(seen) /\ Entry(m).type = "value" /\ Entry(m) = Newest(seen, Entry(m).key)
  /\ s = [key |-> Entry(m).key, seq |-> Entry(m).seq]
ShowsBackward(seen, it, m, s) ==
  /\ ~it.forward /\ ~m.forward
  /\ Behind(seen, m) = {g \in All(seen) : g.key < s.key}
  /\ it.key = s.key /\ it.value = s.seq
  /\ m.current # "none" => Entry(m) \in All(seen)
  /\ s.key \in UserKeys /\ Newest(seen, s.key) = [key |-> s.key, seq |-> s.seq, type |-> "value"]

Rests(seen, it, m, s, w) ==
  /\ s.key = w /\ it.valid = (w # End)
  /\ it.valid => ShowsForward(seen, it, m, s) \/ ShowsBackward(seen, it, m, s)

Runs(seen, cl, it, m, w) ==
  LET L == Left(seen, cl, m)
  IN \/ /\ cl.then = "FindNextUserEntry" /\ cl.op \in {"first", "seek", "next"}
        /\ NextLoop(seen, it, L, w)
     \/ /\ cl.then = "FindPrevUserEntry" /\ cl.op \in {"last", "prev"}
        /\ cl.op = "prev" => ~m.forward
        /\ PrevLoop(seen, it, L, w)
     \/ /\ cl.then = "TurnBack" /\ cl.op = "prev"
        /\ BackLoop(seen, it, L, w)

CallSet == [op : {"none", "first", "last", "seek", "next", "prev"},
            target : [key : UserKeys \cup {End}, seq : 0 .. MaxSeq, type : Types \cup {"none"}],
            then : {"none", "FindNextUserEntry", "FindPrevUserEntry", "TurnBack"},
            turned : BOOLEAN]

Client(seen, cl, it, m, s, w) ==
  /\ s.key # End => s.key \in UserKeys /\ s.seq = Newest(seen, s.key).seq
  /\ IF cl.op = "none" THEN cl = NotCalled /\ Rests(seen, it, m, s, w) ELSE Runs(seen, cl, it, m, w)

IterInv ==
  /\ IterTypeOK /\ call \in CallSet
  /\ Numbered(entries) /\ \A c \in Children : \A e \in entries[c] : e.seq <= last
  /\ Placed(entries, merge)
  /\ IF merge.forward \/ call.turned THEN Forward(SeenBy, merge) ELSE Backward(SeenBy, merge)
  /\ call.turned => call.op = IF merge.forward THEN "prev" ELSE "next"
  /\ call.op \in {"next", "prev"} => merge.current # "none"
  /\ Client(SeenBy, call, iter, merge, shown, wantedKey)

\* Every non-empty set of numbers has a least element, and a greatest when it
\* is bounded.
LEMMA LeastNumber ==
  ASSUME NEW T, T \subseteq Nat, T # {}
  PROVE  \E x \in T : \A y \in T : x <= y
<1>. DEFINE R == {ss \in Nat \X Nat : ss[1] < ss[2]}
<1>1. IsWellFoundedOn(R, Nat)
  BY NatLessThanWellFounded DEF OpToRel
<1>2. \E x \in T : \A y \in T : ~(<<y, x>> \in R)
  <2>. HIDE DEF R
  <2>. QED
    BY <1>1, WFMin
<1>3. \A x, y \in Nat : <<y, x>> \in R <=> y < x
  OBVIOUS
<1>. HIDE DEF R
<1>4. PICK x \in T : \A y \in T : ~(<<y, x>> \in R)
  BY <1>2
<1>5. \A y \in T : x <= y
  <2>1. \A y \in T : x \in Nat /\ y \in Nat /\ ~(y < x)
    BY <1>3, <1>4
  <2>. QED
    BY <2>1
<1>. QED
  BY <1>5

LEMMA GreatestNumber ==
  ASSUME NEW n \in Nat, NEW T, T \subseteq 0 .. n, T # {}
  PROVE  \E x \in T : \A y \in T : y <= x
<1>. DEFINE U == {n - y : y \in T}
<1>1. U \subseteq Nat /\ U # {}
  <2>1. \A y \in T : n - y \in Nat
    OBVIOUS
  <2>2. \E y \in T : n - y \in U
    OBVIOUS
  <2> QED
    BY <2>1, <2>2
<1>2. PICK u \in U : \A v \in U : u <= v
  <2>. HIDE DEF U
  <2>. QED
    BY <1>1, LeastNumber
<1>3. PICK x \in T : u = n - x
  OBVIOUS
<1>4. ASSUME NEW y \in T
      PROVE  y <= x
  <2>1. n - x <= n - y
    BY <1>2, <1>3
  <2>2. x \in Int /\ y \in Int
    OBVIOUS
  <2>. QED
    BY <2>1, <2>2
<1>. QED
  BY <1>4

-----------------------------------------------------------------------------
\* The order of entries: by key, then from the newest to the oldest.
Points == [key : Nat, seq : Nat, type : Types \cup {"none"}]

LEMMA Order ==
  /\ \A e \in Points : ~Before(e, e)
  /\ \A e, f \in Points : Before(e, f) => ~Before(f, e) /\ e.key <= f.key
  /\ \A e, f \in Points : e.key < f.key => Before(e, f)
  /\ \A e, f \in Points : ~Before(e, f) => f.key <= e.key
  /\ \A e, f \in Points : ~Before(e, f) /\ ~Before(f, e) => e.key = f.key /\ e.seq = f.seq
  /\ \A e, f, g \in Points : Before(e, f) /\ Before(f, g) => Before(e, g)
  /\ \A e, f, g \in Points : Before(e, f) /\ ~Before(g, f) => Before(e, g)
  /\ \A e, f, g \in Points : ~Before(f, e) /\ Before(f, g) => Before(e, g)
  /\ \A e, f, g \in Points : ~Before(f, e) /\ ~Before(g, f) => ~Before(g, e)
BY DEF Points, Before

LEMMA EntryPoints ==
  /\ Entries \subseteq Points /\ NoEntry \in Points /\ NoEntry \notin Entries
  /\ \A e \in Entries : e.key \in UserKeys /\ e.key \in Nat /\ e.key < End /\ e.seq \in Nat
  /\ End \in Nat /\ End \notin UserKeys
<1>1. End \in Nat /\ End \notin UserKeys /\ \A k \in UserKeys : k \in Nat /\ k < End
  BY UserKeysAssumption
<1>2. 1 .. MaxSeq \subseteq Nat
  BY SequenceAssumption
<1>3. Entries \subseteq Points
  BY <1>1, <1>2 DEF Entries, Points
<1>4. NoEntry \in Points /\ NoEntry \notin Entries
  BY <1>1 DEF Entries, Points, NoEntry
<1>5. \A e \in Entries : e.key \in UserKeys /\ e.key < End /\ e.seq \in Nat
  BY <1>1, <1>2 DEF Entries
<1> QED
  BY <1>1, <1>3, <1>4, <1>5

\* Entries that are told apart by their numbers.
Distinct(S) == S \subseteq Entries /\ \A e, f \in S : e.seq = f.seq => e = f

LEMMA FirstOfIs ==
  ASSUME NEW S, Distinct(S), S # {}
  PROVE  FirstOf(S) \in S /\ \A f \in S : f = FirstOf(S) \/ Before(FirstOf(S), f)
<1>1. PICK k \in {e.key : e \in S} : \A j \in {e.key : e \in S} : k <= j
  <2>1. {e.key : e \in S} \subseteq Nat /\ {e.key : e \in S} # {}
    BY EntryPoints DEF Distinct
  <2> QED
    BY <2>1, LeastNumber
<1> DEFINE T == {e.seq : e \in {f \in S : f.key = k}}
<1>2. PICK n \in T : \A j \in T : j <= n
  <2>1. T \subseteq 0 .. MaxSeq /\ T # {} /\ MaxSeq \in Nat
    BY <1>1, SequenceAssumption DEF Distinct, Entries
  <2> HIDE DEF T
  <2> QED
    BY <2>1, GreatestNumber
<1>3. PICK x \in S : x.key = k /\ x.seq = n
  BY <1>2
<1>4. ASSUME NEW f \in S, f # x
      PROVE  Before(x, f)
  <2>1. f.key \in Nat /\ x.key \in Nat /\ f.seq \in Nat /\ x.seq \in Nat /\ f.seq # x.seq
    BY <1>4, EntryPoints DEF Distinct
  <2>2. x.key <= f.key
    BY <1>1, <1>3
  <2>3. f.key = x.key => f.seq <= x.seq
    BY <1>2, <1>3
  <2> QED
    BY <2>1, <2>2, <2>3 DEF Before
<1>5. \E e \in S : \A f \in S \ {e} : Before(e, f)
  BY <1>4
<1> QED
  BY <1>5 DEF FirstOf

LEMMA LastOfIs ==
  ASSUME NEW S, Distinct(S), S # {}
  PROVE  LastOf(S) \in S /\ \A f \in S : f = LastOf(S) \/ Before(f, LastOf(S))
<1>1. PICK k \in {e.key : e \in S} : \A j \in {e.key : e \in S} : j <= k
  <2>1. {e.key : e \in S} \subseteq 0 .. End /\ {e.key : e \in S} # {} /\ End \in Nat
    BY EntryPoints DEF Distinct
  <2> QED
    BY <2>1, GreatestNumber
<1> DEFINE T == {e.seq : e \in {f \in S : f.key = k}}
<1>2. PICK n \in T : \A j \in T : n <= j
  <2>1. T \subseteq Nat /\ T # {}
    BY <1>1, SequenceAssumption DEF Distinct, Entries
  <2> HIDE DEF T
  <2> QED
    BY <2>1, LeastNumber
<1>3. PICK x \in S : x.key = k /\ x.seq = n
  BY <1>2
<1>4. ASSUME NEW f \in S, f # x
      PROVE  Before(f, x)
  <2>1. f.key \in Nat /\ x.key \in Nat /\ f.seq \in Nat /\ x.seq \in Nat /\ f.seq # x.seq
    BY <1>4, EntryPoints DEF Distinct
  <2>2. f.key <= x.key
    BY <1>1, <1>3
  <2>3. f.key = x.key => x.seq <= f.seq
    BY <1>2, <1>3
  <2> QED
    BY <2>1, <2>2, <2>3 DEF Before
<1>5. \E e \in S : \A f \in S \ {e} : Before(f, e)
  BY <1>4
<1> QED
  BY <1>5 DEF LastOf

LEMMA LeastIs ==
  ASSUME NEW S, S \subseteq UserKeys
  PROVE  /\ Least(S) \in UserKeys \cup {End}
         /\ S = {} => Least(S) = End
         /\ \A k \in S : (\A j \in S : k <= j) => Least(S) = k
<1>1. S \subseteq Nat
  BY UserKeysAssumption
<1>2. S # {} => \E k \in S : \A j \in S : k <= j
  BY <1>1, LeastNumber
<1>3. S # {} => Least(S) \in S /\ \A j \in S : Least(S) <= j
  BY <1>2 DEF Least
<1>4. ASSUME NEW k \in S, \A j \in S : k <= j
      PROVE  Least(S) = k
  <2>1. Least(S) \in Nat /\ k \in Nat /\ k <= Least(S) /\ Least(S) <= k
    BY <1>1, <1>3, <1>4
  <2> QED
    BY <2>1
<1>5. S = {} => Least(S) = End
  BY DEF Least
<1> QED
  BY <1>3, <1>4, <1>5

LEMMA GreatestIs ==
  ASSUME NEW S, S \subseteq UserKeys
  PROVE  /\ Greatest(S) \in UserKeys \cup {End}
         /\ S = {} => Greatest(S) = End
         /\ \A k \in S : (\A j \in S : j <= k) => Greatest(S) = k
<1>1. S \subseteq 0 .. End /\ End \in Nat /\ S \subseteq Nat
  BY UserKeysAssumption
<1>2. S # {} => \E k \in S : \A j \in S : j <= k
  BY <1>1, GreatestNumber
<1>3. S # {} => Greatest(S) \in S /\ \A j \in S : j <= Greatest(S)
  BY <1>2 DEF Greatest
<1>4. ASSUME NEW k \in S, \A j \in S : j <= k
      PROVE  Greatest(S) = k
  <2>1. Greatest(S) \in S /\ k <= Greatest(S)
    BY <1>3
  <2>2. Greatest(S) \in Nat /\ k \in Nat /\ Greatest(S) <= k
    BY <1>1, <1>4, <2>1
  <2> QED
    BY <2>1, <2>2
<1>5. S = {} => Greatest(S) = End
  BY DEF Greatest
<1> QED
  BY <1>3, <1>4, <1>5

-----------------------------------------------------------------------------
LEMMA ChildNames == "none" \notin Children
BY TablesAssumption DEF Children

\* The entries of the children, and those of them that the snapshot sees.
Held(es, seen) ==
  /\ es \in [Children -> SUBSET Entries] /\ Numbered(es)
  /\ seen \in [Children -> SUBSET Entries] /\ \A c \in Children : seen[c] \subseteq es[c]
Standing(es, at) ==
  at \in [Children -> Entries \cup {NoEntry}] /\ \A c \in Children : at[c] \in es[c] \cup {NoEntry}

LEMMA HeldDistinct ==
  ASSUME NEW es, NEW seen, Held(es, seen)
  PROVE  /\ \A c \in Children : Distinct(es[c]) /\ Distinct(seen[c])
         /\ Distinct(All(seen))
         /\ \A S : S \subseteq All(seen) => Distinct(S)
         /\ \A c \in Children : \A S : S \subseteq es[c] => Distinct(S)
         /\ \A c \in Children : seen[c] \subseteq All(seen)
         /\ \A g \in All(seen) : \E c \in Children : g \in seen[c] /\ g \in es[c]
BY DEF Held, Numbered, Distinct, All

LEMMA CurrentIs ==
  ASSUME NEW es, NEW seen, Held(es, seen), NEW at, Standing(es, at), NEW fwd \in BOOLEAN
  PROVE  LET d == Current(at, fwd) IN
         \/ d = "none" /\ \A c \in Children : at[c] = NoEntry
         \/ /\ d \in Children /\ at[d] # NoEntry
            /\ \A c \in Children : at[c] # NoEntry =>
                 at[c] = at[d] \/ IF fwd THEN Before(at[d], at[c]) ELSE Before(at[c], at[d])
<1> DEFINE found == {at[c] : c \in Children} \ {NoEntry}
           d == Current(at, fwd)
<1>1. Distinct(found)
  BY EntryPoints DEF Distinct, Standing, Held, Numbered
<1>2. CASE found = {}
  BY <1>2 DEF Current
<1>3. CASE found # {}
  <2> DEFINE x == IF fwd THEN FirstOf(found) ELSE LastOf(found)
  <2>1. x \in found /\ \A f \in found : f = x \/ IF fwd THEN Before(x, f) ELSE Before(f, x)
    <3> HIDE DEF found
    <3> QED
      BY <1>1, <1>3, FirstOfIs, LastOfIs
  <2>2. \E c \in Children : at[c] = x
    BY <2>1
  <2>3. d = CHOOSE c \in Children : at[c] = x
    BY <1>3 DEF Current
  <2>4. d \in Children /\ at[d] = x
    BY <2>2, <2>3
  <2> QED
    BY <2>1, <2>4
<1> QED
  BY <1>2, <1>3

\* What FindSmallest leaves: the children stand on the first of what is left.
LEMMA MergedForward ==
  ASSUME NEW es, NEW seen, Held(es, seen), NEW at, Standing(es, at),
         NEW L, L \subseteq All(seen),
         \A c \in Children : \A g \in seen[c] : (at[c] # NoEntry /\ ~Before(g, at[c])) <=> g \in L,
         \A c \in Children : at[c] # NoEntry => \A g \in All(seen) : ~Before(g, at[c]) => g \in L,
         NEW m, m = Merged(at, TRUE)
  PROVE  Placed(es, m) /\ Forward(seen, m) /\ Ahead(seen, m) = L /\ m.forward /\ m.at = at
         /\ m.current \in Children \cup {"none"}
<1>1. m.at = at /\ m.current = Current(at, TRUE) /\ m.forward
  BY DEF Merged
<1>2. CASE m.current = "none" /\ \A c \in Children : at[c] = NoEntry
  <2>1. L = {}
    BY <1>2, HeldDistinct
  <2> QED
    BY <1>1, <1>2, <2>1 DEF Placed, Forward, Ahead, Standing
<1>3. CASE /\ m.current \in Children /\ at[m.current] # NoEntry
           /\ \A c \in Children : at[c] # NoEntry =>
                 at[c] = at[m.current] \/ Before(at[m.current], at[c])
  <2> DEFINE x == at[m.current]
  <2>0. \A c \in Children : at[c] \in Points
    BY EntryPoints DEF Standing
  <2>9. Entry(m) = x /\ m.current # "none"
    BY <1>1, <1>3, ChildNames DEF Entry
  <2>1. Entry(m) = x /\ m.current # "none" /\ x \in Points
        /\ \A c \in Children : at[c] \in Points /\ (at[c] # NoEntry => ~Before(at[c], x))
    BY <1>3, <2>0, <2>9, Order
  <2>2. \A g \in All(seen) : g \in Points
    BY HeldDistinct, EntryPoints DEF Distinct
  <2>3. \A c \in Children : \A g \in seen[c] : g \in L => ~Before(g, x)
    BY <2>1, <2>2, Order, HeldDistinct
  <2>4. \A g \in All(seen) : g \in L <=> ~Before(g, x)
    BY <1>3, <2>3, HeldDistinct
  <2>5. Forward(seen, m)
    BY <1>1, <2>1, <2>4, HeldDistinct DEF Forward
  <2>6. Ahead(seen, m) = L
    BY <2>1, <2>4 DEF Ahead
  <2> QED
    BY <1>1, <1>3, <2>1, <2>5, <2>6 DEF Placed, Standing
<1> QED
  BY <1>1, <1>2, <1>3, CurrentIs

\* What FindLargest leaves: the children stand on the last of what is left, but
\* for entries that the snapshot does not see.
LEMMA MergedBackward ==
  ASSUME NEW es, NEW seen, Held(es, seen), NEW at, Standing(es, at),
         NEW L, DownClosed(seen, L),
         \A c \in Children : \A g \in seen[c] : (at[c] # NoEntry /\ ~Before(at[c], g)) <=> g \in L,
         NEW m, m = Merged(at, FALSE)
  PROVE  Placed(es, m) /\ Backward(seen, m) /\ Behind(seen, m) = L /\ ~m.forward /\ m.at = at
         /\ m.current \in Children \cup {"none"}
<1>1. m.at = at /\ m.current = Current(at, FALSE) /\ ~m.forward
  BY DEF Merged
<1>2. Behind(seen, m) = L
  BY <1>1, HeldDistinct DEF Behind, DownClosed
<1>3. CASE m.current = "none" /\ \A c \in Children : at[c] = NoEntry
  BY <1>1, <1>2, <1>3 DEF Placed, Backward
<1>4. CASE /\ m.current \in Children /\ at[m.current] # NoEntry
           /\ \A c \in Children : at[c] # NoEntry =>
                 at[c] = at[m.current] \/ Before(at[c], at[m.current])
  <2>0. \A c \in Children : at[c] \in Points
    BY EntryPoints DEF Standing
  <2>1. Entry(m) = at[m.current] /\ m.current # "none"
    BY <1>1, <1>4, ChildNames DEF Entry
  <2>2. \A c \in Children : at[c] # NoEntry => ~Before(at[m.current], at[c])
    BY <1>4, <2>0, Order
  <2> QED
    BY <1>1, <1>2, <1>4, <2>1, <2>2 DEF Placed, Backward, Standing
<1> QED
  BY <1>1, <1>3, <1>4, CurrentIs

-----------------------------------------------------------------------------
\* Where a child goes.
LEMMA ChildMoves ==
  ASSUME NEW seen, Held(entries, seen), NEW c \in Children, NEW e \in Points
  PROVE  /\ FirstOf(entries[c]) \in entries[c] \cup {NoEntry}
         /\ LastOf(entries[c]) \in entries[c] \cup {NoEntry}
         /\ SeekIn(c, e) \in entries[c] \cup {NoEntry}
         /\ NextIn(c, e) \in entries[c] \cup {NoEntry}
         /\ PrevIn(c, e) \in entries[c] \cup {NoEntry}
         /\ \A f \in entries[c] :
              /\ FirstOf(entries[c]) # NoEntry /\ ~Before(f, FirstOf(entries[c]))
              /\ LastOf(entries[c]) # NoEntry /\ ~Before(LastOf(entries[c]), f)
              /\ (SeekIn(c, e) # NoEntry /\ ~Before(f, SeekIn(c, e))) <=> ~Before(f, e)
              /\ (NextIn(c, e) # NoEntry /\ ~Before(f, NextIn(c, e))) <=> Before(e, f)
              /\ (PrevIn(c, e) # NoEntry /\ ~Before(PrevIn(c, e), f)) <=> Before(f, e)
         /\ SeekIn(c, e) # NoEntry => ~Before(SeekIn(c, e), e)
         /\ NextIn(c, e) # NoEntry => Before(e, NextIn(c, e))
         /\ PrevIn(c, e) # NoEntry => Before(PrevIn(c, e), e)
<1> DEFINE E == entries[c]
           S == {f \in E : ~Before(f, e)}
           N == {f \in E : Before(e, f)}
           P == {f \in E : Before(f, e)}
<1>1. Distinct(E) /\ Distinct(S) /\ Distinct(N) /\ Distinct(P)
  BY HeldDistinct
<1>2. E \subseteq Points /\ NoEntry \notin E
  BY <1>1, EntryPoints DEF Distinct
<1>3. \A T : T = {} => FirstOf(T) = NoEntry /\ LastOf(T) = NoEntry
  BY DEF FirstOf, LastOf
<1>4. /\ FirstOf(E) \in E \cup {NoEntry} /\ LastOf(E) \in E \cup {NoEntry}
      /\ \A f \in E : FirstOf(E) # NoEntry /\ ~Before(f, FirstOf(E))
                      /\ LastOf(E) # NoEntry /\ ~Before(LastOf(E), f)
  <2>1. CASE E = {}
    BY <1>3, <2>1
  <2>2. CASE E # {}
    BY <1>1, <1>2, <2>2, FirstOfIs, LastOfIs, Order
  <2> QED
    BY <2>1, <2>2
<1>5. /\ SeekIn(c, e) \in E \cup {NoEntry} /\ (SeekIn(c, e) # NoEntry => ~Before(SeekIn(c, e), e))
      /\ \A f \in E : (SeekIn(c, e) # NoEntry /\ ~Before(f, SeekIn(c, e))) <=> ~Before(f, e)
  <2> DEFINE s == FirstOf(S)
  <2>1. SeekIn(c, e) = s
    BY DEF SeekIn
  <2>2. CASE S = {}
    BY <1>3, <2>1, <2>2
  <2>3. CASE S # {}
    <3>1. s \in S /\ \A f \in S : f = s \/ Before(s, f)
      BY <1>1, <2>3, FirstOfIs
    <3>2. s \in E /\ s \in Points /\ s # NoEntry /\ ~Before(s, e)
      BY <1>2, <3>1
    <3>3. \A f \in E : ~Before(f, e) => ~Before(f, s)
      BY <1>2, <3>1, <3>2, Order
    <3>4. \A f \in E : ~Before(f, s) => ~Before(f, e)
      BY <1>2, <3>2, Order
    <3> QED
      BY <2>1, <3>2, <3>3, <3>4
  <2> QED
    BY <2>2, <2>3
<1>6. /\ NextIn(c, e) \in E \cup {NoEntry} /\ (NextIn(c, e) # NoEntry => Before(e, NextIn(c, e)))
      /\ \A f \in E : (NextIn(c, e) # NoEntry /\ ~Before(f, NextIn(c, e))) <=> Before(e, f)
  <2> DEFINE s == FirstOf(N)
  <2>1. NextIn(c, e) = s
    BY DEF NextIn
  <2>2. CASE N = {}
    BY <1>3, <2>1, <2>2
  <2>3. CASE N # {}
    <3>1. s \in N /\ \A f \in N : f = s \/ Before(s, f)
      BY <1>1, <2>3, FirstOfIs
    <3>2. s \in E /\ s \in Points /\ s # NoEntry /\ Before(e, s)
      BY <1>2, <3>1
    <3>3. \A f \in E : Before(e, f) => ~Before(f, s)
      BY <1>2, <3>1, <3>2, Order
    <3>4. \A f \in E : ~Before(f, s) => Before(e, f)
      BY <1>2, <3>2, Order
    <3> QED
      BY <2>1, <3>2, <3>3, <3>4
  <2> QED
    BY <2>2, <2>3
<1>7. /\ PrevIn(c, e) \in E \cup {NoEntry} /\ (PrevIn(c, e) # NoEntry => Before(PrevIn(c, e), e))
      /\ \A f \in E : (PrevIn(c, e) # NoEntry /\ ~Before(PrevIn(c, e), f)) <=> Before(f, e)
  <2> DEFINE s == LastOf(P)
  <2>1. PrevIn(c, e) = s
    BY DEF PrevIn
  <2>2. CASE P = {}
    BY <1>3, <2>1, <2>2
  <2>3. CASE P # {}
    <3>1. s \in P /\ \A f \in P : f = s \/ Before(f, s)
      BY <1>1, <2>3, LastOfIs
    <3>2. s \in E /\ s \in Points /\ s # NoEntry /\ Before(s, e)
      BY <1>2, <3>1
    <3>3. \A f \in E : Before(f, e) => ~Before(s, f)
      BY <1>2, <3>1, <3>2, Order
    <3>4. \A f \in E : ~Before(s, f) => Before(f, e)
      BY <1>2, <3>2, Order
    <3> QED
      BY <2>1, <3>2, <3>3, <3>4
  <2> QED
    BY <2>2, <2>3
<1> QED
  BY <1>4, <1>5, <1>6, <1>7

-----------------------------------------------------------------------------
\* An internal iterator as its calls find it.
MergeSet == [at : [Children -> Entries \cup {NoEntry}], current : Children \cup {"none"},
             forward : BOOLEAN]

\* A call leaves it in order, with L before it.
After(seen, m, L) ==
  /\ m \in MergeSet /\ Placed(entries, m)
  /\ m.forward => Forward(seen, m) /\ Ahead(seen, m) = L
  /\ ~m.forward => Backward(seen, m) /\ Behind(seen, m) = L

LEMMA EntryOf ==
  ASSUME NEW seen, Held(entries, seen), NEW m \in MergeSet, Placed(entries, m), m.current # "none"
  PROVE  /\ m.current \in Children /\ Entry(m) = m.at[m.current]
         /\ Entry(m) \in entries[m.current] /\ Entry(m) \in Entries /\ Entry(m) \in Points
         /\ Entry(m) # NoEntry
         /\ Standing(entries, m.at)
         /\ \A c \in Children \ {m.current} : Entry(m) \notin entries[c] /\ m.at[c] # Entry(m)
<1>1. m.current \in Children /\ Entry(m) = m.at[m.current] /\ Entry(m) # NoEntry
  BY DEF MergeSet, Entry, Placed
<1>2. Entry(m) \in entries[m.current]
  BY <1>1 DEF Placed
<1>3. Entry(m) \in Entries /\ Entry(m) \in Points
  BY <1>1, <1>2, EntryPoints DEF Held
<1>4. \A c \in Children \ {m.current} : Entry(m) \notin entries[c]
  BY <1>1, <1>2 DEF Held, Numbered
<1>5. \A c \in Children : m.at[c] \in entries[c] \cup {NoEntry}
  BY DEF Placed
<1>6. Standing(entries, m.at)
  BY <1>5 DEF Standing, MergeSet
<1> QED
  BY <1>1, <1>2, <1>3, <1>4, <1>5, <1>6

LEMMA SeekCalls ==
  ASSUME NEW seen, Held(entries, seen)
  PROVE  /\ After(seen, SeekFirst, All(seen)) /\ SeekFirst.forward
         /\ After(seen, SeekLast, All(seen)) /\ ~SeekLast.forward
         /\ \A e \in Points : After(seen, SeekTo(e), {g \in All(seen) : ~Before(g, e)}) /\ SeekTo(e).forward
<1>1. \A c \in Children : entries[c] \subseteq Entries /\ seen[c] \subseteq entries[c]
                          /\ seen[c] \subseteq All(seen)
  BY HeldDistinct DEF Held
<1>2. NoEntry \in Points
  BY EntryPoints
<1>3. After(seen, SeekFirst, All(seen)) /\ SeekFirst.forward
  <2> DEFINE at == [c \in Children |-> FirstOf(entries[c])]
             m == Merged(at, TRUE)
  <2>1. Standing(entries, at)
    BY <1>1, <1>2, ChildMoves DEF Standing
  <2>2. \A c \in Children : \A g \in seen[c] :
          (at[c] # NoEntry /\ ~Before(g, at[c])) <=> g \in All(seen)
    BY <1>1, <1>2, ChildMoves
  <2>3. Placed(entries, m) /\ Forward(seen, m) /\ Ahead(seen, m) = All(seen) /\ m.forward
        /\ m.at = at /\ m.current \in Children \cup {"none"}
    <3> HIDE DEF at
    <3> QED
      BY <2>1, <2>2, MergedForward
  <2>4. m \in MergeSet
    BY <2>1, <2>3 DEF MergeSet, Merged, Standing
  <2> QED
    BY <2>3, <2>4 DEF After, SeekFirst
<1>4. After(seen, SeekLast, All(seen)) /\ ~SeekLast.forward
  <2> DEFINE at == [c \in Children |-> LastOf(entries[c])]
             m == Merged(at, FALSE)
  <2>1. Standing(entries, at)
    BY <1>1, <1>2, ChildMoves DEF Standing
  <2>2. \A c \in Children : \A g \in seen[c] :
          (at[c] # NoEntry /\ ~Before(at[c], g)) <=> g \in All(seen)
    BY <1>1, <1>2, ChildMoves
  <2>3. DownClosed(seen, All(seen))
    BY DEF DownClosed
  <2>4. Placed(entries, m) /\ Backward(seen, m) /\ Behind(seen, m) = All(seen) /\ ~m.forward
        /\ m.at = at /\ m.current \in Children \cup {"none"}
    <3> HIDE DEF at
    <3> QED
      BY <2>1, <2>2, <2>3, MergedBackward
  <2>5. m \in MergeSet
    BY <2>1, <2>4 DEF MergeSet, Merged, Standing
  <2> QED
    BY <2>4, <2>5 DEF After, SeekLast
<1>5. ASSUME NEW e \in Points
      PROVE  After(seen, SeekTo(e), {g \in All(seen) : ~Before(g, e)}) /\ SeekTo(e).forward
  <2> DEFINE at == [c \in Children |-> SeekIn(c, e)]
             m == Merged(at, TRUE)
             L == {g \in All(seen) : ~Before(g, e)}
  <2>1. Standing(entries, at)
    BY <1>1, <1>2, ChildMoves DEF Standing
  <2>2. \A c \in Children : \A g \in seen[c] :
          (at[c] # NoEntry /\ ~Before(g, at[c])) <=> g \in L
    BY <1>1, <1>2, ChildMoves
  <2>3. \A c \in Children : at[c] # NoEntry => ~Before(at[c], e) /\ at[c] \in Points
    BY <2>1, ChildMoves, EntryPoints DEF Standing
  <2>4. \A c \in Children : at[c] # NoEntry => \A g \in All(seen) : ~Before(g, at[c]) => g \in L
    <3>1. All(seen) \subseteq Points
      BY HeldDistinct, EntryPoints DEF Distinct
    <3> QED
      BY <2>3, <3>1, Order
  <2>5. Placed(entries, m) /\ Forward(seen, m) /\ Ahead(seen, m) = L /\ m.forward
        /\ m.at = at /\ m.current \in Children \cup {"none"}
    <3> HIDE DEF at, L
    <3>1. L \subseteq All(seen)
      BY DEF L
    <3> QED
      BY <2>1, <2>2, <2>4, <3>1, MergedForward
  <2>6. m \in MergeSet
    BY <2>1, <2>5 DEF MergeSet, Merged, Standing
  <2> QED
    BY <2>5, <2>6 DEF After, SeekTo
<1> QED
  BY <1>3, <1>4, <1>5

-----------------------------------------------------------------------------
\* Once the other children have turned, they go on from key().
LEMMA TurnIs ==
  ASSUME NEW seen, Held(entries, seen), merge \in MergeSet, Placed(entries, merge),
         merge.current # "none"
  PROVE  /\ Turn \in MergeSet /\ Placed(entries, Turn) /\ Forward(seen, Turn)
         /\ Turn.forward = merge.forward /\ Turn.current = merge.current
         /\ Entry(Turn) = Entry(merge)
<1> DEFINE x == Entry(merge)
           at == [c \in Children |-> IF c \in Others THEN SeekIn(c, x) ELSE merge.at[c]]
<1>1. /\ merge.current \in Children /\ x = merge.at[merge.current] /\ x # NoEntry
      /\ x \in entries[merge.current] /\ x \in Points /\ Standing(entries, merge.at)
  BY EntryOf
<1>2. Turn = [at |-> at, current |-> merge.current, forward |-> merge.forward]
  BY DEF Turn, MergeSet
<1> HIDE DEF x
<1>3. \A c \in Children : at[c] = IF c = merge.current THEN x ELSE SeekIn(c, x)
  BY <1>1 DEF Others
<1>4. \A c \in Children : at[c] \in entries[c] \cup {NoEntry}
  BY <1>1, <1>3, ChildMoves
<1>5. at \in [Children -> Entries \cup {NoEntry}]
  BY <1>4 DEF Held
<1> HIDE DEF at
<1>6. /\ Turn \in MergeSet /\ Turn.at = at /\ Turn.current = merge.current
      /\ Turn.forward = merge.forward
  BY <1>2, <1>5 DEF MergeSet
<1>7. Entry(Turn) = x /\ at[merge.current] = x
  BY <1>1, <1>3, <1>6 DEF Entry
<1>8. Placed(entries, Turn)
  BY <1>1, <1>4, <1>6, <1>7 DEF Placed
<1>9. ASSUME NEW c \in Children
      PROVE  /\ at[c] # NoEntry => ~Before(at[c], x)
             /\ \A g \in seen[c] : (at[c] # NoEntry /\ ~Before(g, at[c])) <=> ~Before(g, x)
  <2>1. CASE c = merge.current
    BY <1>1, <1>3, <2>1, Order
  <2>2. CASE c # merge.current
    BY <1>1, <1>3, <2>2, ChildMoves DEF Held
  <2> QED
    BY <2>1, <2>2
<1>10. Forward(seen, Turn)
  BY <1>6, <1>7, <1>9 DEF Forward
<1> QED
  BY <1>6, <1>7, <1>8, <1>10 DEF x

LEMMA NextCall ==
  ASSUME NEW seen, Held(entries, seen), merge \in MergeSet, Placed(entries, merge),
         merge.current # "none", Forward(seen, merge)
  PROVE  /\ After(seen, MergeNext, {g \in All(seen) : Before(Entry(merge), g)})
         /\ MergeNext.forward
<1> DEFINE x == Entry(merge)
           cur == merge.current
           at == [merge.at EXCEPT ![cur] = NextIn(cur, x)]
           L == {g \in All(seen) : Before(x, g)}
<1>1. /\ cur \in Children /\ x = merge.at[cur] /\ x # NoEntry
      /\ x \in entries[cur] /\ x \in Points /\ Standing(entries, merge.at)
      /\ \A c \in Children \ {cur} : x \notin entries[c] /\ merge.at[c] # x
  BY EntryOf
<1>2. MergeNext = Merged(at, TRUE)
  <2>1. merge.at = [c \in Children |-> merge.at[c]]
    BY DEF MergeSet
  <2>2. [c \in Children |-> IF c \in Others /\ merge.at[c] = x THEN NextIn(c, x) ELSE merge.at[c]]
          = merge.at
    BY <1>1, <2>1 DEF Others
  <2> QED
    BY <2>2 DEF MergeNext
<1>3. /\ \A c \in Children : at[c] = IF c = cur THEN NextIn(cur, x) ELSE merge.at[c]
      /\ DOMAIN at = Children /\ at = [c \in Children |-> at[c]]
  BY <1>1 DEF MergeSet
<1> HIDE DEF x, at
<1>4. \A c \in Children : at[c] \in entries[c] \cup {NoEntry}
  BY <1>1, <1>3, ChildMoves DEF Placed
<1>5. Standing(entries, at)
  BY <1>3, <1>4 DEF Standing, Held
<1>6. \A c \in Children : entries[c] \subseteq Points /\ seen[c] \subseteq entries[c]
                          /\ seen[c] \subseteq All(seen)
  BY HeldDistinct, EntryPoints DEF Held
<1>7. ASSUME NEW c \in Children, NEW g \in seen[c]
      PROVE  (at[c] # NoEntry /\ ~Before(g, at[c])) <=> g \in L
  <2>1. g \in All(seen) /\ g \in Points /\ g \in entries[c]
    BY <1>6
  <2>2. CASE c = cur
    BY <1>1, <1>3, <2>1, <2>2, ChildMoves
  <2>3. CASE c # cur
    <3>1. (at[c] # NoEntry /\ ~Before(g, at[c])) <=> ~Before(g, x)
      BY <1>3, <2>3 DEF Forward, x
    <3>2. ~Before(g, x) <=> Before(x, g)
      <4>1. g # x /\ g \in entries[c] /\ x \in entries[cur]
        BY <1>1, <2>1, <2>3
      <4>2. g.seq # x.seq
        BY <1>1, <2>3, <4>1 DEF Held, Numbered
      <4> QED
        BY <1>1, <2>1, <4>2, Order
    <3> QED
      BY <2>1, <3>1, <3>2
  <2> QED
    BY <2>2, <2>3
<1>8. ASSUME NEW c \in Children, at[c] # NoEntry, NEW g \in All(seen), ~Before(g, at[c])
      PROVE  g \in L
  <2>1. at[c] \in Points /\ g \in Points /\ at[c] \in entries[c]
    BY <1>4, <1>6, <1>8, HeldDistinct
  <2>2. Before(x, at[c])
    <3>1. CASE c = cur
      BY <1>1, <1>3, <1>8, <3>1, ChildMoves
    <3>2. CASE c # cur
      <4>1. ~Before(at[c], x)
        BY <1>3, <1>8, <3>2 DEF Forward, x
      <4>2. at[c].seq # x.seq
        BY <1>1, <2>1, <3>2 DEF Held, Numbered
      <4> QED
        BY <1>1, <2>1, <4>1, <4>2, Order
    <3> QED
      BY <3>1, <3>2
  <2> QED
    BY <1>1, <1>8, <2>1, <2>2, Order
<1> DEFINE m == Merged(at, TRUE)
<1>9. Placed(entries, m) /\ Forward(seen, m) /\ Ahead(seen, m) = L /\ m.forward
      /\ m.at = at /\ m.current \in Children \cup {"none"}
  <2> HIDE DEF L
  <2>1. L \subseteq All(seen)
    BY DEF L
  <2> QED
    BY <1>5, <1>7, <1>8, <2>1, MergedForward
<1>10. m \in MergeSet
  BY <1>5, <1>9 DEF MergeSet, Merged, Standing
<1> QED
  BY <1>2, <1>9, <1>10 DEF After, x

LEMMA PrevCall ==
  ASSUME NEW seen, Held(entries, seen), merge \in MergeSet, Placed(entries, merge),
         merge.current # "none",
         IF merge.forward THEN Forward(seen, merge) ELSE Backward(seen, merge)
  PROVE  /\ After(seen, MergePrev, IF merge.forward THEN {g \in All(seen) : Before(g, Entry(merge))}
                                   ELSE Behind(seen, merge) \ {Entry(merge)})
         /\ ~MergePrev.forward
<1> DEFINE x == Entry(merge)
           cur == merge.current
           before(c) == IF merge.at[c] = NoEntry THEN LastOf(entries[c]) ELSE PrevIn(c, merge.at[c])
           at == [c \in Children |-> IF c = cur THEN PrevIn(cur, x)
                                     ELSE IF merge.forward THEN before(c) ELSE merge.at[c]]
           L == IF merge.forward THEN {g \in All(seen) : Before(g, x)} ELSE Behind(seen, merge) \ {x}
<1>1. /\ cur \in Children /\ x = merge.at[cur] /\ x # NoEntry
      /\ x \in entries[cur] /\ x \in Points /\ Standing(entries, merge.at)
      /\ \A c \in Children \ {cur} : x \notin entries[c] /\ merge.at[c] # x
  BY EntryOf
<1>2. MergePrev = Merged(at, FALSE)
  <2>1. merge.at = [c \in Children |-> merge.at[c]]
    BY DEF MergeSet
  <2>2. CASE merge.forward
    <3>1. [[c \in Children |-> IF c \notin Others THEN merge.at[c]
                               ELSE IF merge.at[c] = NoEntry THEN LastOf(entries[c])
                               ELSE PrevIn(c, merge.at[c])] EXCEPT ![cur] = PrevIn(cur, x)] = at
      BY <1>1, <2>2 DEF Others
    <3> QED
      BY <2>2, <3>1 DEF MergePrev
  <2>3. CASE ~merge.forward
    <3>1. [merge.at EXCEPT ![cur] = PrevIn(cur, x)] = at
      BY <1>1, <2>1, <2>3
    <3> QED
      BY <2>3, <3>1 DEF MergePrev
  <2> QED
    BY <2>2, <2>3
<1>3. \A c \in Children : at[c] = IF c = cur THEN PrevIn(cur, x)
                                  ELSE IF merge.forward THEN before(c) ELSE merge.at[c]
  OBVIOUS
<1>12. DOMAIN at = Children /\ at = [c \in Children |-> at[c]]
  OBVIOUS
<1> HIDE DEF x, at
<1>6. \A c \in Children : entries[c] \subseteq Points /\ seen[c] \subseteq entries[c]
                          /\ seen[c] \subseteq All(seen) /\ merge.at[c] \in entries[c] \cup {NoEntry}
                          /\ merge.at[c] \in Points
  BY HeldDistinct, EntryPoints DEF Held, Placed
<1>4. \A c \in Children : at[c] \in entries[c] \cup {NoEntry}
  <2> SUFFICES ASSUME NEW c \in Children PROVE at[c] \in entries[c] \cup {NoEntry}
    OBVIOUS
  <2>1. before(c) \in entries[c] \cup {NoEntry}
    BY <1>6, ChildMoves
  <2>2. c = cur => PrevIn(cur, x) \in entries[c] \cup {NoEntry}
    BY <1>1, ChildMoves
  <2> QED
    BY <1>3, <1>6, <2>1, <2>2
<1>5. Standing(entries, at)
  BY <1>4, <1>12 DEF Standing, Held
<1>7. DownClosed(seen, L)
  <2>0. All(seen) \subseteq Points /\ Behind(seen, merge) \subseteq All(seen)
    BY HeldDistinct, EntryPoints DEF Distinct, Behind
  <2>1. CASE merge.forward
    BY <1>1, <2>0, <2>1, Order DEF DownClosed
  <2>2. CASE ~merge.forward
    <3>1. DownClosed(seen, Behind(seen, merge))
      BY <2>2 DEF Backward
    <3>2. \A g \in Behind(seen, merge) : ~Before(x, g)
      <4> SUFFICES ASSUME NEW g \in Behind(seen, merge) PROVE ~Before(x, g)
        OBVIOUS
      <4>1. PICK c \in Children : g \in seen[c] /\ merge.at[c] # NoEntry /\ ~Before(merge.at[c], g)
        BY DEF Behind
      <4>2. ~Before(x, merge.at[c])
        BY <2>2, <4>1 DEF Backward, x
      <4> QED
        BY <1>1, <1>6, <2>0, <4>1, <4>2, Order
    <3> QED
      BY <2>0, <2>2, <3>1, <3>2 DEF DownClosed
  <2> QED
    BY <2>1, <2>2
<1>8. ASSUME NEW c \in Children, NEW g \in seen[c]
      PROVE  (at[c] # NoEntry /\ ~Before(at[c], g)) <=> g \in L
  <2>1. g \in All(seen) /\ g \in Points /\ g \in entries[c]
    BY <1>6
  <2>2. c # cur => g # x /\ g.seq # x.seq
    BY <1>1, <2>1 DEF Held, Numbered
  <2>3. CASE c = cur
    <3>1. (at[c] # NoEntry /\ ~Before(at[c], g)) <=> Before(g, x)
      BY <1>1, <1>3, <2>1, <2>3, ChildMoves
    <3>2. CASE merge.forward
      BY <2>1, <3>1, <3>2
    <3>3. CASE ~merge.forward
      <4>1. g \in Behind(seen, merge) <=> ~Before(x, g)
        <5>1. ~Before(x, g) => g \in Behind(seen, merge)
          BY <1>1, <2>1, <2>3 DEF Behind
        <5>2. ASSUME NEW d \in Children, g \in seen[d] PROVE d = c
          BY <1>6, <2>1, <5>2 DEF Held, Numbered
        <5>3. g \in Behind(seen, merge) => ~Before(x, g)
          BY <1>1, <2>3, <5>2 DEF Behind
        <5> QED
          BY <5>1, <5>3
      <4>2. Before(g, x) <=> ~Before(x, g) /\ g # x
        <5>1. g # x => g.seq # x.seq
          BY <1>1, <2>1, <2>3 DEF Held, Numbered
        <5> QED
          BY <1>1, <2>1, <5>1, Order
      <4> QED
        BY <3>1, <3>3, <4>1, <4>2
    <3> QED
      BY <3>2, <3>3
  <2>4. CASE c # cur /\ merge.forward
    <3>1. at[c] = before(c)
      BY <1>3, <2>4
    <3>2. (at[c] # NoEntry /\ ~Before(at[c], g)) <=>
            (merge.at[c] = NoEntry \/ Before(g, merge.at[c]))
      BY <1>6, <2>1, <3>1, ChildMoves
    <3>3. (merge.at[c] # NoEntry /\ ~Before(g, merge.at[c])) <=> ~Before(g, x)
      BY <2>4 DEF Forward, x
    <3> QED
      BY <2>1, <2>4, <3>2, <3>3
  <2>5. CASE c # cur /\ ~merge.forward
    <3>1. at[c] = merge.at[c]
      BY <1>3, <2>5
    <3>2. \A d \in Children : g \in seen[d] => d = c
      BY <1>6, <2>1 DEF Held, Numbered
    <3>3. g \in Behind(seen, merge) <=> merge.at[c] # NoEntry /\ ~Before(merge.at[c], g)
      BY <2>1, <3>2 DEF Behind
    <3> QED
      BY <2>2, <2>5, <3>1, <3>3
  <2> QED
    BY <2>3, <2>4, <2>5
<1> DEFINE m == Merged(at, FALSE)
<1>9. Placed(entries, m) /\ Backward(seen, m) /\ Behind(seen, m) = L /\ ~m.forward
      /\ m.at = at /\ m.current \in Children \cup {"none"}
  <2> HIDE DEF L
  <2> QED
    BY <1>5, <1>7, <1>8, MergedBackward
<1>10. m \in MergeSet
  BY <1>5, <1>9 DEF MergeSet, Merged, Standing
<1> QED
  BY <1>2, <1>9, <1>10 DEF After, x

-----------------------------------------------------------------------------
\* The newest entry of a key, of those that the snapshot sees.
LEMMA NewestIs ==
  ASSUME NEW seen, Distinct(All(seen))
  PROVE  /\ Has(seen) \subseteq UserKeys
         /\ \A g \in All(seen) :
              LET n == Newest(seen, g.key) IN
              n \in All(seen) /\ n.key = g.key /\ ~Before(g, n) /\ (n = g \/ Before(n, g))
         /\ \A k \in Has(seen) :
              LET n == Newest(seen, k) IN n \in All(seen) /\ n.key = k /\ n.type = "value"
         /\ \A g \in All(seen) : g \in Entries /\ g \in Points /\ g.key \in UserKeys /\ g.key < End
         /\ \A g \in All(seen) :
              g.type = "value" /\ Newest(seen, g.key) = g => g.key \in Has(seen)
<1> DEFINE of(k) == {e \in All(seen) : e.key = k}
<1>1. \A g \in All(seen) : g \in Entries /\ g \in Points /\ g.key \in UserKeys /\ g.key < End
  BY EntryPoints DEF Distinct
<1>2. \A k : Distinct(of(k))
  BY DEF Distinct
<1>3. ASSUME NEW g \in All(seen)
      PROVE  LET n == Newest(seen, g.key) IN
             n \in All(seen) /\ n.key = g.key /\ ~Before(g, n) /\ (n = g \/ Before(n, g))
  <2>1. g \in of(g.key) /\ Newest(seen, g.key) = FirstOf(of(g.key))
    BY DEF Newest
  <2>2. FirstOf(of(g.key)) \in of(g.key)
        /\ \A f \in of(g.key) : f = FirstOf(of(g.key)) \/ Before(FirstOf(of(g.key)), f)
    <3> HIDE DEF of
    <3> QED
      BY <1>2, <2>1, FirstOfIs
  <2> QED
    BY <1>1, <2>1, <2>2, Order
<1>4. ASSUME NEW k \in Has(seen)
      PROVE  LET n == Newest(seen, k) IN n \in All(seen) /\ n.key = k /\ n.type = "value"
  <2>1. Newest(seen, k).type = "value"
    BY DEF Has
  <2>2. of(k) # {}
    <3> SUFFICES ASSUME of(k) = {} PROVE FALSE
      OBVIOUS
    <3> QED
      BY <2>1 DEF Newest, FirstOf, NoEntry
  <2>3. PICK g \in All(seen) : g.key = k
    BY <2>2
  <2> QED
    BY <1>3, <2>1, <2>3
<1>5. Has(seen) \subseteq UserKeys
  BY DEF Has
<1>6. \A g \in All(seen) : g.type = "value" /\ Newest(seen, g.key) = g => g.key \in Has(seen)
  BY <1>1 DEF Has
<1> QED
  BY <1>1, <1>3, <1>4, <1>5, <1>6

\* The entry an internal call leaves is one the snapshot sees, or none of
\* those that are left.
LEMMA KeyIs ==
  ASSUME Held(entries, SeenBy), NEW m \in MergeSet, Placed(entries, m)
  PROVE  /\ m.current = "none" => Entry(m) = NoEntry /\ Ahead(SeenBy, m) = {} /\ Behind(SeenBy, m) = {}
         /\ m.current # "none" =>
              /\ Entry(m) # NoEntry /\ Entry(m) \in Entries /\ Entry(m) \in Points
              /\ Entry(m).key \in UserKeys /\ Entry(m).key < End
              /\ Entry(m).seq <= sequence <=> Entry(m) \in All(SeenBy)
              /\ Ahead(SeenBy, m) = {g \in All(SeenBy) : ~Before(g, Entry(m))}
              /\ Entry(m) \in All(SeenBy) => Entry(m) \in Behind(SeenBy, m)
              /\ Backward(SeenBy, m) => \A g \in Behind(SeenBy, m) : ~Before(Entry(m), g)
<1> DEFINE x == Entry(m)
           seen == SeenBy
<1>1. CASE m.current = "none"
  BY <1>1 DEF Entry, Ahead, Behind, Placed
<1>2. CASE m.current # "none"
  <2>1. /\ m.current \in Children /\ x = m.at[m.current] /\ x \in entries[m.current]
        /\ x \in Entries /\ x \in Points /\ x # NoEntry /\ Standing(entries, m.at)
    BY <1>2, EntryOf
  <2>2. x.key \in UserKeys /\ x.key < End
    BY <2>1, EntryPoints
  <2>3. x.seq <= sequence <=> x \in All(seen)
    BY <2>1 DEF SeenBy, All
  <2>4. x \in All(seen) => x \in Behind(seen, m)
    <3>1. x \in All(seen) => x \in seen[m.current]
      BY <2>1, <2>3 DEF SeenBy
    <3>2. ~Before(x, x)
      BY <2>1, Order
    <3> QED
      BY <2>1, <3>1, <3>2 DEF Behind
  <2>5. ASSUME Backward(seen, m), NEW g \in Behind(seen, m)
        PROVE  ~Before(x, g)
    <3>1. PICK c \in Children : g \in seen[c] /\ m.at[c] # NoEntry /\ ~Before(m.at[c], g)
      BY DEF Behind
    <3>2. ~Before(x, m.at[c])
      BY <1>2, <2>5, <3>1 DEF Backward
    <3>3. m.at[c] \in Points /\ g \in Points
      BY <2>1, <3>1, EntryPoints DEF Standing, Held
    <3> QED
      BY <2>1, <3>1, <3>2, <3>3, Order
  <2>6. Ahead(seen, m) = {g \in All(seen) : ~Before(g, x)}
    BY <1>2 DEF Ahead
  <2> QED
    BY <1>2, <2>1, <2>2, <2>3, <2>4, <2>5, <2>6
<1> QED
  BY <1>1, <1>2

-----------------------------------------------------------------------------
IterSet == [forward : BOOLEAN, valid : BOOLEAN, key : UserKeys \cup {End}, value : 0 .. MaxSeq,
            skipping : BOOLEAN, type : Types]

\* What was shown is the newest entry of its key.
ShowsNewest(seen, s) == s.key # End => s.key \in UserKeys /\ s.seq = Newest(seen, s.key).seq

\* The step ends the call, or goes on to an internal call that is in order.
Goes(seen, m, w) ==
  /\ Client(seen, call', iter', m, shown', w)
  /\ iter' \in IterSet /\ call' \in CallSet /\ ~call'.turned
  /\ call'.op \in {"next", "prev"} => m.current # "none"

LEMMA CallsIs ==
  ASSUME NEW op \in {"none", "first", "last", "seek", "next", "prev"},
         NEW then \in {"none", "FindNextUserEntry", "FindPrevUserEntry", "TurnBack"},
         Calls(op, then)
  PROVE  /\ call'.op = op /\ call'.then = then /\ ~call'.turned /\ call' \in CallSet
         /\ shown' = shown
<1>1. call' = [op |-> op, target |-> NoEntry, then |-> then, turned |-> FALSE]
  BY DEF Calls, NotCalled
<1>2. NoEntry \in [key : UserKeys \cup {End}, seq : 0 .. MaxSeq, type : Types \cup {"none"}]
  BY SequenceAssumption DEF NoEntry
<1> QED
  <2>1. shown' = shown
    BY DEF Calls
  <2> QED
    BY <1>1, <1>2, <2>1 DEF CallSet

LEMMA ReturnsIs ==
  ASSUME NEW k, NEW n, Returns(k, n)
  PROVE  /\ call' = NotCalled /\ call'.op = "none" /\ ~call'.turned /\ call' \in CallSet
         /\ shown'.key = k /\ shown'.seq = n /\ shown' = [key |-> k, seq |-> n]
<1>1. NoEntry \in [key : UserKeys \cup {End}, seq : 0 .. MaxSeq, type : Types \cup {"none"}]
  BY SequenceAssumption DEF NoEntry
<1> QED
  BY <1>1 DEF Returns, NotCalled, CallSet

\* A turn of the loop of FindNextUserEntry.
LEMMA FindNext ==
  ASSUME Held(entries, SeenBy), NEW m \in MergeSet, Placed(entries, m), m.forward,
         NEW it \in IterSet, NEW w, ShowsNewest(SeenBy, shown),
         NextLoop(SeenBy, it, Ahead(SeenBy, m), w), FindNextUserEntry(it, Entry(m))
  PROVE  Goes(SeenBy, m, w)
<1> DEFINE x == Entry(m)
           seen == SeenBy
           L == Ahead(seen, m)
           R == {g \in All(seen) : Before(x, g)}
           wants(i, P) == {k \in Has(seen) : Newest(seen, k) \in P /\ (i.skipping => k > i.key)}
<1>1. Distinct(All(seen))
  BY HeldDistinct
<1>2. UpClosed(seen, L) /\ it.forward /\ w = Least(wants(it, L))
      /\ (\A g \in All(seen) \ L, h \in L : g.key = h.key => it.skipping /\ h.key <= it.key)
      /\ (it.skipping => \A h \in L : h.key >= it.key)
  BY DEF NextLoop
<1>3. CASE x = NoEntry
  <2>1. L = {}
    BY <1>3, KeyIs
  <2>2. wants(it, L) = {}
    BY <2>1
  <2>3. w = End
    BY <1>2, <2>2, LeastIs
  <2>4. iter' = [it EXCEPT !.valid = FALSE, !.key = End] /\ Returns(End, 0)
    BY <1>3 DEF FindNextUserEntry
  <2>5. iter' \in IterSet /\ iter'.valid = FALSE
    BY <2>4 DEF IterSet
  <2> HIDE DEF x, seen, L, R, wants
  <2> QED
    <3>1. Rests(SeenBy, iter', m, shown', w)
      BY <2>3, <2>4, <2>5, ReturnsIs DEF Rests
    <3> QED
      BY <2>4, <2>5, <3>1, ReturnsIs DEF Goes, Client
<1>4. CASE x # NoEntry
  <2>1. /\ m.current # "none" /\ x \in Entries /\ x \in Points /\ x.key \in UserKeys /\ x.key < End
        /\ x.seq <= sequence <=> x \in All(seen)
        /\ L = {g \in All(seen) : ~Before(g, x)}
    BY <1>4, KeyIs
  <2>2. All(seen) \subseteq Points /\ x.key \in Nat /\ \A g \in All(seen) : g.key \in Nat
    BY <1>1, <2>1, EntryPoints DEF Distinct, Points
  <2>3. R \subseteq L /\ UpClosed(seen, R)
    BY <2>1, <2>2, Order DEF UpClosed
  <2>4. \A g \in L : g = x \/ g \in R
    <3> SUFFICES ASSUME NEW g \in L, g \notin R PROVE g = x
      OBVIOUS
    <3>1. g \in All(seen) /\ g \in Points /\ g.key = x.key /\ g.seq = x.seq
      BY <2>1, <2>2, Order
    <3>2. PICK c \in Children : g \in seen[c] /\ g \in entries[c]
      BY <3>1, HeldDistinct
    <3>3. m.current \in Children /\ x \in entries[m.current]
      BY <2>1, EntryOf
    <3> QED
      BY <3>1, <3>2, <3>3 DEF Held, Numbered
  <2>5. x \in All(seen) => x \in L /\ x \notin R
    BY <2>1, Order
  <2>6. \A g \in All(seen) \ R : g.key <= x.key
    BY <2>1, <2>2, Order
  <2>7. \A h \in R : h.key >= x.key
    BY <2>1, <2>2, Order
  <2>8. \A k \in Has(seen) : k \in Nat /\ Newest(seen, k) \in All(seen) /\ Newest(seen, k).key = k
                             /\ Newest(seen, k).type = "value"
    <3>1. \A k \in Has(seen) : k \in UserKeys /\ Newest(seen, k) \in All(seen)
            /\ Newest(seen, k).key = k /\ Newest(seen, k).type = "value"
      <4> HIDE DEF seen
      <4> QED
        BY <1>1, NewestIs
    <3> QED
      BY <3>1, UserKeysAssumption
  <2>9. iter' \in IterSet
    BY <1>4, <2>1 DEF FindNextUserEntry, IterSet
  <2> DEFINE loops == NextLoop(seen, iter', R, w)
  <2>10. ASSUME Calls("next", "FindNextUserEntry"), loops
         PROVE  Goes(seen, m, w)
    <3>1. call'.op = "next" /\ call'.then = "FindNextUserEntry" /\ ~call'.turned /\ call' \in CallSet
          /\ shown' = shown
      BY <2>10, CallsIs
    <3>2. Left(seen, call', m) = R
      BY <3>1 DEF Left
    <3>3. Runs(seen, call', iter', m, w)
      BY <2>10, <3>1, <3>2 DEF Runs
    <3> HIDE DEF x, seen, L, R, wants
    <3> QED
      BY <2>1, <2>9, <3>1, <3>3 DEF Goes, Client, ShowsNewest, seen
  <2>11. CASE x.seq <= sequence /\ x.type = "deletion"
    <3>1. iter' = [it EXCEPT !.key = x.key, !.skipping = TRUE] /\ Calls("next", "FindNextUserEntry")
      BY <1>4, <2>11 DEF FindNextUserEntry
    <3>2. iter'.key = x.key /\ iter'.skipping /\ iter'.forward
      BY <1>2, <3>1 DEF IterSet
    <3>3. wants(iter', R) = wants(it, L)
      <4>1. ASSUME NEW k \in Has(seen), Newest(seen, k) \in R, k > x.key
            PROVE  it.skipping => k > it.key
        <5>1. it.skipping => x.key >= it.key
          BY <1>2, <2>1, <2>5, <2>11
        <5>2. it.key \in Nat
          BY EntryPoints, UserKeysAssumption DEF IterSet
        <5> QED
          BY <2>2, <2>8, <4>1, <5>1, <5>2
      <4>2. ASSUME NEW k \in Has(seen), Newest(seen, k) \in L, it.skipping => k > it.key
            PROVE  Newest(seen, k) \in R /\ k > x.key
        <5>1. Newest(seen, k) # x
          BY <2>8, <2>11
        <5>2. Newest(seen, k) \in R
          BY <2>4, <4>2, <5>1
        <5>3. k >= x.key
          BY <2>7, <2>8, <5>2
        <5>4. k # x.key
          <6> SUFFICES ASSUME k = x.key PROVE FALSE
            OBVIOUS
          <6>1. ~Before(x, Newest(seen, k))
            BY <1>1, <2>1, <2>11, NewestIs
          <6> QED
            BY <5>2, <6>1
        <5> QED
          BY <2>2, <2>8, <5>2, <5>3, <5>4
      <4> QED
        BY <2>3, <3>2, <4>1, <4>2
    <3>4. \A g \in All(seen) \ R, h \in R : g.key = h.key => h.key <= x.key
      BY <2>6
    <3> HIDE DEF R, L
    <3>5. loops
      BY <1>2, <2>3, <2>7, <3>2, <3>3, <3>4 DEF NextLoop
    <3> HIDE DEF loops
    <3> QED
      BY <2>10, <3>1, <3>5
  <2>12. CASE ~(x.seq <= sequence)
    <3>1. iter' = it /\ Calls("next", "FindNextUserEntry")
      BY <1>4, <2>12 DEF FindNextUserEntry
    <3>2. L = R
      BY <2>1, <2>3, <2>4, <2>12
    <3>3. loops
      BY <3>1, <3>2
    <3> HIDE DEF loops
    <3> QED
      BY <2>10, <3>1, <3>3
  <2>13. CASE x.seq <= sequence /\ x.type = "value" /\ it.skipping /\ x.key <= it.key
    <3>1. iter' = it /\ Calls("next", "FindNextUserEntry")
      BY <1>4, <2>13 DEF FindNextUserEntry
    <3>2. wants(it, L) = wants(it, R)
      <4>1. ASSUME NEW k \in Has(seen), Newest(seen, k) \in L, k > it.key
            PROVE  Newest(seen, k) \in R
        <5>1. Newest(seen, k) # x
          <6>1. it.key \in Nat
            BY EntryPoints, UserKeysAssumption DEF IterSet
          <6> QED
            BY <2>2, <2>8, <2>13, <4>1, <6>1
        <5> QED
          BY <2>4, <4>1, <5>1
      <4> QED
        BY <2>3, <2>13, <4>1
    <3>3. \A g \in All(seen) \ R, h \in R : g.key = h.key => h.key <= it.key
      <4>1. it.key \in Nat
        BY EntryPoints, UserKeysAssumption DEF IterSet
      <4> QED
        BY <2>2, <2>6, <2>13, <4>1
    <3>4. \A h \in R : h.key >= it.key
      BY <1>2, <2>3, <2>13
    <3> HIDE DEF R, L
    <3>5. loops
      BY <1>2, <2>3, <2>13, <3>1, <3>2, <3>3, <3>4 DEF NextLoop
    <3> HIDE DEF loops
    <3> QED
      BY <2>10, <3>1, <3>5
  <2>14. CASE x.seq <= sequence /\ x.type = "value" /\ ~(it.skipping /\ x.key <= it.key)
    <3>1. iter' = [it EXCEPT !.valid = TRUE, !.key = End] /\ Returns(x.key, x.seq)
      BY <1>4, <2>14 DEF FindNextUserEntry
    <3>2. iter'.valid = TRUE /\ iter'.forward
      BY <1>2, <3>1 DEF IterSet
    <3>3. x \in All(seen) /\ x \in L
      BY <2>1, <2>5, <2>14
    <3>4. Newest(seen, x.key) = x
      <4> DEFINE n == Newest(seen, x.key)
      <4>1. n \in All(seen) /\ n.key = x.key /\ (n = x \/ Before(n, x))
        BY <1>1, <3>3, NewestIs
      <4> HIDE DEF n
      <4>2. n \notin L => it.skipping /\ x.key <= it.key
        BY <1>2, <3>3, <4>1
      <4>3. ~Before(n, x)
        BY <2>1, <2>14, <4>2
      <4> QED
        BY <4>1, <4>3 DEF n
    <3>5. w = x.key
      <4>1. x.key \in wants(it, L)
        <5>1. x.key \in Has(seen)
          BY <1>1, <2>14, <3>3, <3>4, NewestIs
        <5>2. it.key \in Nat
          BY EntryPoints, UserKeysAssumption DEF IterSet
        <5>3. it.skipping => x.key > it.key
          BY <2>2, <2>14, <5>2
        <5> HIDE DEF L
        <5> QED
          BY <3>3, <3>4, <5>1, <5>3
      <4>2. \A k \in wants(it, L) : x.key <= k
        <5> SUFFICES ASSUME NEW k \in wants(it, L) PROVE x.key <= k
          OBVIOUS
        <5>1. k \in Has(seen) /\ Newest(seen, k) \in L
          OBVIOUS
        <5>2. Newest(seen, k) \in All(seen) /\ ~Before(Newest(seen, k), x) /\ Newest(seen, k).key = k
          BY <2>1, <2>8, <5>1
        <5> QED
          BY <2>1, <2>2, <5>2, Order
      <4>3. wants(it, L) \subseteq UserKeys
        BY <1>1, NewestIs
      <4> HIDE DEF wants
      <4> QED
        BY <1>2, <4>1, <4>2, <4>3, LeastIs
    <3>6. call' = NotCalled /\ call'.op = "none" /\ ~call'.turned /\ call' \in CallSet
          /\ shown'.key = x.key /\ shown'.seq = x.seq /\ shown' = [key |-> x.key, seq |-> x.seq]
      BY <3>1, ReturnsIs
    <3>7. ShowsForward(seen, iter', m, shown')
      BY <2>1, <2>14, <3>2, <3>3, <3>4, <3>6 DEF ShowsForward
    <3>8. w # End
      BY <2>1, <3>5, EntryPoints
    <3> HIDE DEF x, L, R, wants
    <3>9. Rests(seen, iter', m, shown', w)
      BY <3>2, <3>5, <3>6, <3>7, <3>8 DEF Rests
    <3> QED
      BY <2>1, <2>9, <3>4, <3>6, <3>9 DEF Goes, Client
  <2>15. x.type \in Types
    BY <2>1 DEF Entries
  <2> QED
    BY <2>11, <2>12, <2>13, <2>14, <2>15 DEF Types
<1> QED
  BY <1>3, <1>4

-----------------------------------------------------------------------------
LEMMA IterFields ==
  ASSUME NEW it \in IterSet
  PROVE  /\ it.forward \in BOOLEAN /\ it.valid \in BOOLEAN /\ it.key \in UserKeys \cup {End}
         /\ it.value \in 0 .. MaxSeq /\ it.skipping \in BOOLEAN /\ it.type \in Types
         /\ it.key \in Nat /\ it.value \in Nat
         /\ 0 \in 0 .. MaxSeq /\ "deletion" \in Types /\ "value" \in Types
<1>1. 0 \in 0 .. MaxSeq /\ 0 .. MaxSeq \subseteq Nat
  BY SequenceAssumption
<1>2. UserKeys \cup {End} \subseteq Nat
  BY UserKeysAssumption
<1> QED
  BY <1>1, <1>2 DEF IterSet, Types
LEMMA IterUpdates ==
  ASSUME NEW it \in IterSet, NEW i
  PROVE  /\ i = [it EXCEPT !.valid = FALSE, !.key = End, !.value = 0] =>
              i \in IterSet /\ i.valid = FALSE
         /\ i = [it EXCEPT !.valid = FALSE, !.key = End, !.value = 0, !.forward = TRUE] =>
              i \in IterSet /\ i.valid = FALSE
         /\ i = [it EXCEPT !.type = "deletion", !.key = End, !.value = 0] =>
              i \in IterSet /\ i.type = "deletion" /\ i.forward = it.forward
         /\ i = [it EXCEPT !.forward = FALSE, !.type = "deletion"] =>
              i \in IterSet /\ i.type = "deletion" /\ i.forward = FALSE
         /\ i = [it EXCEPT !.type = "deletion"] =>
              i \in IterSet /\ i.type = "deletion" /\ i.forward = it.forward
         /\ \A k \in UserKeys : i = [it EXCEPT !.key = k, !.skipping = TRUE] =>
              i \in IterSet /\ i.key = k /\ i.skipping = TRUE /\ i.forward = it.forward
<1>1. 0 \in 0 .. MaxSeq /\ "deletion" \in Types
  BY IterFields
<1>2. i = [it EXCEPT !.valid = FALSE, !.key = End, !.value = 0] =>
              i \in IterSet /\ i.valid = FALSE
  BY <1>1 DEF IterSet
<1>3. i = [it EXCEPT !.valid = FALSE, !.key = End, !.value = 0, !.forward = TRUE] =>
              i \in IterSet /\ i.valid = FALSE
  BY <1>1 DEF IterSet
<1>4. i = [it EXCEPT !.type = "deletion", !.key = End, !.value = 0] =>
              i \in IterSet /\ i.type = "deletion" /\ i.forward = it.forward
  BY <1>1 DEF IterSet
<1>5. i = [it EXCEPT !.forward = FALSE, !.type = "deletion"] =>
              i \in IterSet /\ i.type = "deletion" /\ i.forward = FALSE
  BY <1>1 DEF IterSet
<1>6. i = [it EXCEPT !.type = "deletion"] =>
              i \in IterSet /\ i.type = "deletion" /\ i.forward = it.forward
  BY <1>1 DEF IterSet
<1>7. \A k \in UserKeys : i = [it EXCEPT !.key = k, !.skipping = TRUE] =>
              i \in IterSet /\ i.key = k /\ i.skipping = TRUE /\ i.forward = it.forward
  BY DEF IterSet
<1> QED
  BY <1>2, <1>3, <1>4, <1>5, <1>6, <1>7

LEMMA HasFacts ==
  ASSUME NEW seen, Distinct(All(seen))
  PROVE  /\ \A k \in Has(seen) : k \in UserKeys /\ k \in Nat /\ Newest(seen, k) \in All(seen)
               /\ Newest(seen, k).key = k /\ Newest(seen, k).type = "value"
         /\ \A g \in All(seen) : g \in Points /\ g \in Entries /\ g.key \in UserKeys /\ g.key \in Nat
<1>1. \A k \in Has(seen) : k \in UserKeys /\ Newest(seen, k) \in All(seen)
        /\ Newest(seen, k).key = k /\ Newest(seen, k).type = "value"
  BY NewestIs
<1>2. \A g \in All(seen) : g \in Points /\ g \in Entries /\ g.key \in UserKeys
  BY NewestIs
<1> QED
  BY <1>1, <1>2, UserKeysAssumption

\* A turn of the loop of FindPrevUserEntry.
LEMMA FindPrev ==
  ASSUME Held(entries, SeenBy), NEW m \in MergeSet, Placed(entries, m), ~m.forward,
         Backward(SeenBy, m),
         NEW it \in IterSet, NEW w, ShowsNewest(SeenBy, shown),
         PrevLoop(SeenBy, it, Behind(SeenBy, m), w), FindPrevUserEntry(it, Entry(m))
  PROVE  Goes(SeenBy, m, w)
<1> DEFINE x == Entry(m)
           seen == SeenBy
           L == Behind(seen, m)
           R == L \ {x}
           wants(i, P) == {k \in Has(seen) :
                             Newest(seen, k) \in P \/ (i.type = "value" /\ Newest(seen, k) = Saved(i))}
           visible == x.seq <= sequence
           found == x = NoEntry \/ (visible /\ it.type # "deletion" /\ x.key < it.key)
<1>1. Distinct(All(seen))
  BY HeldDistinct
<1>2. /\ DownClosed(seen, L) /\ ~it.forward /\ w = Greatest(wants(it, L))
      /\ it.type = "value" =>
           Saved(it) \in All(seen) \ L /\ \A g \in All(seen) \ L : ~Before(g, Saved(it))
  BY DEF PrevLoop
<1>3. /\ \A k \in Has(seen) : k \in UserKeys /\ k \in Nat /\ Newest(seen, k) \in All(seen)
           /\ Newest(seen, k).key = k /\ Newest(seen, k).type = "value"
      /\ \A g \in All(seen) : g \in Points /\ g \in Entries /\ g.key \in UserKeys /\ g.key \in Nat
  <2> HIDE DEF seen
  <2> QED
    BY <1>1, HasFacts
<1>4. L \subseteq All(seen)
  BY <1>2 DEF DownClosed
<1>5. /\ x = NoEntry => L = {}
      /\ x # NoEntry =>
           /\ m.current # "none" /\ x \in Points /\ x \in Entries /\ x.key \in UserKeys
           /\ visible <=> x \in All(seen)
           /\ x \in All(seen) => x \in L
           /\ \A g \in L : ~Before(x, g)
  BY KeyIs
<1>6. it.key \in Nat /\ it.value \in 0 .. MaxSeq /\ it.type \in Types /\ it.value \in Nat
  BY IterFields
<1>7. Saved(it).key = it.key /\ Saved(it).seq = it.value /\ Saved(it).type = "value"
      /\ Saved(it) \in Points
  BY <1>6 DEF Saved, Points, Types
<1>8. CASE found /\ it.type = "deletion"
  <2>1. x = NoEntry /\ L = {}
    BY <1>5, <1>8
  <2>2. wants(it, L) = {}
    BY <1>8, <2>1
  <2>3. w = End
    BY <1>2, <2>2, GreatestIs
  <2>4. iter' = [it EXCEPT !.valid = FALSE, !.key = End, !.value = 0, !.forward = TRUE]
        /\ Returns(End, 0)
    BY <1>8 DEF FindPrevUserEntry
  <2>5. iter' \in IterSet /\ iter'.valid = FALSE
    BY <2>4, IterUpdates
  <2> HIDE DEF x, seen, L, R, wants, visible, found
  <2>6. Rests(SeenBy, iter', m, shown', w)
    BY <2>3, <2>4, <2>5, ReturnsIs DEF Rests
  <2> QED
    BY <2>4, <2>5, <2>6, ReturnsIs DEF Goes, Client
<1>9. CASE found /\ it.type # "deletion"
  <2> DEFINE n == Newest(seen, it.key)
  <2>1. it.type = "value" /\ Saved(it) \in All(seen) /\ Saved(it) \notin L
    BY <1>2, <1>6, <1>9 DEF Types
  <2>2. x # NoEntry => x.key < it.key /\ x \in All(seen) /\ m.current # "none"
    BY <1>5, <1>9
  <2>3. \A g \in L : g.key < it.key
    <3> SUFFICES ASSUME NEW g \in L PROVE g.key < it.key
      OBVIOUS
    <3>1. x # NoEntry /\ ~Before(x, g) /\ g.key \in Nat /\ x.key \in Nat
      BY <1>3, <1>4, <1>5, <2>2
    <3>2. g.key <= x.key
      BY <1>3, <1>4, <1>5, <3>1, Order
    <3> QED
      BY <1>6, <2>2, <3>1, <3>2
  <2>4. \A g \in All(seen) : g.key < it.key => g \in L
    BY <1>2, <1>3, <1>6, <1>7, <2>1, Order
  <2>5. L = {g \in All(seen) : g.key < it.key}
    <3> HIDE DEF L
    <3> QED
      BY <1>4, <2>3, <2>4
  <2>6. n = Saved(it)
    <3>1. n \in All(seen) /\ n.key = it.key /\ (n = Saved(it) \/ Before(n, Saved(it)))
      <4> HIDE DEF seen
      <4> QED
        BY <1>1, <1>7, <2>1, NewestIs
    <3> HIDE DEF n
    <3>2. n \notin L
      BY <1>6, <2>3, <3>1
    <3> QED
      BY <1>2, <2>1, <3>1, <3>2
  <2>7. it.key \in Has(seen)
    <3> HIDE DEF seen
    <3> QED
      BY <1>1, <1>7, <2>1, <2>6, NewestIs
  <2>8. w = it.key
    <3>1. it.key \in wants(it, L)
      BY <2>1, <2>6, <2>7
    <3>2. \A k \in wants(it, L) : k <= it.key
      <4> SUFFICES ASSUME NEW k \in wants(it, L) PROVE k <= it.key
        OBVIOUS
      <4>1. k \in Has(seen) /\ (Newest(seen, k) \in L \/ Newest(seen, k) = Saved(it))
        OBVIOUS
      <4> HIDE DEF wants, L, seen
      <4>2. Newest(seen, k).key = k /\ k \in Nat
        BY <1>3, <4>1
      <4> QED
        BY <1>6, <1>7, <2>3, <4>1, <4>2
    <3>3. wants(it, L) \subseteq UserKeys
      BY <1>3
    <3> HIDE DEF wants
    <3> QED
      BY <1>2, <3>1, <3>2, <3>3, GreatestIs
  <2>9. iter' = [it EXCEPT !.valid = TRUE] /\ Returns(it.key, it.value)
    BY <1>9 DEF FindPrevUserEntry
  <2>10. iter' \in IterSet /\ iter'.valid = TRUE /\ ~iter'.forward /\ iter'.key = it.key
         /\ iter'.value = it.value
    BY <1>2, <2>9 DEF IterSet
  <2>11. call' = NotCalled /\ call'.op = "none" /\ ~call'.turned /\ call' \in CallSet
         /\ shown'.key = it.key /\ shown'.seq = it.value
    BY <2>9, ReturnsIs
  <2>12. it.key \in UserKeys /\ it.key # End
    BY <1>3, <2>7, EntryPoints
  <2>13. Newest(seen, it.key) = [key |-> it.key, seq |-> it.value, type |-> "value"]
    BY <2>6 DEF Saved
  <2>14. m.current # "none" => Entry(m) \in All(seen)
    BY <2>2, KeyIs
  <2>15. Behind(seen, m) = {g \in All(seen) : g.key < shown'.key}
    BY <2>5, <2>11
  <2> HIDE DEF x, seen, L, R, wants, visible, found
  <2>16. ShowsBackward(seen, iter', m, shown')
    BY <2>10, <2>11, <2>12, <2>13, <2>14, <2>15 DEF ShowsBackward
  <2>17. Rests(seen, iter', m, shown', w)
    BY <2>8, <2>10, <2>11, <2>12, <2>16 DEF Rests
  <2>18. ShowsNewest(seen, shown')
    BY <2>11, <2>12, <2>13 DEF ShowsNewest
  <2> QED
    BY <2>10, <2>11, <2>17, <2>18 DEF Goes, Client, ShowsNewest, seen
<1>10. CASE ~found
  <2>1. x # NoEntry /\ m.current # "none" /\ x \in Points /\ x \in Entries /\ x.key \in UserKeys
        /\ (visible <=> x \in All(seen)) /\ (x \in All(seen) => x \in L)
        /\ \A g \in L : ~Before(x, g)
    BY <1>5, <1>10
  <2>2. R \subseteq L /\ DownClosed(seen, R)
    <3> HIDE DEF L, seen, x
    <3> QED
      BY <1>2, <2>1 DEF DownClosed
  \* What was saved before is not the newest of its key, if x is seen.
  <2>3. ASSUME visible, it.type = "value", NEW k \in Has(seen)
        PROVE  Newest(seen, k) # Saved(it)
    <3> SUFFICES ASSUME Newest(seen, k) = Saved(it) PROVE FALSE
      OBVIOUS
    <3>1. Saved(it) \in All(seen) /\ Saved(it) \notin L /\ x \in L /\ x \in All(seen)
      BY <1>2, <2>1, <2>3
    <3>2. ~(x.key < it.key)
      BY <1>10, <2>1, <2>3
    <3>3. ~Before(Saved(it), x)
      BY <1>2, <3>1 DEF DownClosed
    <3>4. Before(x, Saved(it)) /\ x.key = it.key
      <4>1. x.key <= it.key
        BY <1>7, <2>1, <3>3, Order
      <4>2. x.key \in Nat
        BY <1>3, <3>1
      <4>3. x.key = it.key
        BY <1>6, <3>2, <4>1, <4>2
      <4>4. Before(x, Saved(it)) \/ x.seq = Saved(it).seq
        BY <1>7, <2>1, <3>3, Order
      <4>5. x.seq = Saved(it).seq => x = Saved(it)
        BY <1>1, <3>1 DEF Distinct
      <4> QED
        BY <3>1, <4>3, <4>4, <4>5
    <3>5. ~Before(x, Newest(seen, x.key)) /\ Newest(seen, k).key = k
      <4> HIDE DEF seen
      <4> QED
        BY <1>1, <1>3, <2>3, <3>1, NewestIs
    <3> QED
      BY <1>7, <3>4, <3>5
  <2> DEFINE loops == PrevLoop(seen, iter', R, w)
  <2>4. iter' = (IF ~visible THEN it
                 ELSE IF x.type = "deletion"
                 THEN [it EXCEPT !.type = "deletion", !.key = End, !.value = 0]
                 ELSE [it EXCEPT !.type = "value", !.key = x.key, !.value = x.seq])
        /\ Calls("prev", "FindPrevUserEntry")
    BY <1>10 DEF FindPrevUserEntry
  <2>5. ASSUME iter' \in IterSet, loops
        PROVE  Goes(seen, m, w)
    <3>1. call'.op = "prev" /\ call'.then = "FindPrevUserEntry" /\ ~call'.turned /\ call' \in CallSet
          /\ shown' = shown
      BY <2>4, CallsIs
    <3>2. Left(seen, call', m) = R
      BY <3>1 DEF Left
    <3>3. Runs(seen, call', iter', m, w)
      BY <2>5, <3>1, <3>2 DEF Runs
    <3> HIDE DEF x, seen, L, R, wants, visible, found
    <3> QED
      BY <2>1, <2>5, <3>1, <3>3 DEF Goes, Client, ShowsNewest, seen
  <2>6. CASE ~visible
    <3>1. iter' = it /\ R = L
      BY <1>4, <2>1, <2>4, <2>6
    <3>2. loops
      BY <3>1
    <3> HIDE DEF loops
    <3> QED
      BY <2>5, <3>1, <3>2
  <2>7. CASE visible /\ x.type = "deletion"
    <3>1. iter' = [it EXCEPT !.type = "deletion", !.key = End, !.value = 0]
      BY <2>4, <2>7
    <3>2. iter' \in IterSet /\ iter'.type = "deletion" /\ ~iter'.forward
      BY <1>2, <3>1, IterUpdates
    <3>3. wants(it, L) = wants(iter', R)
      <4>1. \A k \in Has(seen) : Newest(seen, k) # x
        BY <1>3, <2>7
      <4>2. \A k \in Has(seen) : ~(it.type = "value" /\ Newest(seen, k) = Saved(it))
        BY <2>3, <2>7
      <4> HIDE DEF L, seen, x
      <4> QED
        BY <3>2, <4>1, <4>2
    <3>4. loops
      <4> HIDE DEF L, R, seen, x
      <4> QED
        BY <1>2, <2>2, <3>2, <3>3 DEF PrevLoop
    <3> HIDE DEF loops
    <3> QED
      BY <2>5, <3>2, <3>4
  <2>8. CASE visible /\ x.type # "deletion"
    <3>1. iter' = [it EXCEPT !.type = "value", !.key = x.key, !.value = x.seq]
      BY <2>4, <2>8
    <3>2. x.seq \in 0 .. MaxSeq /\ x.type = "value"
          /\ x = [key |-> x.key, seq |-> x.seq, type |-> x.type]
      <4> HIDE DEF x
      <4> QED
        BY <2>1, <2>8, SequenceAssumption DEF Entries, Types
    <3>3. iter' \in IterSet /\ iter'.type = "value" /\ ~iter'.forward /\ iter'.key = x.key
          /\ iter'.value = x.seq
      <4> HIDE DEF x
      <4> QED
        BY <1>2, <2>1, <3>1, <3>2 DEF IterSet, Types
    <3>4. Saved(iter') = x
      BY <3>2, <3>3 DEF Saved
    <3>5. x \in All(seen) /\ x \in L /\ x \notin R
      BY <2>1, <2>8
    <3>6. wants(it, L) = wants(iter', R)
      <4>1. \A k \in Has(seen) : ~(it.type = "value" /\ Newest(seen, k) = Saved(it))
        BY <2>3, <2>8
      <4> HIDE DEF L, seen, x
      <4> QED
        BY <3>3, <3>4, <3>5, <4>1
    <3>7. \A g \in All(seen) \ R : ~Before(g, x)
      <4> HIDE DEF L, seen, x
      <4> QED
        BY <1>2, <2>1, <3>5, Order DEF DownClosed
    <3>8. loops
      <4> HIDE DEF L, R, seen, x
      <4> QED
        BY <1>2, <2>2, <3>3, <3>4, <3>5, <3>6, <3>7 DEF PrevLoop
    <3> HIDE DEF loops
    <3> QED
      BY <2>5, <3>3, <3>8
  <2> QED
    BY <2>6, <2>7, <2>8
<1> QED
  BY <1>8, <1>9, <1>10

\* A turn of the loop of Prev.
LEMMA TurnsBack ==
  ASSUME Held(entries, SeenBy), NEW m \in MergeSet, Placed(entries, m), ~m.forward,
         Backward(SeenBy, m),
         NEW it \in IterSet, NEW w, ShowsNewest(SeenBy, shown),
         BackLoop(SeenBy, it, Behind(SeenBy, m), w), TurnBack(it, Entry(m))
  PROVE  Goes(SeenBy, m, w)
<1> DEFINE x == Entry(m)
           seen == SeenBy
           L == Behind(seen, m)
           R == L \ {x}
<1>1. Distinct(All(seen))
  BY HeldDistinct
<1>2. /\ DownClosed(seen, L) /\ it.forward
      /\ \A g \in All(seen) : g.key < it.key => g \in L
      /\ w = Greatest({k \in Has(seen) : k < it.key})
  BY DEF BackLoop
<1>3. /\ \A k \in Has(seen) : k \in UserKeys /\ k \in Nat /\ Newest(seen, k) \in All(seen)
           /\ Newest(seen, k).key = k /\ Newest(seen, k).type = "value"
      /\ \A g \in All(seen) : g \in Points /\ g \in Entries /\ g.key \in UserKeys /\ g.key \in Nat
  <2> HIDE DEF seen
  <2> QED
    BY <1>1, HasFacts
<1>4. L \subseteq All(seen)
  BY <1>2 DEF DownClosed
<1>5. /\ x = NoEntry => L = {}
      /\ x # NoEntry =>
           /\ m.current # "none" /\ x \in Points /\ x \in Entries /\ x.key \in UserKeys
           /\ \A g \in L : ~Before(x, g)
  BY KeyIs
<1>6. it.key \in Nat
  BY EntryPoints, UserKeysAssumption DEF IterSet
<1>7. CASE x = NoEntry
  <2>1. {k \in Has(seen) : k < it.key} = {}
    <3> HIDE DEF L, seen, x
    <3> QED
      BY <1>2, <1>3, <1>5, <1>7
  <2>2. w = End
    BY <1>2, <2>1, GreatestIs
  <2>3. iter' = [it EXCEPT !.valid = FALSE, !.key = End, !.value = 0] /\ Returns(End, 0)
    BY <1>7 DEF TurnBack, FindPrevUserEntry, NoEntry
  <2>4. iter' \in IterSet /\ iter'.valid = FALSE
    BY <2>3, IterUpdates
  <2> HIDE DEF x, seen, L, R
  <2>5. Rests(SeenBy, iter', m, shown', w)
    BY <2>2, <2>3, <2>4, ReturnsIs DEF Rests
  <2> QED
    BY <2>3, <2>4, <2>5, ReturnsIs DEF Goes, Client
<1>8. CASE x # NoEntry /\ x.key >= it.key
  <2>1. iter' = it /\ Calls("prev", "TurnBack")
    <3>1. x.key \in Nat
      BY <1>5, <1>8, UserKeysAssumption
    <3> QED
      BY <1>6, <1>8, <3>1 DEF TurnBack
  <2>2. call'.op = "prev" /\ call'.then = "TurnBack" /\ ~call'.turned /\ call' \in CallSet
        /\ shown' = shown
    BY <2>1, CallsIs
  <2>3. Left(seen, call', m) = R
    BY <2>2 DEF Left
  <2>4. DownClosed(seen, R)
    <3> HIDE DEF L, seen, x
    <3> QED
      BY <1>2, <1>5, <1>8 DEF DownClosed
  <2>5. \A g \in All(seen) : g.key < it.key => g \in R
    <3> HIDE DEF L, seen
    <3>1. x.key \in Nat
      BY <1>5, <1>8, UserKeysAssumption
    <3> QED
      BY <1>2, <1>3, <1>6, <1>8, <3>1
  <2>6. BackLoop(seen, iter', R, w)
    BY <1>2, <2>1, <2>4, <2>5 DEF BackLoop
  <2>7. Runs(seen, call', iter', m, w)
    BY <2>2, <2>3, <2>6 DEF Runs
  <2> HIDE DEF x, L, R
  <2> QED
    BY <1>5, <1>8, <2>1, <2>2, <2>7 DEF Goes, Client, ShowsNewest, x
<1>9. CASE x # NoEntry /\ x.key < it.key
  <2> DEFINE i == [it EXCEPT !.forward = FALSE, !.type = "deletion"]
  <2>1. FindPrevUserEntry(i, x)
    <3>1. x.key \in Nat
      BY <1>5, <1>9, UserKeysAssumption
    <3>2. ~(x.key >= it.key)
      BY <1>6, <1>9, <3>1
    <3> HIDE DEF x
    <3> QED
      BY <1>9, <3>2 DEF TurnBack, x
  <2>3. i \in IterSet /\ i.type = "deletion" /\ ~i.forward
    <3>1. i \in IterSet /\ i.type = "deletion" /\ i.forward = FALSE
      BY IterUpdates
    <3> QED
      BY <3>1
  <2>4. \A g \in L : g.key < it.key
    <3> SUFFICES ASSUME NEW g \in L PROVE g.key < it.key
      OBVIOUS
    <3>1. g.key \in Nat /\ x.key \in Nat /\ g.key <= x.key
      BY <1>3, <1>4, <1>5, <1>9, Order, UserKeysAssumption
    <3> QED
      BY <1>6, <1>9, <3>1
  <2> DEFINE P == {k \in Has(seen) : Newest(seen, k) \in L \/ (i.type = "value" /\ Newest(seen, k) = Saved(i))}
  <2>5. {k \in Has(seen) : k < it.key} = P
    <3> HIDE DEF L, seen, x, i
    <3> QED
      BY <1>2, <1>3, <2>3, <2>4
  <2> HIDE DEF i
  <2>6. PrevLoop(seen, i, L, w)
    BY <1>2, <2>3, <2>5 DEF PrevLoop
  <2> QED
    BY <2>1, <2>3, <2>6, FindPrev
<1> QED
  <2>1. x # NoEntry => x.key \in Nat
    BY <1>5, UserKeysAssumption
  <2> QED
    BY <1>6, <1>7, <1>8, <1>9, <2>1

-----------------------------------------------------------------------------
LEMMA InvFacts ==
  ASSUME IterInv
  PROVE  /\ Held(entries, SeenBy) /\ merge \in MergeSet /\ Placed(entries, merge)
         /\ iter \in IterSet /\ ShowsNewest(SeenBy, shown) /\ call \in CallSet
         /\ sequence \in Nat /\ last \in Nat /\ sequence <= last /\ last <= MaxSeq
         /\ \A g \in All(SeenBy) : g.seq <= sequence
         /\ merge.current # "none" /\ merge.forward => Forward(SeenBy, merge)
         /\ ~merge.forward /\ ~call.turned => Backward(SeenBy, merge)
<1>1. Positions \ {NoEntry} = Entries /\ Positions = Entries \cup {NoEntry}
  BY EntryPoints DEF Positions, Entries
<1>2. /\ entries \in [Children -> SUBSET Entries]
      /\ merge \in MergeSet /\ iter \in IterSet
      /\ last \in Written .. MaxSeq /\ sequence \in 0 .. last
  BY <1>1 DEF IterInv, IterTypeOK, MergeSet, IterSet
<1>3. sequence \in Nat /\ last \in Nat /\ sequence <= last /\ last <= MaxSeq
  BY <1>2, SequenceAssumption
<1>5. Held(entries, SeenBy)
  BY <1>2 DEF Held, IterInv, SeenBy
<1>6. \A g \in All(SeenBy) : g.seq <= sequence
  BY DEF All, SeenBy
<1>7. ShowsNewest(SeenBy, shown)
  BY DEF IterInv, Client, ShowsNewest
<1> QED
  BY <1>2, <1>3, <1>5, <1>6, <1>7 DEF IterInv

\* What the client counts on is what the internal iterator holds.
LEMMA LiveIs ==
  /\ \A k : Visible(k) = Newest(SeenBy, k)
  /\ Live = Has(SeenBy)
<1>1. ASSUME NEW k
      PROVE  Visible(k) = Newest(SeenBy, k)
  <2>1. {e \in UNION {entries[c] : c \in Children} : e.key = k /\ e.seq <= sequence}
          = {e \in All(SeenBy) : e.key = k}
    BY DEF All, SeenBy
  <2> QED
    BY <2>1 DEF Visible, Newest
<1> QED
  BY <1>1 DEF Live, Has

\* A step that leaves the entries keeps the invariant, when the call goes on.
LEMMA GoesOn ==
  ASSUME IterInv, UNCHANGED <<entries, last, sequence>>,
         merge' \in MergeSet, Placed(entries, merge'),
         merge'.forward => Forward(SeenBy, merge'),
         ~merge'.forward => Backward(SeenBy, merge'),
         Goes(SeenBy, merge', wantedKey')
  PROVE  IterInv'
<1>1. SeenBy' = SeenBy
  BY DEF SeenBy
<1>2. Positions \ {NoEntry} = Entries /\ Positions = Entries \cup {NoEntry}
  BY EntryPoints DEF Positions, Entries
<1>3. iter' \in IterSet /\ call' \in CallSet /\ ~call'.turned
      /\ (call'.op \in {"next", "prev"} => merge'.current # "none")
      /\ Client(SeenBy', call', iter', merge', shown', wantedKey')
  BY <1>1 DEF Goes
<1>4. IterTypeOK'
  BY <1>2, <1>3 DEF IterInv, IterTypeOK, MergeSet, IterSet, CallSet
<1>5. Numbered(entries)' /\ (\A c \in Children : \A e \in entries[c] : e.seq <= last)'
      /\ Placed(entries, merge)'
  BY DEF IterInv, Numbered
<1>6. (IF merge.forward \/ call.turned THEN Forward(SeenBy, merge) ELSE Backward(SeenBy, merge))'
  BY <1>1, <1>3 DEF Numbered
<1> QED
  BY <1>3, <1>4, <1>5, <1>6 DEF IterInv

-----------------------------------------------------------------------------
LEMMA Seeks ==
  ASSUME IterInv, NEW t \in UserKeys, IterSeek(t)
  PROVE  Goes(SeenBy, merge, wantedKey')
<1> DEFINE seen == SeenBy
           x == [key |-> t, seq |-> sequence, type |-> "value"]
           L == {g \in All(seen) : ~Before(g, x)}
<1>1. Held(entries, seen) /\ iter \in IterSet /\ ShowsNewest(seen, shown) /\ sequence \in 0 .. MaxSeq
      /\ sequence \in Nat /\ \A g \in All(seen) : g.seq <= sequence
  BY InvFacts, SequenceAssumption
<1>2. Distinct(All(seen)) /\ t \in Nat
  BY <1>1, HeldDistinct, UserKeysAssumption
<1>3. /\ \A k \in Has(seen) : k \in UserKeys /\ k \in Nat /\ Newest(seen, k) \in All(seen)
           /\ Newest(seen, k).key = k /\ Newest(seen, k).type = "value"
      /\ \A g \in All(seen) : g \in Points /\ g \in Entries /\ g.key \in UserKeys /\ g.key \in Nat
  BY <1>2, HasFacts
<1>4. /\ wantedKey' = Least({k \in Has(seen) : k >= t}) /\ shown' = shown
      /\ iter' = [iter EXCEPT !.forward = TRUE, !.key = t, !.value = 0, !.skipping = FALSE]
      /\ call' = [op |-> "seek", target |-> x, then |-> "FindNextUserEntry", turned |-> FALSE]
  BY LiveIs DEF IterSeek, Start, NotCalled
<1>5. iter' \in IterSet /\ iter'.forward /\ ~iter'.skipping
  BY <1>1, <1>4, IterFields DEF IterSet
<1>6. call' \in CallSet /\ call'.op = "seek" /\ call'.then = "FindNextUserEntry" /\ ~call'.turned
      /\ call'.target = x
  BY <1>1, <1>4 DEF CallSet, Types
<1>7. \A g \in All(seen) : g \in L <=> g.key >= t
  <2> SUFFICES ASSUME NEW g \in All(seen) PROVE g \in L <=> g.key >= t
    OBVIOUS
  <2>1. g.key \in Nat /\ g.seq \in Nat /\ g.seq <= sequence
    BY <1>1, <1>3 DEF Points
  <2> QED
    BY <1>1, <1>2, <2>1 DEF Before
<1> HIDE DEF seen, L
<1>8. L \subseteq All(seen)
  BY DEF L
<1>9. {k \in Has(seen) : Newest(seen, k) \in L /\ (iter'.skipping => k > iter'.key)}
        = {k \in Has(seen) : k >= t}
  BY <1>3, <1>5, <1>7
<1>10. UpClosed(seen, L)
  <2> SUFFICES ASSUME NEW g \in L, NEW h \in All(seen), Before(g, h) PROVE h \in L
    BY <1>8 DEF UpClosed
  <2>1. g.key <= h.key /\ g.key \in Nat /\ h.key \in Nat /\ g.key >= t
    BY <1>3, <1>7, <1>8, Order
  <2> QED
    BY <1>2, <1>7, <2>1
<1>11. NextLoop(seen, iter', L, wantedKey')
  BY <1>4, <1>5, <1>7, <1>8, <1>9, <1>10 DEF NextLoop
<1>12. Left(seen, call', merge) = L
  BY <1>6 DEF Left, L
<1>13. Runs(seen, call', iter', merge, wantedKey')
  BY <1>6, <1>11, <1>12 DEF Runs
<1> QED
  BY <1>1, <1>4, <1>5, <1>6, <1>13 DEF Goes, Client, ShowsNewest, seen

LEMMA SeeksToFirst ==
  ASSUME IterInv, IterSeekToFirst
  PROVE  Goes(SeenBy, merge, wantedKey')
<1> DEFINE seen == SeenBy
           L == All(seen)
<1>1. Held(entries, seen) /\ iter \in IterSet /\ ShowsNewest(seen, shown) /\ Distinct(L)
  BY InvFacts, HeldDistinct
<1>2. \A k \in Has(seen) : Newest(seen, k) \in All(seen)
  BY <1>1, HasFacts
<1>3. /\ wantedKey' = Least(Has(seen)) /\ Calls("first", "FindNextUserEntry")
      /\ iter' = [iter EXCEPT !.forward = TRUE, !.value = 0, !.skipping = FALSE]
  BY LiveIs DEF IterSeekToFirst, Start
<1>4. iter' \in IterSet /\ iter'.forward /\ ~iter'.skipping
  BY <1>1, <1>3, IterFields DEF IterSet
<1>5. call' \in CallSet /\ call'.op = "first" /\ call'.then = "FindNextUserEntry" /\ ~call'.turned
      /\ shown' = shown
  BY <1>3, CallsIs
<1> HIDE DEF seen
<1>6. {k \in Has(seen) : Newest(seen, k) \in L /\ (iter'.skipping => k > iter'.key)} = Has(seen)
  BY <1>2, <1>4
<1>7. NextLoop(seen, iter', L, wantedKey')
  BY <1>3, <1>4, <1>6 DEF NextLoop, UpClosed
<1>8. Left(seen, call', merge) = L
  BY <1>5 DEF Left
<1>9. Runs(seen, call', iter', merge, wantedKey')
  BY <1>5, <1>7, <1>8 DEF Runs
<1> QED
  BY <1>1, <1>4, <1>5, <1>9 DEF Goes, Client, ShowsNewest, seen

LEMMA SeeksToLast ==
  ASSUME IterInv, IterSeekToLast
  PROVE  Goes(SeenBy, merge, wantedKey')
<1> DEFINE seen == SeenBy
           L == All(seen)
<1>1. Held(entries, seen) /\ iter \in IterSet /\ ShowsNewest(seen, shown) /\ Distinct(L)
  BY InvFacts, HeldDistinct
<1>2. \A k \in Has(seen) : Newest(seen, k) \in All(seen)
  BY <1>1, HasFacts
<1>3. /\ wantedKey' = Greatest(Has(seen)) /\ Calls("last", "FindPrevUserEntry")
      /\ iter' = [iter EXCEPT !.forward = FALSE, !.value = 0, !.type = "deletion"]
  BY LiveIs DEF IterSeekToLast, Start
<1>4. iter' \in IterSet /\ ~iter'.forward /\ iter'.type = "deletion"
  BY <1>1, <1>3, IterFields DEF IterSet
<1>5. call' \in CallSet /\ call'.op = "last" /\ call'.then = "FindPrevUserEntry" /\ ~call'.turned
      /\ shown' = shown
  BY <1>3, CallsIs
<1> HIDE DEF seen
<1>6. {k \in Has(seen) : Newest(seen, k) \in L \/ (iter'.type = "value" /\ Newest(seen, k) = Saved(iter'))}
        = Has(seen)
  BY <1>2
<1>7. PrevLoop(seen, iter', L, wantedKey')
  BY <1>3, <1>4, <1>6 DEF PrevLoop, DownClosed
<1>8. Left(seen, call', merge) = L
  BY <1>5 DEF Left
<1>9. Runs(seen, call', iter', merge, wantedKey')
  BY <1>5, <1>7, <1>8 DEF Runs
<1> QED
  BY <1>1, <1>4, <1>5, <1>9 DEF Goes, Client, ShowsNewest, seen

\* A valid iterator at rest.
LEMMA AtRest ==
  ASSUME IterInv, call = NotCalled, iter.valid
  PROVE  /\ ShowsForward(SeenBy, iter, merge, shown) \/ ShowsBackward(SeenBy, iter, merge, shown)
         /\ shown.key \in UserKeys /\ shown.key \in Nat
<1>1. Rests(SeenBy, iter, merge, shown, wantedKey)
  BY DEF IterInv, Client, NotCalled
<1>2. shown.key \in UserKeys
  BY <1>1 DEF Rests, IterInv, Client
<1> QED
  BY <1>1, <1>2, UserKeysAssumption DEF Rests

-----------------------------------------------------------------------------
LEMMA MovesNext ==
  ASSUME IterInv, MoveNext
  PROVE  Goes(SeenBy, merge, wantedKey')
<1> DEFINE seen == SeenBy
           x == Entry(merge)
<1>1. /\ Held(entries, seen) /\ iter \in IterSet /\ ShowsNewest(seen, shown) /\ Distinct(All(seen))
      /\ merge \in MergeSet /\ Placed(entries, merge)
      /\ call = NotCalled /\ iter.valid /\ ~call.turned
  BY InvFacts, HeldDistinct DEF MoveNext, Start, NotCalled
<1>2. shown.key \in UserKeys /\ shown.key \in Nat
      /\ (ShowsForward(seen, iter, merge, shown) \/ ShowsBackward(seen, iter, merge, shown))
  BY <1>1, AtRest
<1>3. /\ \A k \in Has(seen) : k \in UserKeys /\ k \in Nat /\ Newest(seen, k) \in All(seen)
           /\ Newest(seen, k).key = k /\ Newest(seen, k).type = "value"
      /\ \A g \in All(seen) : g \in Points /\ g \in Entries /\ g.key \in UserKeys /\ g.key \in Nat
  BY <1>1, HasFacts
<1>4. wantedKey' = Least({k \in Has(seen) : k > shown.key})
  BY LiveIs DEF MoveNext, Start
<1>5. CASE ShowsForward(seen, iter, merge, shown)
  <2> DEFINE it == [iter EXCEPT !.key = x.key, !.skipping = TRUE]
             L == Ahead(seen, merge)
  <2>1. /\ iter.forward /\ merge.forward /\ merge.current # "none" /\ x \in All(seen)
        /\ x.type = "value" /\ x = Newest(seen, x.key) /\ shown.key = x.key
    BY <1>5 DEF ShowsForward
  <2>2. FindNextUserEntry(it, x)
    BY <2>1 DEF MoveNext
  <2>3. x \in Points /\ x.key \in UserKeys /\ x.key \in Nat
    BY <1>3, <2>1
  <2>4. it \in IterSet /\ it.forward /\ it.skipping /\ it.key = x.key
    <3> HIDE DEF x
    <3>1. it \in IterSet /\ it.key = x.key /\ it.skipping = TRUE /\ it.forward = iter.forward
      BY <1>1, <2>3, IterUpdates
    <3> QED
      BY <2>1, <3>1
  <2>5. L = {g \in All(seen) : ~Before(g, x)}
    BY <2>1 DEF Ahead
  <2> HIDE DEF it, L, seen, x
  <2>6. UpClosed(seen, L)
    BY <1>3, <2>3, <2>5, Order DEF UpClosed
  <2>7. (\A g \in All(seen) \ L : g.key <= x.key) /\ (\A h \in L : h.key >= x.key)
    BY <1>3, <2>3, <2>5, Order
  <2>8. {k \in Has(seen) : Newest(seen, k) \in L /\ (it.skipping => k > it.key)}
          = {k \in Has(seen) : k > shown.key}
    <3>1. ASSUME NEW k \in Has(seen), k > shown.key
          PROVE  Newest(seen, k) \in L
      <4>1. ~Before(Newest(seen, k), x)
        BY <1>3, <2>1, <2>3, <3>1 DEF Before
      <4> QED
        BY <1>3, <2>5, <4>1
    <3> QED
      BY <2>1, <2>4, <3>1
  <2>9. NextLoop(seen, it, L, wantedKey')
    <3>1. \A g \in All(seen) \ L, h \in L : g.key = h.key => it.skipping /\ h.key <= it.key
      BY <2>4, <2>7
    <3>2. \A h \in L : h.key >= it.key
      BY <2>4, <2>6, <2>7 DEF UpClosed
    <3> QED
      BY <1>4, <2>4, <2>6, <2>8, <3>1, <3>2 DEF NextLoop
  <2> QED
    BY <1>1, <2>1, <2>2, <2>4, <2>9, FindNext DEF seen, x, L
<1>6. CASE ShowsBackward(seen, iter, merge, shown)
  <2> DEFINE L == {g \in All(seen) : g.key >= shown.key}
             op == IF x = NoEntry THEN "first" ELSE "next"
  <2>1. /\ ~iter.forward /\ ~merge.forward /\ iter.key = shown.key
        /\ Behind(seen, merge) = {g \in All(seen) : g.key < shown.key}
        /\ merge.current # "none" => x \in All(seen)
    BY <1>6 DEF ShowsBackward
  <2>2. iter' = [iter EXCEPT !.forward = TRUE, !.skipping = TRUE] /\ Calls(op, "FindNextUserEntry")
    BY <2>1 DEF MoveNext
  <2>3. iter' \in IterSet /\ iter'.forward /\ iter'.skipping /\ iter'.key = shown.key
    <3>1. iter' = [forward |-> TRUE, valid |-> iter.valid, key |-> iter.key, value |-> iter.value,
                   skipping |-> TRUE, type |-> iter.type]
      BY <1>1, <2>2 DEF IterSet
    <3> QED
      BY <1>1, <2>1, <3>1 DEF IterSet
  <2>4. call' \in CallSet /\ call'.op = op /\ call'.then = "FindNextUserEntry" /\ ~call'.turned
        /\ shown' = shown
    BY <2>2, CallsIs
  <2>5. Backward(seen, merge)
    BY <1>1, <2>1, InvFacts
  <2>6. /\ x = NoEntry => merge.current = "none" /\ Behind(seen, merge) = {}
        /\ x # NoEntry => /\ merge.current # "none" /\ x \in Behind(seen, merge)
                          /\ \A g \in Behind(seen, merge) : ~Before(x, g)
    BY <1>1, <2>1, <2>5, KeyIs
  <2>7. Left(seen, call', merge) = L
    <3> HIDE DEF seen, x
    <3>1. CASE x = NoEntry
      <4>1. \A g \in All(seen) : ~(g.key < shown.key)
        BY <2>1, <2>6, <3>1
      <4>2. All(seen) = L
        BY <1>2, <1>3, <4>1
      <4> QED
        BY <2>4, <3>1, <4>2 DEF Left
    <3>2. CASE x # NoEntry
      <4>1. x \in Points /\ x \in All(seen) /\ x.key < shown.key /\ x.key \in Nat
        BY <1>3, <2>1, <2>6, <3>2
      <4>2. \A g \in All(seen) : Before(x, g) <=> g.key >= shown.key
        <5> SUFFICES ASSUME NEW g \in All(seen) PROVE Before(x, g) <=> g.key >= shown.key
          OBVIOUS
        <5>1. g.key \in Nat /\ g \in Points
          BY <1>3
        <5>2. g.key < shown.key => ~Before(x, g)
          BY <2>1, <2>6, <3>2
        <5>3. g.key >= shown.key => x.key < g.key
          BY <1>2, <4>1, <5>1
        <5> QED
          BY <1>2, <4>1, <5>1, <5>2, <5>3, Order
      <4>3. {g \in All(seen) : Before(x, g)} = L
        BY <4>2
      <4> QED
        BY <2>4, <3>2, <4>3 DEF Left, x
    <3> QED
      BY <3>1, <3>2
  <2> HIDE DEF seen, x
  <2>8. UpClosed(seen, L)
    <3> SUFFICES ASSUME NEW g \in L, NEW h \in All(seen), Before(g, h) PROVE h \in L
      BY DEF UpClosed
    <3>1. g.key <= h.key /\ g.key \in Nat /\ h.key \in Nat
      BY <1>3, Order
    <3> QED
      BY <1>2, <3>1
  <2>9. {k \in Has(seen) : Newest(seen, k) \in L /\ (iter'.skipping => k > iter'.key)}
          = {k \in Has(seen) : k > shown.key}
    BY <1>2, <1>3, <2>3
  <2>10. \A g \in All(seen) \ L, h \in L : g.key # h.key
    OBVIOUS
  <2>11. NextLoop(seen, iter', L, wantedKey')
    BY <1>4, <2>3, <2>8, <2>9, <2>10 DEF NextLoop
  <2>12. Runs(seen, call', iter', merge, wantedKey')
    BY <2>4, <2>7, <2>11 DEF Runs
  <2> QED
    BY <1>1, <2>3, <2>4, <2>6, <2>12 DEF Goes, Client, ShowsNewest, seen
<1> QED
  BY <1>2, <1>5, <1>6

LEMMA MovesPrev ==
  ASSUME IterInv, MovePrev
  PROVE  Goes(SeenBy, merge, wantedKey')
<1> DEFINE seen == SeenBy
           x == Entry(merge)
<1>1. /\ Held(entries, seen) /\ iter \in IterSet /\ ShowsNewest(seen, shown) /\ Distinct(All(seen))
      /\ merge \in MergeSet /\ Placed(entries, merge)
      /\ call = NotCalled /\ iter.valid /\ ~call.turned
  BY InvFacts, HeldDistinct DEF MovePrev, Start, NotCalled
<1>2. shown.key \in UserKeys /\ shown.key \in Nat
      /\ (ShowsForward(seen, iter, merge, shown) \/ ShowsBackward(seen, iter, merge, shown))
  BY <1>1, AtRest
<1>3. /\ \A k \in Has(seen) : k \in UserKeys /\ k \in Nat /\ Newest(seen, k) \in All(seen)
           /\ Newest(seen, k).key = k /\ Newest(seen, k).type = "value"
      /\ \A g \in All(seen) : g \in Points /\ g \in Entries /\ g.key \in UserKeys /\ g.key \in Nat
  BY <1>1, HasFacts
<1>4. wantedKey' = Greatest({k \in Has(seen) : k < shown.key})
  BY LiveIs DEF MovePrev, Start
<1>5. CASE ShowsForward(seen, iter, merge, shown)
  <2> DEFINE L == {g \in All(seen) : Before(g, x)}
  <2>1. /\ iter.forward /\ merge.forward /\ merge.current # "none" /\ x \in All(seen)
        /\ shown.key = x.key
    BY <1>5 DEF ShowsForward
  <2>2. iter' = [iter EXCEPT !.key = x.key] /\ Calls("prev", "TurnBack")
    BY <2>1 DEF MovePrev
  <2>3. x \in Points /\ x.key \in UserKeys /\ x.key \in Nat
    BY <1>3, <2>1
  <2>4. iter' \in IterSet /\ iter'.forward /\ iter'.key = x.key
    <3> HIDE DEF x
    <3>1. iter' = [forward |-> iter.forward, valid |-> iter.valid, key |-> x.key, value |-> iter.value,
                   skipping |-> iter.skipping, type |-> iter.type]
      BY <1>1, <2>2 DEF IterSet
    <3> QED
      BY <1>1, <2>1, <2>3, <3>1 DEF IterSet
  <2>5. call' \in CallSet /\ call'.op = "prev" /\ call'.then = "TurnBack" /\ ~call'.turned
        /\ shown' = shown
    BY <2>2, CallsIs
  <2>6. Left(seen, call', merge) = L
    BY <2>1, <2>5 DEF Left
  <2> HIDE DEF seen, x
  <2>7. DownClosed(seen, L)
    BY <1>3, <2>3, Order DEF DownClosed
  <2>8. \A g \in All(seen) : g.key < iter'.key => g \in L
    BY <1>3, <2>3, <2>4, Order
  <2>9. BackLoop(seen, iter', L, wantedKey')
    BY <1>4, <2>1, <2>4, <2>7, <2>8 DEF BackLoop
  <2>10. Runs(seen, call', iter', merge, wantedKey')
    BY <2>5, <2>6, <2>9 DEF Runs
  <2> QED
    BY <1>1, <2>1, <2>4, <2>5, <2>10 DEF Goes, Client, ShowsNewest, seen
<1>6. CASE ShowsBackward(seen, iter, merge, shown)
  <2> DEFINE it == [iter EXCEPT !.type = "deletion"]
             L == Behind(seen, merge)
  <2>1. /\ ~iter.forward /\ ~merge.forward
        /\ L = {g \in All(seen) : g.key < shown.key}
    BY <1>6 DEF ShowsBackward
  <2>2. FindPrevUserEntry(it, x)
    BY <2>1 DEF MovePrev
  <2>3. it \in IterSet /\ ~it.forward /\ it.type = "deletion"
    <3>1. it \in IterSet /\ it.type = "deletion" /\ it.forward = iter.forward
      BY <1>1, IterUpdates
    <3> QED
      BY <2>1, <3>1
  <2>4. Backward(seen, merge)
    BY <1>1, <2>1, InvFacts
  <2>5. DownClosed(seen, L)
    BY <2>4 DEF Backward
  <2> HIDE DEF it, L, seen, x
  <2>6. {k \in Has(seen) : Newest(seen, k) \in L \/ (it.type = "value" /\ Newest(seen, k) = Saved(it))}
          = {k \in Has(seen) : k < shown.key}
    BY <1>3, <2>1, <2>3
  <2>7. PrevLoop(seen, it, L, wantedKey')
    BY <1>4, <2>3, <2>5, <2>6 DEF PrevLoop
  <2> QED
    BY <1>1, <2>1, <2>2, <2>3, <2>4, <2>7, FindPrev DEF seen, x, L
<1> QED
  BY <1>2, <1>5, <1>6

-----------------------------------------------------------------------------
\* The internal call that the client's call waits for.
LEMMA Running ==
  ASSUME IterInv, call # NotCalled
  PROVE  /\ Runs(SeenBy, call, iter, merge, wantedKey) /\ call.op # "none"
         /\ call.op \in {"next", "prev"} => merge.current # "none"
         /\ merge.forward => Forward(SeenBy, merge)
         /\ call.op = "next" /\ call.turned => Forward(SeenBy, merge)
         /\ call.op = "prev" /\ ~merge.forward => ~call.turned /\ Backward(SeenBy, merge)
BY DEF IterInv, Client

LEMMA TurnKeeps ==
  ASSUME IterInv, InternalTurn
  PROVE  IterInv'
<1> DEFINE seen == SeenBy
<1>1. /\ Held(entries, seen) /\ merge \in MergeSet /\ Placed(entries, merge) /\ call \in CallSet
      /\ ShowsNewest(seen, shown)
  BY InvFacts
<1>2. /\ call # NotCalled /\ call.op = (IF merge.forward THEN "prev" ELSE "next") /\ merge' = Turn
      /\ UNCHANGED <<entries, last, sequence, iter, shown, wantedKey>>
      /\ call' = [call EXCEPT !.turned = TRUE]
  BY DEF InternalTurn, Turns
<1>3. Runs(seen, call, iter, merge, wantedKey) /\ merge.current # "none"
  BY <1>2, Running
<1>4. /\ merge' \in MergeSet /\ Placed(entries, merge') /\ Forward(seen, merge')
      /\ merge'.forward = merge.forward /\ merge'.current = merge.current
      /\ Entry(merge') = Entry(merge)
  BY <1>1, <1>2, <1>3, TurnIs
<1>5. /\ call' \in CallSet /\ call'.op = call.op /\ call'.then = call.then /\ call'.turned
      /\ call'.target = call.target
  <2>1. call' = [op |-> call.op, target |-> call.target, then |-> call.then, turned |-> TRUE]
    BY <1>1, <1>2 DEF CallSet
  <2> QED
    BY <1>1, <2>1 DEF CallSet
<1>6. seen' = seen
  BY <1>2 DEF SeenBy
<1>7. Left(seen, call', merge') = Left(seen, call, merge)
  BY <1>2, <1>4, <1>5 DEF Left
<1>8. Runs(seen, call', iter', merge', wantedKey')
  BY <1>2, <1>3, <1>4, <1>5, <1>7 DEF Runs
<1>9. call'.op # "none"
  BY <1>2, <1>5
<1>10. Client(SeenBy', call', iter', merge', shown', wantedKey')
  BY <1>1, <1>2, <1>6, <1>8, <1>9 DEF Client, ShowsNewest
<1>11. IterTypeOK'
  <2>1. Positions = Entries \cup {NoEntry}
    BY DEF Positions, Entries
  <2> QED
    BY <1>2, <1>3, <1>4, <1>5, <2>1 DEF IterInv, IterTypeOK, MergeSet, CallSet
<1>12. Numbered(entries)' /\ (\A c \in Children : \A e \in entries[c] : e.seq <= last)'
       /\ Placed(entries, merge)'
  BY <1>2, <1>4 DEF IterInv, Numbered
<1>13. Forward(SeenBy, merge)'
  BY <1>4, <1>6
<1> QED
  BY <1>2, <1>3, <1>4, <1>5, <1>10, <1>11, <1>12, <1>13 DEF IterInv

LEMMA CallKeeps ==
  ASSUME IterInv, InternalCall
  PROVE  IterInv'
<1> DEFINE seen == SeenBy
           L == Left(seen, call, merge)
           x == Entry(merge')
<1>1. /\ Held(entries, seen) /\ merge \in MergeSet /\ Placed(entries, merge) /\ call \in CallSet
      /\ ShowsNewest(seen, shown) /\ iter \in IterSet
  BY InvFacts
<1>2. /\ call # NotCalled /\ (Turns => call.turned) /\ merge' = Called /\ Continue(iter, x)
      /\ UNCHANGED <<entries, last, sequence, wantedKey>>
  BY DEF InternalCall
<1>3. /\ Runs(seen, call, iter, merge, wantedKey) /\ call.op # "none"
      /\ call.op \in {"next", "prev"} => merge.current # "none"
      /\ merge.forward => Forward(seen, merge)
      /\ call.op = "next" /\ call.turned => Forward(seen, merge)
      /\ call.op = "prev" /\ ~merge.forward => ~call.turned /\ Backward(seen, merge)
  BY <1>2, Running
<1>4. call.op \in {"first", "last", "seek", "next", "prev"}
  BY <1>1, <1>3 DEF CallSet
<1>5. After(seen, merge', L) /\ merge'.forward = (call.op \notin {"last", "prev"})
  <2>1. CASE call.op = "first"
    <3>1. merge' = SeekFirst /\ L = All(seen)
      BY <1>2, <2>1 DEF Called, Left
    <3> QED
      BY <1>1, <2>1, <3>1, SeekCalls DEF After, MergeSet
  <2>2. CASE call.op = "last"
    <3>1. merge' = SeekLast /\ L = All(seen)
      BY <1>2, <2>2 DEF Called, Left
    <3> QED
      BY <1>1, <2>2, <3>1, SeekCalls DEF After, MergeSet
  <2>3. CASE call.op = "seek"
    <3>1. merge' = SeekTo(call.target) /\ L = {g \in All(seen) : ~Before(g, call.target)}
      BY <1>2, <2>3 DEF Called, Left
    <3>2. call.target \in Points
      <4>1. 0 .. MaxSeq \subseteq Nat /\ UserKeys \cup {End} \subseteq Nat
        BY SequenceAssumption, UserKeysAssumption
      <4> QED
        BY <1>1, <4>1 DEF CallSet, Points
    <3> QED
      BY <1>1, <2>3, <3>1, <3>2, SeekCalls DEF After, MergeSet
  <2>4. CASE call.op = "next"
    <3>1. merge' = MergeNext /\ L = {g \in All(seen) : Before(Entry(merge), g)}
      BY <1>2, <2>4 DEF Called, Left
    <3>2. Forward(seen, merge)
      BY <1>2, <1>3, <2>4 DEF Turns
    <3> QED
      BY <1>1, <1>3, <2>4, <3>1, <3>2, NextCall DEF After, MergeSet
  <2>5. CASE call.op = "prev"
    <3>1. merge' = MergePrev
          /\ L = IF merge.forward THEN {g \in All(seen) : Before(g, Entry(merge))}
                 ELSE Behind(seen, merge) \ {Entry(merge)}
      BY <1>2, <2>5 DEF Called, Left
    <3>2. IF merge.forward THEN Forward(seen, merge) ELSE Backward(seen, merge)
      BY <1>3, <2>5
    <3> QED
      BY <1>1, <1>3, <2>5, <3>1, <3>2, PrevCall DEF After, MergeSet
  <2> QED
    BY <1>4, <2>1, <2>2, <2>3, <2>4, <2>5
<1> HIDE DEF L
<1>6. /\ merge' \in MergeSet /\ Placed(entries, merge')
      /\ merge'.forward => Forward(seen, merge') /\ Ahead(seen, merge') = L
      /\ ~merge'.forward => Backward(seen, merge') /\ Behind(seen, merge') = L
  BY <1>5 DEF After
<1>7. Goes(seen, merge', wantedKey')
  <2>1. CASE call.then = "FindNextUserEntry" /\ call.op \in {"first", "seek", "next"}
             /\ NextLoop(seen, iter, L, wantedKey)
    <3>1. FindNextUserEntry(iter, x) /\ merge'.forward
      BY <1>2, <1>5, <2>1 DEF Continue
    <3> HIDE DEF x, seen
    <3>2. NextLoop(SeenBy, iter, Ahead(SeenBy, merge'), wantedKey')
      BY <1>2, <1>6, <2>1, <3>1 DEF seen
    <3>3. Held(entries, SeenBy) /\ ShowsNewest(SeenBy, shown) /\ FindNextUserEntry(iter, Entry(merge'))
      BY <1>1, <3>1 DEF seen, x
    <3>4. ASSUME NEW m, m = merge' PROVE Goes(SeenBy, m, wantedKey')
      BY <1>1, <1>6, <3>1, <3>2, <3>3, <3>4, FindNext
    <3> QED
      BY <3>4 DEF seen
  <2>2. CASE call.then = "FindPrevUserEntry" /\ call.op \in {"last", "prev"}
             /\ PrevLoop(seen, iter, L, wantedKey)
    <3>1. FindPrevUserEntry(iter, x) /\ ~merge'.forward
      BY <1>2, <1>5, <2>2 DEF Continue
    <3> HIDE DEF x, seen
    <3>2. PrevLoop(SeenBy, iter, Behind(SeenBy, merge'), wantedKey') /\ Backward(SeenBy, merge')
      BY <1>2, <1>6, <2>2, <3>1 DEF seen
    <3>3. Held(entries, SeenBy) /\ ShowsNewest(SeenBy, shown) /\ FindPrevUserEntry(iter, Entry(merge'))
      BY <1>1, <3>1 DEF seen, x
    <3>4. ASSUME NEW m, m = merge' PROVE Goes(SeenBy, m, wantedKey')
      BY <1>1, <1>6, <3>1, <3>2, <3>3, <3>4, FindPrev
    <3> QED
      BY <3>4 DEF seen
  <2>3. CASE call.then = "TurnBack" /\ call.op = "prev" /\ BackLoop(seen, iter, L, wantedKey)
    <3>1. TurnBack(iter, x) /\ ~merge'.forward
      BY <1>2, <1>5, <2>3 DEF Continue
    <3> HIDE DEF x, seen
    <3>2. BackLoop(SeenBy, iter, Behind(SeenBy, merge'), wantedKey') /\ Backward(SeenBy, merge')
      BY <1>2, <1>6, <2>3, <3>1 DEF seen
    <3>3. Held(entries, SeenBy) /\ ShowsNewest(SeenBy, shown) /\ TurnBack(iter, Entry(merge'))
      BY <1>1, <3>1 DEF seen, x
    <3>4. ASSUME NEW m, m = merge' PROVE Goes(SeenBy, m, wantedKey')
      BY <1>1, <1>6, <3>1, <3>2, <3>3, <3>4, TurnsBack
    <3> QED
      BY <3>4 DEF seen
  <2> QED
    BY <1>3, <2>1, <2>2, <2>3 DEF Runs, L
<1> QED
  BY <1>2, <1>6, <1>7, GoesOn

\* The snapshot sees nothing of what is written after it.
LEMMA WriteKeeps ==
  ASSUME IterInv, NEW k \in UserKeys, NEW ty \in Types, Write(k, ty)
  PROVE  IterInv'
<1> DEFINE e == [key |-> k, seq |-> last + 1, type |-> ty]
<1>1. /\ sequence \in Nat /\ last \in Nat /\ sequence <= last /\ last < MaxSeq /\ MaxSeq \in Nat
      /\ Held(entries, SeenBy)
  BY InvFacts, SequenceAssumption DEF Write
<1>2. /\ entries' = [entries EXCEPT !["mem"] = @ \cup {e}] /\ last' = last + 1
      /\ UNCHANGED <<sequence, merge, iter, call, shown, wantedKey>>
  BY DEF Write
<1>3. e \in Entries /\ e.seq = last + 1
  BY <1>1 DEF Entries
<1>4. "mem" \in Children
  BY DEF Children
<1> HIDE DEF e
<1>5. entries' \in [Children -> SUBSET Entries]
      /\ \A c \in Children : entries'[c] = entries[c] \cup (IF c = "mem" THEN {e} ELSE {})
  BY <1>1, <1>2, <1>3, <1>4 DEF Held
<1>6. \A c \in Children : \A f \in entries[c] : f.seq <= last /\ f.seq \in Nat
  BY <1>1, EntryPoints DEF IterInv, Held
<1>7. SeenBy' = SeenBy
  <2>1. \A c \in Children :
          {f \in entries'[c] : f.seq <= sequence} = {f \in entries[c] : f.seq <= sequence}
    BY <1>1, <1>3, <1>5
  <2> QED
    BY <1>2, <2>1 DEF SeenBy
<1>8. Numbered(entries')
  BY <1>1, <1>3, <1>5, <1>6 DEF Held, Numbered
<1>9. Placed(entries', merge')
  BY <1>2, <1>5 DEF IterInv, Placed
<1>10. \A c \in Children : \A f \in entries'[c] : f.seq <= last'
  BY <1>1, <1>2, <1>3, <1>5, <1>6
<1>11. IterTypeOK'
  <2>1. Positions \ {NoEntry} = Entries
    BY EntryPoints DEF Positions, Entries
  <2>2. last' \in Written .. MaxSeq /\ sequence' \in 0 .. last'
    BY <1>1, <1>2, SequenceAssumption DEF IterInv, IterTypeOK
  <2> QED
    BY <1>2, <1>5, <2>1, <2>2 DEF IterInv, IterTypeOK
<1>12. Client(SeenBy', call', iter', merge', shown', wantedKey')
  BY <1>2, <1>7 DEF IterInv
<1>13. (IF merge.forward \/ call.turned THEN Forward(SeenBy, merge) ELSE Backward(SeenBy, merge))'
  BY <1>2, <1>7 DEF IterInv
<1> QED
  BY <1>2, <1>8, <1>9, <1>10, <1>11, <1>12, <1>13 DEF IterInv

-----------------------------------------------------------------------------
LEMMA IterInitInv == IterInit => IterInv
<1> SUFFICES ASSUME IterInit PROVE IterInv
  OBVIOUS
<1>1. PICK w \in [1 .. Written -> UserKeys \X Types], place \in [1 .. Written -> Children] :
        entries = [c \in Children |-> {[key |-> w[s][1], seq |-> s, type |-> w[s][2]] :
                                         s \in {r \in 1 .. Written : place[r] = c}}]
  BY DEF IterInit, Filled
<1>2. /\ last = Written /\ sequence \in 0 .. Written
      /\ merge = [at |-> [c \in Children |-> NoEntry], current |-> "none", forward |-> TRUE]
      /\ iter = [forward |-> TRUE, valid |-> FALSE, key |-> End, value |-> 0,
                 skipping |-> FALSE, type |-> "deletion"]
      /\ call = NotCalled /\ shown = [key |-> End, seq |-> 0] /\ wantedKey = End
  BY DEF IterInit, Made
<1>3. Written \in Nat /\ MaxSeq \in Nat /\ Written <= MaxSeq
  BY SequenceAssumption
<1>4. \A c \in Children : \A e \in entries[c] :
        e \in Entries /\ e.seq <= Written
        /\ e = [key |-> w[e.seq][1], seq |-> e.seq, type |-> w[e.seq][2]] /\ place[e.seq] = c
  <2> SUFFICES ASSUME NEW c \in Children, NEW e \in entries[c]
               PROVE  e \in Entries /\ e.seq <= Written
                      /\ e = [key |-> w[e.seq][1], seq |-> e.seq, type |-> w[e.seq][2]]
                      /\ place[e.seq] = c
    OBVIOUS
  <2>1. PICK s \in 1 .. Written : place[s] = c /\ e = [key |-> w[s][1], seq |-> s, type |-> w[s][2]]
    BY <1>1
  <2>2. w[s][1] \in UserKeys /\ w[s][2] \in Types /\ s \in 1 .. MaxSeq /\ s <= Written
    BY <1>3
  <2> QED
    BY <2>1, <2>2 DEF Entries
<1>5. entries \in [Children -> SUBSET Entries]
  BY <1>1, <1>4
<1>6. Numbered(entries)
  BY <1>4 DEF Numbered
<1>7. NotCalled \in CallSet /\ NotCalled.op = "none" /\ ~NotCalled.turned
  BY <1>3 DEF NotCalled, NoEntry, CallSet
<1>8. Placed(entries, merge) /\ merge.forward /\ Forward(SeenBy, merge)
  BY <1>2 DEF Placed, Forward
<1>9. IterTypeOK
  <2>1. Positions \ {NoEntry} = Entries /\ NoEntry \in Positions
    BY EntryPoints DEF Positions, Entries
  <2>2. merge \in [at : [Children -> Positions], current : Children \cup {"none"}, forward : BOOLEAN]
    BY <1>2, <2>1
  <2>3. iter \in [forward : BOOLEAN, valid : BOOLEAN, key : UserKeys \cup {End}, value : 0 .. MaxSeq,
                  skipping : BOOLEAN, type : Types]
    BY <1>2, <1>3 DEF Types
  <2> QED
    BY <1>2, <1>3, <1>5, <1>7, <2>1, <2>2, <2>3 DEF IterTypeOK
<1>10. Client(SeenBy, call, iter, merge, shown, wantedKey)
  <2>1. Rests(SeenBy, iter, merge, shown, wantedKey)
    BY <1>2 DEF Rests
  <2> QED
    BY <1>2, <1>7, <2>1 DEF Client
<1> QED
  BY <1>2, <1>4, <1>6, <1>7, <1>8, <1>9, <1>10 DEF IterInv

LEMMA IterNextInv == IterInv /\ [IterNext]_iterVars => IterInv'
<1> SUFFICES ASSUME IterInv, [IterNext]_iterVars PROVE IterInv'
  OBVIOUS
<1>1. ASSUME UNCHANGED <<entries, last, sequence, merge>>, Goes(SeenBy, merge, wantedKey'), ~call.turned
      PROVE  IterInv'
  <2>1. Goes(SeenBy, merge', wantedKey')
    BY <1>1 DEF Goes
  <2>2. /\ merge' \in MergeSet /\ Placed(entries, merge')
        /\ merge'.forward => Forward(SeenBy, merge')
        /\ ~merge'.forward => Backward(SeenBy, merge')
    BY <1>1, InvFacts DEF Forward
  <2> QED
    BY <1>1, <2>1, <2>2, GoesOn
<1>2. CASE \E t \in UserKeys : IterSeek(t)
  BY <1>1, <1>2, Seeks DEF IterSeek, Start, NotCalled
<1>3. CASE IterSeekToFirst
  BY <1>1, <1>3, SeeksToFirst DEF IterSeekToFirst, Start, NotCalled
<1>4. CASE IterSeekToLast
  BY <1>1, <1>4, SeeksToLast DEF IterSeekToLast, Start, NotCalled
<1>5. CASE MoveNext
  BY <1>1, <1>5, MovesNext DEF MoveNext, Start, NotCalled
<1>6. CASE MovePrev
  BY <1>1, <1>6, MovesPrev DEF MovePrev, Start, NotCalled
<1>7. CASE InternalTurn
  BY <1>7, TurnKeeps
<1>8. CASE InternalCall
  BY <1>8, CallKeeps
<1>9. CASE \E k \in UserKeys, ty \in Types : Write(k, ty)
  BY <1>9, WriteKeeps
<1>10. CASE UNCHANGED iterVars
  BY <1>10 DEF iterVars, IterInv, IterTypeOK, SeenBy
<1> QED
  BY <1>2, <1>3, <1>4, <1>5, <1>6, <1>7, <1>8, <1>9, <1>10 DEF IterNext

\* The invariant of the iterator.
THEOREM IterInvariant == IterSpec => []IterInv
<1> QED
  BY IterInitInv, IterNextInv, PTL DEF IterSpec

LEMMA ExactInInv == IterInv => IteratorExact
<1> SUFFICES ASSUME IterInv PROVE IteratorExact
  OBVIOUS
<1> DEFINE seen == SeenBy
<1>1. Held(entries, seen) /\ merge \in MergeSet /\ Placed(entries, merge)
      /\ (merge.current # "none" /\ merge.forward => Forward(seen, merge))
      /\ (~merge.forward /\ ~call.turned => Backward(seen, merge))
  BY InvFacts
<1>2. IterTypeOK
  BY DEF IterInv
<1>3. ShowsNeighbour
  BY DEF IterInv, Client, Rests, NotCalled, ShowsNeighbour
<1>4. ShowsLatest
  BY LiveIs DEF IterInv, Client, ShowsLatest
<1>5. NonePassedOver
  <2> DEFINE x == Entry(merge)
  <2> SUFFICES ASSUME merge.current # "none", x.seq <= sequence, ~call.turned,
                      NEW c \in Children \ {merge.current}, NEW f \in entries[c], f.seq <= sequence
               PROVE  IF merge.forward
                      THEN ~(Before(x, f) /\ (merge.at[c] = NoEntry \/ Before(f, merge.at[c])))
                      ELSE ~(Before(f, x) /\ (merge.at[c] = NoEntry \/ Before(merge.at[c], f)))
    BY DEF NonePassedOver
  <2>1. f \in seen[c] /\ f \in All(seen) /\ f \in Points
    <3>1. f \in seen[c]
      BY DEF SeenBy
    <3> QED
      BY <1>1, <3>1, HeldDistinct, EntryPoints DEF Held
  <2>2. x \in Points /\ x \in All(seen) /\ x \in Behind(seen, merge)
    BY <1>1, KeyIs
  <2>3. CASE merge.forward
    <3>1. (merge.at[c] # NoEntry /\ ~Before(f, merge.at[c])) <=> ~Before(f, x)
      BY <1>1, <2>1, <2>3 DEF Forward
    <3>2. Before(x, f) => ~Before(f, x)
      BY <2>1, <2>2, Order
    <3> QED
      BY <2>3, <3>1, <3>2
  <2>4. CASE ~merge.forward
    <3>1. Before(f, x) => f \in Behind(seen, merge)
      BY <1>1, <2>1, <2>2, <2>4 DEF Backward, DownClosed
    <3>2. f \in Behind(seen, merge) => merge.at[c] # NoEntry /\ ~Before(merge.at[c], f)
      <4> SUFFICES ASSUME f \in Behind(seen, merge)
                   PROVE  merge.at[c] # NoEntry /\ ~Before(merge.at[c], f)
        OBVIOUS
      <4>1. PICK d \in Children : f \in seen[d] /\ merge.at[d] # NoEntry /\ ~Before(merge.at[d], f)
        BY DEF Behind
      <4>2. d = c
        BY <1>1, <4>1 DEF Held, Numbered
      <4> QED
        BY <4>1, <4>2
    <3> QED
      BY <2>4, <3>1, <3>2
  <2> QED
    BY <2>3, <2>4
<1> QED
  BY <1>2, <1>3, <1>4, <1>5 DEF IteratorExact

\* Whatever is written meanwhile, and in whichever directions its client goes,
\* a call shows the key next to the one shown, of those the snapshot has, with
\* the newest value it sees of it (DBIter::Next, Prev and Seek).
THEOREM AlwaysIteratorExact == IterSpec => []IteratorExact
<1> QED
  BY IterInvariant, ExactInInv, PTL

-----------------------------------------------------------------------------
(***************************************************************************)
(* LRUCache: what refs, the two lists and usage_ say is right for any      *)
(* clients (Sound); each call keeps that, with the references its caller   *)
(* takes or drops; so the invariant holds with the references that the     *)
(* threads hold.                                                           *)
(***************************************************************************)
\* What the entries of S are charged.
ChargeOf(en, S) == MapThenSumSet(LAMBDA e : Charge(en[e].key), S)

\* How MapThenSumSet adds them up.
One(s) == CHOOSE x \in s : TRUE
Adds(g, en, S) ==
  \A s \in SUBSET S :
    g[s] = IF s = {} THEN 0 ELSE Charge(en[One(s)].key) + g[s \ {One(s)}]

LEMMA ChargeSteps ==
  ASSUME NEW en, NEW S, IsFiniteSet(S)
  PROVE  \E g : ChargeOf(en, S) = g[S] /\ Adds(g, en, S)
<1> DEFINE G(g, s) == IF s = {} THEN 0 ELSE Charge(en[One(s)].key) + g[s \ {One(s)}]
           Upto(m) == {s \in SUBSET S : Cardinality(s) <= m}
           C(g, m) == g = [s \in Upto(m) |-> G(g, s)]
           n == Cardinality(S)
           T == {m \in 0 .. n : ~\E g : C(g, m)}
<1>1. n \in Nat /\ \A s \in SUBSET S : IsFiniteSet(s) /\ Cardinality(s) \in Nat /\ Cardinality(s) <= n
  BY FS_CardinalityType, FS_Subset
<1>2. ASSUME NEW s \in SUBSET S, s # {}
      PROVE  One(s) \in s /\ s \ {One(s)} \in SUBSET S /\ Cardinality(s \ {One(s)}) = Cardinality(s) - 1
  <2>1. One(s) \in s
    BY <1>2 DEF One
  <2> QED
    BY <1>1, <2>1, FS_RemoveElement
<1>3. T = {}
  <2> SUFFICES ASSUME T # {} PROVE FALSE
    OBVIOUS
  <2>1. PICK m \in T : \A k \in T : m <= k
    <3>1. T \subseteq Nat
      OBVIOUS
    <3> HIDE DEF T
    <3> QED
      BY <3>1, LeastNumber
  <2>2. m \in 0 .. n /\ ~\E g : C(g, m)
    OBVIOUS
  <2>3. CASE m = 0
    <3> DEFINE e == [s \in Upto(0) |-> 0]
    <3>1. \A s \in Upto(0) : s = {}
      BY <1>1, FS_EmptySet
    <3>2. \A s \in Upto(0) : G(e, s) = 0
      BY <3>1
    <3>3. C(e, 0)
      BY <3>2
    <3> QED
      BY <2>2, <2>3, <3>3
  <2>4. CASE m # 0
    <3>1. m - 1 \in 0 .. n /\ m - 1 \notin T
      <4>1. m \in Nat /\ m - 1 \in 0 .. n /\ ~(m <= m - 1)
        BY <1>1, <2>2, <2>4
      <4> HIDE DEF T
      <4> QED
        BY <2>1, <4>1
    <3>2. PICK f : C(f, m - 1)
      BY <3>1
    <3> DEFINE g == [s \in Upto(m) |-> G(f, s)]
    <3>3. ASSUME NEW s \in Upto(m)
          PROVE  G(g, s) = G(f, s)
      <4>1. CASE s = {}
        BY <4>1
      <4>2. CASE s # {}
        <5> DEFINE r == s \ {One(s)}
        <5>1. r \in Upto(m - 1) /\ r \in Upto(m)
          BY <1>1, <1>2, <2>2, <4>2
        <5>2. g[r] = G(f, r)
          BY <5>1
        <5>3. f[r] = G(f, r)
          <6> HIDE DEF G, Upto, r
          <6> QED
            BY <3>2, <5>1
        <5>4. g[r] = f[r]
          BY <5>2, <5>3
        <5> HIDE DEF g
        <5> QED
          BY <4>2, <5>4
      <4> QED
        BY <4>1, <4>2
    <3>4. C(g, m)
      <4> HIDE DEF G, Upto
      <4> QED
        BY <3>3
    <3> QED
      BY <2>2, <3>4
  <2> QED
    BY <2>3, <2>4
<1>4. Upto(n) = SUBSET S
  BY <1>1
<1>5. PICK g : g = [s \in SUBSET S |-> G(g, s)] /\ ChargeOf(en, S) = g[S]
  <2> DEFINE D(g) == g = [s \in SUBSET S |-> G(g, s)]
  <2>1. \E g : D(g)
    <3> HIDE DEF G, Upto
    <3>1. \E g : C(g, n)
      BY <1>1, <1>3
    <3> QED
      BY <1>4, <3>1
  <2>2. D(CHOOSE g : D(g))
    <3> HIDE DEF D
    <3> QED
      BY <2>1
  <2>3. ChargeOf(en, S) = (CHOOSE g : D(g))[S]
    BY DEF ChargeOf, MapThenSumSet, MapThenFoldSet, One
  <2> QED
    BY <2>2, <2>3
<1>6. \A s \in SUBSET S : g[s] = G(g, s)
  <2> HIDE DEF G
  <2> QED
    BY <1>5
<1> QED
  BY <1>5, <1>6 DEF Adds

\* It does not matter in which order, nor what the entries outside are.
LEMMA ChargeAgrees ==
  ASSUME NEW a, NEW b, NEW S, NEW R, NEW g, NEW h, Adds(g, a, S), Adds(h, b, R),
         NEW s, s \in SUBSET S, s \in SUBSET R, IsFiniteSet(s), \A x \in s : a[x].key = b[x].key
  PROVE  g[s] = h[s]
<1> DEFINE Bad == {r \in SUBSET s : g[r] # h[r]}
           T == {Cardinality(r) : r \in Bad}
<1>1. \A r \in SUBSET s : IsFiniteSet(r) /\ Cardinality(r) \in Nat
  BY FS_CardinalityType, FS_Subset
<1>2. Bad = {}
  <2> SUFFICES ASSUME Bad # {} PROVE FALSE
    OBVIOUS
  <2>1. T \subseteq Nat /\ T # {}
    BY <1>1
  <2>2. PICK m \in T : \A k \in T : m <= k
    <3> HIDE DEF T
    <3> QED
      BY <2>1, LeastNumber
  <2>3. PICK r \in Bad : m = Cardinality(r)
    OBVIOUS
  <2>4. r \in SUBSET S /\ r \in SUBSET R /\ r \in SUBSET s /\ g[r] # h[r]
    OBVIOUS
  <2>5. r # {}
    BY <2>4 DEF Adds
  <2> DEFINE q == r \ {One(r)}
  <2>6. One(r) \in r
    BY <2>5 DEF One
  <2>7. q \in SUBSET s /\ Cardinality(q) = m - 1
    BY <1>1, <2>3, <2>4, <2>6, FS_RemoveElement
  <2>8. q \notin Bad
    <3>1. m \in Nat /\ ~(m <= Cardinality(q))
      BY <1>1, <2>3, <2>7
    <3> HIDE DEF q, Bad
    <3> QED
      BY <2>2, <3>1
  <2>9. g[q] = h[q]
    BY <2>7, <2>8
  <2>10. g[r] = Charge(a[One(r)].key) + g[q] /\ h[r] = Charge(b[One(r)].key) + h[q]
    BY <2>4, <2>5 DEF Adds
  <2>11. a[One(r)].key = b[One(r)].key
    BY <2>4, <2>6
  <2> HIDE DEF q
  <2> QED
    BY <2>4, <2>9, <2>10, <2>11
<1> QED
  BY <1>2

LEMMA ChargeAdds ==
  ASSUME NEW en, NEW S, IsFiniteSet(S), NEW g, Adds(g, en, S),
         \A x \in S : Charge(en[x].key) \in Nat \ {0}
  PROVE  \A s \in SUBSET S :
           /\ g[s] \in Nat /\ Cardinality(s) <= g[s]
           /\ \A y \in s : g[s] = Charge(en[y].key) + g[s \ {y}]
<1> DEFINE P(s) == /\ g[s] \in Nat /\ Cardinality(s) <= g[s]
                   /\ \A y \in s : g[s] = Charge(en[y].key) + g[s \ {y}]
           Bad == {r \in SUBSET S : ~P(r)}
           T == {Cardinality(r) : r \in Bad}
<1>1. \A r \in SUBSET S : IsFiniteSet(r) /\ Cardinality(r) \in Nat
  BY FS_CardinalityType, FS_Subset
<1>2. \A r \in SUBSET S : \A y \in r : Cardinality(r \ {y}) = Cardinality(r) - 1
  BY <1>1, FS_RemoveElement
<1>3. Bad = {}
  <2> SUFFICES ASSUME Bad # {} PROVE FALSE
    OBVIOUS
  <2>1. T \subseteq Nat /\ T # {}
    BY <1>1
  <2>2. PICK m \in T : \A k \in T : m <= k
    <3> HIDE DEF T
    <3> QED
      BY <2>1, LeastNumber
  <2>3. PICK r \in Bad : m = Cardinality(r)
    OBVIOUS
  <2>4. r \in SUBSET S /\ ~P(r)
    OBVIOUS
  <2>5. r # {}
    <3> SUFFICES ASSUME r = {} PROVE FALSE
      OBVIOUS
    <3>1. g[r] = 0 /\ Cardinality(r) = 0
      BY <2>4, FS_EmptySet DEF Adds
    <3> QED
      BY <2>4, <3>1
  <2> DEFINE x == One(r)
             q == r \ {x}
  <2>6. x \in r
    BY <2>5 DEF One
  <2>7. \A s \in SUBSET S : Cardinality(s) < Cardinality(r) => P(s)
    <3> SUFFICES ASSUME NEW s \in SUBSET S, Cardinality(s) < Cardinality(r), ~P(s) PROVE FALSE
      OBVIOUS
    <3>1. s \in Bad
      OBVIOUS
    <3>2. Cardinality(s) \in T
      BY <3>1
    <3>3. m <= Cardinality(s) /\ m = Cardinality(r)
      BY <2>2, <2>3, <3>2
    <3>4. Cardinality(s) \in Nat /\ Cardinality(r) \in Nat
      BY <1>1, <2>4
    <3> HIDE DEF P, T, Bad
    <3> QED
      BY <3>3, <3>4
  <2>8. g[r] = Charge(en[x].key) + g[q]
    BY <2>4, <2>5 DEF Adds
  <2>9. Charge(en[x].key) \in Nat \ {0} /\ Cardinality(r) \in Nat /\ Cardinality(q) = Cardinality(r) - 1
        /\ q \in SUBSET S
    BY <1>1, <1>2, <2>4, <2>6
  <2> HIDE DEF x, q
  <2>10. P(q)
    BY <2>7, <2>9
  <2>11. g[r] \in Nat /\ Cardinality(r) <= g[r]
    <3>1. g[q] \in Nat /\ Cardinality(q) <= g[q]
      BY <2>10
    <3> HIDE DEF P
    <3> QED
      BY <2>8, <2>9, <3>1
  <2>12. ASSUME NEW y \in r
         PROVE  g[r] = Charge(en[y].key) + g[r \ {y}]
    <3>1. CASE y = x
      BY <2>8, <3>1 DEF q
    <3>2. CASE y # x
      <4> DEFINE p == r \ {y}
                 z == r \ {x, y}
      <4>1. x \in p /\ y \in q /\ p \ {x} = z /\ q \ {y} = z /\ p \in SUBSET S /\ z \in SUBSET S
        BY <2>4, <2>6, <3>2 DEF q
      <4>2. Cardinality(p) = Cardinality(r) - 1 /\ Cardinality(r) \in Nat
        BY <1>1, <1>2, <2>4
      <4>3. Cardinality(z) = Cardinality(p) - 1 /\ Cardinality(p) \in Nat
        BY <1>1, <1>2, <4>1
      <4>4. Charge(en[y].key) \in Nat
        BY <2>4
      <4> HIDE DEF p, z
      <4>5. P(p) /\ P(z)
        BY <2>7, <4>1, <4>2, <4>3
      <4>6. g[q] = Charge(en[y].key) + g[z]
        BY <2>10, <4>1
      <4>7. g[p] = Charge(en[x].key) + g[z]
        BY <4>1, <4>5
      <4>8. g[z] \in Nat
        BY <4>5
      <4>9. g[r] = Charge(en[y].key) + g[p]
        <5> HIDE DEF P
        <5> QED
          BY <2>8, <2>9, <4>4, <4>6, <4>7, <4>8
      <4> QED
        BY <4>9 DEF p
    <3> QED
      BY <3>1, <3>2
  <2> QED
    BY <2>4, <2>11, <2>12
<1> QED
  BY <1>3

\* The sum over a set: of none, with one more, and how many it is at least.
Charging(en, S) == IsFiniteSet(S) /\ \A x \in S : Charge(en[x].key) \in Nat \ {0}

LEMMA ChargeNone == \A en : ChargeOf(en, {}) = 0
<1> SUFFICES ASSUME NEW en PROVE ChargeOf(en, {}) = 0
  OBVIOUS
<1>1. PICK g : ChargeOf(en, {}) = g[{}] /\ Adds(g, en, {})
  BY ChargeSteps, FS_EmptySet
<1> QED
  BY <1>1 DEF Adds

LEMMA ChargeSame ==
  ASSUME NEW a, NEW b, NEW S, IsFiniteSet(S), \A x \in S : a[x].key = b[x].key
  PROVE  ChargeOf(a, S) = ChargeOf(b, S)
<1>1. PICK g : ChargeOf(a, S) = g[S] /\ Adds(g, a, S)
  BY ChargeSteps
<1>2. PICK h : ChargeOf(b, S) = h[S] /\ Adds(h, b, S)
  BY ChargeSteps
<1>3. S \in SUBSET S
  OBVIOUS
<1>4. g[S] = h[S]
  BY <1>1, <1>2, <1>3, ChargeAgrees
<1> QED
  BY <1>1, <1>2, <1>4

LEMMA ChargeIs ==
  ASSUME NEW en, NEW S, Charging(en, S)
  PROVE  /\ ChargeOf(en, S) \in Nat /\ Cardinality(S) <= ChargeOf(en, S)
         /\ \A y \in S : ChargeOf(en, S) = Charge(en[y].key) + ChargeOf(en, S \ {y})
<1>1. PICK g : ChargeOf(en, S) = g[S] /\ Adds(g, en, S)
  BY ChargeSteps DEF Charging
<1>2. S \in SUBSET S /\ IsFiniteSet(S)
  BY DEF Charging
<1>3. /\ g[S] \in Nat /\ Cardinality(S) <= g[S]
      /\ \A y \in S : g[S] = Charge(en[y].key) + g[S \ {y}]
  <2>1. \A x \in S : Charge(en[x].key) \in Nat \ {0}
    BY DEF Charging
  <2> QED
    BY <1>1, <1>2, <2>1, ChargeAdds
<1>4. ASSUME NEW y \in S
      PROVE  ChargeOf(en, S \ {y}) = g[S \ {y}]
  <2> DEFINE r == S \ {y}
  <2>1. IsFiniteSet(r) /\ r \in SUBSET S /\ r \in SUBSET r
    BY <1>2, FS_Subset
  <2> HIDE DEF r
  <2>2. PICK h : ChargeOf(en, r) = h[r] /\ Adds(h, en, r)
    BY <2>1, ChargeSteps
  <2>3. h[r] = g[r]
    BY <1>1, <2>1, <2>2, ChargeAgrees
  <2> QED
    BY <2>2, <2>3 DEF r
<1> QED
  BY <1>1, <1>3, <1>4

\* A list that an entry leaves.
LEMMA RemoveAtIs ==
  ASSUME NEW S, NEW s \in Seq(S), NEW i \in 1 .. Len(s)
  PROVE  /\ RemoveAt(s, i) \in Seq(S) /\ Len(RemoveAt(s, i)) = Len(s) - 1
         /\ \A j \in 1 .. (Len(s) - 1) : RemoveAt(s, i)[j] = IF j < i THEN s[j] ELSE s[j + 1]
<1> DEFINE n == Len(s)
           a == SubSeq(s, 1, i - 1)
           b == SubSeq(s, i + 1, n)
<1>1. n \in Nat /\ i \in 1 .. n /\ \A k \in 1 .. n : s[k] \in S
  BY LenProperties, ElementOfSeq
<1>2. a \in Seq(S) /\ Len(a) = i - 1 /\ \A j \in 1 .. (i - 1) : a[j] = s[j]
  <2>1. \A k \in 1 .. (i - 1) : s[k] \in S
    BY <1>1
  <2>2. /\ a \in Seq(S) /\ Len(a) = IF 1 <= i - 1 THEN i - 1 - 1 + 1 ELSE 0
        /\ \A j \in 1 .. (i - 1) - 1 + 1 : a[j] = s[1 + j - 1]
    BY <1>1, <2>1, SubSeqProperties
  <2> HIDE DEF a
  <2> QED
    BY <1>1, <2>2
<1>3. b \in Seq(S) /\ Len(b) = n - i /\ \A j \in 1 .. (n - i) : b[j] = s[i + j]
  <2>1. \A k \in (i + 1) .. n : s[k] \in S
    BY <1>1
  <2>2. /\ b \in Seq(S) /\ Len(b) = IF i + 1 <= n THEN n - (i + 1) + 1 ELSE 0
        /\ \A j \in 1 .. n - (i + 1) + 1 : b[j] = s[(i + 1) + j - 1]
    BY <1>1, <2>1, SubSeqProperties
  <2> HIDE DEF b, n
  <2>3. ASSUME NEW j \in 1 .. (n - i)
        PROVE  b[j] = s[i + j]
    <3>1. j \in 1 .. n - (i + 1) + 1 /\ (i + 1) + j - 1 = i + j
      BY <1>1
    <3> QED
      BY <2>2, <3>1
  <2>4. Len(b) = n - i
    BY <1>1, <2>2
  <2> QED
    BY <2>2, <2>3, <2>4
<1> HIDE DEF a, b, n
<1>4. /\ a \o b \in Seq(S) /\ Len(a \o b) = n - 1
      /\ \A j \in 1 .. (n - 1) : (a \o b)[j] = IF j <= i - 1 THEN a[j] ELSE b[j - (i - 1)]
  <2>1. /\ a \o b \in Seq(S) /\ Len(a \o b) = Len(a) + Len(b)
        /\ \A j \in 1 .. Len(a) + Len(b) : (a \o b)[j] = IF j <= Len(a) THEN a[j] ELSE b[j - Len(a)]
    BY <1>2, <1>3, ConcatProperties
  <2>2. Len(a) + Len(b) = n - 1
    BY <1>1, <1>2, <1>3
  <2> QED
    BY <1>2, <2>1, <2>2
<1>5. ASSUME NEW j \in 1 .. (n - 1)
      PROVE  (a \o b)[j] = IF j < i THEN s[j] ELSE s[j + 1]
  <2>1. CASE j < i
    BY <1>1, <1>2, <1>4, <2>1
  <2>2. CASE ~(j < i)
    <3>1. j - (i - 1) \in 1 .. (n - i) /\ i + (j - (i - 1)) = j + 1 /\ ~(j <= i - 1)
      BY <1>1, <2>2
    <3> QED
      BY <1>3, <1>4, <2>2, <3>1
  <2> QED
    BY <2>1, <2>2
<1> QED
  BY <1>1, <1>4, <1>5 DEF RemoveAt, a, b, n

LEMMA RemoveFirstIs ==
  ASSUME NEW q \in Seq(Slots), IsInjective(q), NEW e
  PROVE  /\ RemoveFirst(q, e) \in Seq(Slots) /\ IsInjective(RemoveFirst(q, e))
         /\ Range(RemoveFirst(q, e)) = Range(q) \ {e}
         /\ Len(q) > 0 /\ e = q[1] =>
              /\ Len(RemoveFirst(q, e)) = Len(q) - 1
              /\ \A j \in 1 .. (Len(q) - 1) : RemoveFirst(q, e)[j] = q[j + 1]
<1> DEFINE n == Len(q)
<1>1. n \in Nat /\ DOMAIN q = 1 .. n /\ \A i, j \in 1 .. n : q[i] = q[j] => i = j
  BY LenProperties DEF IsInjective
<1>2. Range(q) = {q[i] : i \in 1 .. n}
  BY <1>1 DEF Range
<1>3. CASE ~\E i \in 1 .. n : q[i] = e
  <2>1. RemoveFirst(q, e) = q
    BY <1>3 DEF RemoveFirst
  <2>2. e \notin Range(q)
    BY <1>2, <1>3
  <2>3. ~(Len(q) > 0 /\ e = q[1])
    BY <1>1, <1>3
  <2> QED
    BY <2>1, <2>2, <2>3
<1>4. ASSUME NEW i \in 1 .. n, q[i] = e
      PROVE  /\ RemoveFirst(q, e) \in Seq(Slots) /\ IsInjective(RemoveFirst(q, e))
             /\ Range(RemoveFirst(q, e)) = Range(q) \ {e}
             /\ Len(q) > 0 /\ e = q[1] =>
                  /\ Len(RemoveFirst(q, e)) = Len(q) - 1
                  /\ \A j \in 1 .. (Len(q) - 1) : RemoveFirst(q, e)[j] = q[j + 1]
  <2> DEFINE r == RemoveAt(q, i)
  <2>1. RemoveFirst(q, e) = r
    <3>1. {j \in 1 .. n : q[j] = e} = {i}
      BY <1>1, <1>4
    <3>2. Min({i}) = i
      BY <1>1 DEF Min
    <3>3. SelectInSeq(q, LAMBDA v : v = e) = i
      BY <3>1, <3>2 DEF SelectInSeq
    <3> QED
      BY <1>4, <3>3 DEF RemoveFirst
  <2>2. /\ r \in Seq(Slots) /\ Len(r) = n - 1
        /\ \A j \in 1 .. (n - 1) : r[j] = IF j < i THEN q[j] ELSE q[j + 1]
    BY RemoveAtIs
  <2> HIDE DEF r
  <2>3. DOMAIN r = 1 .. (n - 1)
    BY <2>2, LenProperties
  <2> HIDE DEF n
  <2>4. ASSUME NEW j \in 1 .. (n - 1), NEW k \in 1 .. (n - 1), r[j] = r[k]
        PROVE  j = k
    <3> DEFINE p(x) == IF x < i THEN x ELSE x + 1
    <3>1. p(j) \in 1 .. n /\ p(k) \in 1 .. n /\ r[j] = q[p(j)] /\ r[k] = q[p(k)]
      BY <1>1, <2>2
    <3>2. p(j) = p(k)
      BY <1>1, <2>4, <3>1
    <3> QED
      BY <1>1, <3>2
  <2>5. IsInjective(r)
    BY <2>3, <2>4 DEF IsInjective
  <2>6. ASSUME NEW x
        PROVE  (\E j \in 1 .. (n - 1) : x = r[j]) <=> (\E j \in 1 .. n : x = q[j]) /\ x # e
    <3>1. ASSUME NEW j \in 1 .. (n - 1), x = r[j]
          PROVE  (\E k \in 1 .. n : x = q[k]) /\ x # e
      <4>1. CASE j < i
        BY <1>1, <1>4, <2>2, <3>1, <4>1
      <4>2. CASE ~(j < i)
        <5>1. j + 1 \in 1 .. n /\ j + 1 # i /\ x = q[j + 1]
          BY <1>1, <2>2, <3>1, <4>2
        <5> QED
          BY <1>1, <1>4, <5>1
      <4> QED
        BY <4>1, <4>2
    <3>2. ASSUME NEW j \in 1 .. n, x = q[j], x # e
          PROVE  \E k \in 1 .. (n - 1) : x = r[k]
      <4>1. j # i
        BY <1>4, <3>2
      <4>2. CASE j < i
        BY <1>1, <2>2, <3>2, <4>2
      <4>3. CASE j > i
        <5>1. j - 1 \in 1 .. (n - 1) /\ ~(j - 1 < i) /\ (j - 1) + 1 = j
          BY <1>1, <4>3
        <5> QED
          BY <2>2, <3>2, <5>1
      <4> QED
        BY <1>1, <4>1, <4>2, <4>3
    <3> QED
      BY <3>1, <3>2
  <2>7. Range(r) = Range(q) \ {e}
    <3>1. Range(r) = {r[j] : j \in 1 .. (n - 1)}
      BY <2>3 DEF Range
    <3> QED
      BY <1>2, <2>6, <3>1
  <2>8. e = q[1] => i = 1
    BY <1>1, <1>4
  <2>9. e = q[1] => Len(r) = n - 1 /\ \A j \in 1 .. (n - 1) : r[j] = q[j + 1]
    BY <1>1, <2>2, <2>8
  <2> QED
    BY <2>1, <2>2, <2>5, <2>7, <2>9 DEF n
<1> QED
  BY <1>3, <1>4

LEMMA AppendIs ==
  ASSUME NEW q \in Seq(Slots), IsInjective(q), NEW e \in Slots, e \notin Range(q)
  PROVE  /\ Append(q, e) \in Seq(Slots) /\ IsInjective(Append(q, e))
         /\ Range(Append(q, e)) = Range(q) \cup {e}
<1> DEFINE n == Len(q)
           r == Append(q, e)
<1>1. n \in Nat /\ DOMAIN q = 1 .. n /\ \A i, j \in 1 .. n : q[i] = q[j] => i = j
  BY LenProperties DEF IsInjective
<1>2. Range(q) = {q[i] : i \in 1 .. n}
  BY <1>1 DEF Range
<1>3. r \in Seq(Slots) /\ Len(r) = n + 1 /\ (\A i \in 1 .. n : r[i] = q[i]) /\ r[n + 1] = e
  BY AppendProperties
<1>4. DOMAIN r = 1 .. (n + 1)
  BY <1>3, LenProperties
<1> HIDE DEF n, r
<1>5. \A i \in 1 .. (n + 1) : i \in 1 .. n \/ i = n + 1
  BY <1>1
<1>6. \A i \in 1 .. n : i \in 1 .. (n + 1) /\ r[i] # e
  BY <1>1, <1>2, <1>3
<1>7. IsInjective(r)
  BY <1>1, <1>3, <1>4, <1>5, <1>6 DEF IsInjective
<1>8. Range(r) = Range(q) \cup {e}
  <2>1. Range(r) = {r[i] : i \in 1 .. (n + 1)} /\ n + 1 \in 1 .. (n + 1)
    BY <1>1, <1>4 DEF Range
  <2> QED
    BY <1>2, <1>3, <1>5, <1>6, <2>1
<1> QED
  BY <1>3, <1>7, <1>8 DEF r

Handles == [key : Files \cup {None}, refs : Nat, in_cache : BOOLEAN]
Shards == [entry : [Slots -> Handles], table : [Files -> Slots \cup {None}], lru : Seq(Slots),
           in_use : SUBSET Slots, usage : Nat]

\* The entries of a shard that are in the cache.
Kept(c) == {e \in Slots : c.entry[e].in_cache}

\* A shard whose clients hold h[e] references to an entry e: what refs, the two
\* lists and usage_ say is right.
Listed(c, h) ==
  /\ c \in Shards /\ h \in [Slots -> Nat]
  /\ \A e \in Slots : /\ c.entry[e].refs = h[e] + (IF c.entry[e].in_cache THEN 1 ELSE 0)
                      /\ c.entry[e].refs = 0 => c.entry[e] = Free
                      /\ c.entry[e].refs > 0 => c.entry[e].key \in Files
  /\ \A k \in Files : c.table[k] # None => c.table[k] \in Kept(c) /\ c.entry[c.table[k]].key = k
  /\ IsInjective(c.lru) /\ Range(c.lru) = {e \in Kept(c) : c.entry[e].refs = 1}
  /\ c.in_use = {e \in Kept(c) : c.entry[e].refs >= 2}
  /\ c.usage = ChargeOf(c.entry, Kept(c))

\* ... and the table finds every entry; all but one, that is to be erased.
Sound(c, h) == Listed(c, h) /\ \A e \in Kept(c) : c.table[c.entry[e].key] = e
Leaving(c, h, x) ==
  /\ Listed(c, h) /\ x \in Kept(c) /\ \A k \in Files : c.table[k] # x
  /\ \A e \in Kept(c) \ {x} : c.table[c.entry[e].key] = e

LEMMA SlotNames == None \notin Slots /\ None \notin Files /\ IsFiniteSet(Slots)
BY CacheAssumption

LEMMA ListedIs ==
  ASSUME NEW c, NEW h, Listed(c, h)
  PROVE  /\ c = [entry |-> c.entry, table |-> c.table, lru |-> c.lru, in_use |-> c.in_use,
                 usage |-> c.usage]
         /\ c.entry \in [Slots -> Handles] /\ c.table \in [Files -> Slots \cup {None}]
         /\ c.lru \in Seq(Slots) /\ c.in_use \subseteq Slots /\ c.usage \in Nat
         /\ \A e \in Slots :
              /\ c.entry[e] = [key |-> c.entry[e].key, refs |-> c.entry[e].refs,
                               in_cache |-> c.entry[e].in_cache]
              /\ c.entry[e].refs \in Nat /\ c.entry[e].in_cache \in BOOLEAN
         /\ \A e \in Kept(c) : e \in Slots /\ c.entry[e].key \in Files /\ c.entry[e].refs > 0
         /\ Charging(c.entry, Kept(c))
<1>1. c \in Shards
  BY DEF Listed
<1>2. \A e \in Slots : c.entry[e] \in Handles
  BY <1>1 DEF Shards
<1>3. \A e \in Slots :
              /\ c.entry[e] = [key |-> c.entry[e].key, refs |-> c.entry[e].refs,
                               in_cache |-> c.entry[e].in_cache]
              /\ c.entry[e].refs \in Nat /\ c.entry[e].in_cache \in BOOLEAN
  BY <1>2 DEF Handles
<1>4. ASSUME NEW e \in Kept(c)
      PROVE  e \in Slots /\ c.entry[e].key \in Files /\ c.entry[e].refs > 0
  <2>1. e \in Slots /\ c.entry[e].in_cache /\ c.entry[e].refs = h[e] + 1 /\ h[e] \in Nat
    BY DEF Kept, Listed
  <2>2. c.entry[e].refs > 0
    BY <2>1
  <2> QED
    BY <2>1, <2>2 DEF Listed
<1>5. Charging(c.entry, Kept(c))
  <2>1. IsFiniteSet(Kept(c))
    <3>1. Kept(c) \in SUBSET Slots
      BY DEF Kept
    <3> QED
      BY <3>1, SlotNames, FS_Subset
  <2> QED
    BY <1>4, <2>1, CacheAssumption DEF Charging
<1> QED
  BY <1>1, <1>3, <1>4, <1>5 DEF Shards

\* The members of a shard and of an entry that a call sets.
LEMMA Fields ==
  ASSUME NEW en, NEW ta, NEW lr, NEW us, NEW ch, NEW k, NEW r, NEW b
  PROVE  /\ LET c == [entry |-> en, table |-> ta, lru |-> lr, in_use |-> us, usage |-> ch]
            IN  c.entry = en /\ c.table = ta /\ c.lru = lr /\ c.in_use = us /\ c.usage = ch
         /\ LET e == [key |-> k, refs |-> r, in_cache |-> b]
            IN  e.key = k /\ e.refs = r /\ e.in_cache = b
OBVIOUS

\* The entry x of a shard changes, and its place on the lists with it.
Changed(c, x, v, lr, us, ch) ==
  [entry |-> [c.entry EXCEPT ![x] = v], table |-> c.table, lru |-> lr, in_use |-> us, usage |-> ch]

LEMMA HandleChanges ==
  ASSUME NEW e \in Handles, NEW v
  PROVE  /\ \A r : v = [e EXCEPT !.refs = r] => v = [key |-> e.key, refs |-> r, in_cache |-> e.in_cache]
         /\ \A b : v = [e EXCEPT !.in_cache = b] => v = [key |-> e.key, refs |-> e.refs, in_cache |-> b]
BY DEF Handles

LEMMA RefIs ==
  ASSUME NEW c, NEW h, Listed(c, h), NEW x \in Slots
  PROVE  Ref(c, x) =
           Changed(c, x, [key |-> c.entry[x].key, refs |-> c.entry[x].refs + 1,
                          in_cache |-> c.entry[x].in_cache],
                   IF c.entry[x].refs = 1 /\ c.entry[x].in_cache THEN RemoveFirst(c.lru, x) ELSE c.lru,
                   IF c.entry[x].in_cache THEN c.in_use \cup {x} ELSE c.in_use, c.usage)
<1>1. c \in Shards /\ c.entry[x] \in Handles
  BY DEF Listed, Shards
<1> PICK d : d = Ref(c, x)
  OBVIOUS
<1> PICK v : v = [c.entry[x] EXCEPT !.refs = c.entry[x].refs + 1]
  OBVIOUS
<1>2. v = [key |-> c.entry[x].key, refs |-> c.entry[x].refs + 1, in_cache |-> c.entry[x].in_cache]
  BY <1>1, HandleChanges
<1> DEFINE lr == IF c.entry[x].refs = 1 /\ c.entry[x].in_cache THEN RemoveFirst(c.lru, x) ELSE c.lru
           us == IF c.entry[x].in_cache THEN c.in_use \cup {x} ELSE c.in_use
<1>3. d = [c EXCEPT !.entry[x].refs = c.entry[x].refs + 1, !.lru = lr, !.in_use = us]
  BY DEF Ref
<1> HIDE DEF lr, us
<1>4. d = [entry |-> [c.entry EXCEPT ![x] = v], table |-> c.table, lru |-> lr, in_use |-> us,
           usage |-> c.usage]
  BY <1>1, <1>3 DEF Shards
<1> QED
  BY <1>2, <1>4 DEF Changed, lr, us

LEMMA UnrefIs ==
  ASSUME NEW c, NEW h, Listed(c, h), NEW x \in Slots
  PROVE  /\ c.entry[x].refs = 1 =>
              Unref(c, x) = Changed(c, x, Free, c.lru, c.in_use, c.usage)
         /\ c.entry[x].refs = 2 /\ c.entry[x].in_cache =>
              Unref(c, x) = Changed(c, x, [key |-> c.entry[x].key, refs |-> 1, in_cache |-> TRUE],
                                    Append(c.lru, x), c.in_use \ {x}, c.usage)
         /\ c.entry[x].refs # 1 /\ ~(c.entry[x].refs = 2 /\ c.entry[x].in_cache) =>
              Unref(c, x) = Changed(c, x, [key |-> c.entry[x].key, refs |-> c.entry[x].refs - 1,
                                           in_cache |-> c.entry[x].in_cache],
                                    c.lru, c.in_use, c.usage)
<1>1. c \in Shards /\ c.entry[x] \in Handles
  BY DEF Listed, Shards
<1> PICK d : d = Unref(c, x)
  OBVIOUS
<1>2. CASE c.entry[x].refs = 1
  <2>1. d = [c EXCEPT !.entry[x] = Free]
    BY <1>2 DEF Unref
  <2>2. d = [entry |-> [c.entry EXCEPT ![x] = Free], table |-> c.table, lru |-> c.lru,
             in_use |-> c.in_use, usage |-> c.usage]
    BY <1>1, <2>1 DEF Shards
  <2> QED
    BY <1>2, <2>2 DEF Changed
<1>3. CASE c.entry[x].refs = 2 /\ c.entry[x].in_cache
  <2> PICK v : v = [c.entry[x] EXCEPT !.refs = 1]
    OBVIOUS
  <2>1. v = [key |-> c.entry[x].key, refs |-> 1, in_cache |-> c.entry[x].in_cache]
    BY <1>1, HandleChanges
  <2>2. d = [c EXCEPT !.entry[x].refs = 1, !.in_use = c.in_use \ {x}, !.lru = Append(c.lru, x)]
    BY <1>3 DEF Unref
  <2>3. d = [entry |-> [c.entry EXCEPT ![x] = v], table |-> c.table, lru |-> Append(c.lru, x),
             in_use |-> c.in_use \ {x}, usage |-> c.usage]
    BY <1>1, <2>2 DEF Shards
  <2>4. c.entry[x].in_cache = TRUE
    BY <1>1, <1>3 DEF Handles
  <2> QED
    BY <1>3, <2>1, <2>3, <2>4 DEF Changed
<1>4. CASE c.entry[x].refs # 1 /\ ~(c.entry[x].refs = 2 /\ c.entry[x].in_cache)
  <2> PICK v : v = [c.entry[x] EXCEPT !.refs = c.entry[x].refs - 1]
    OBVIOUS
  <2>1. v = [key |-> c.entry[x].key, refs |-> c.entry[x].refs - 1, in_cache |-> c.entry[x].in_cache]
    BY <1>1, HandleChanges
  <2>2. d = [c EXCEPT !.entry[x].refs = c.entry[x].refs - 1]
    BY <1>4 DEF Unref
  <2>3. d = [entry |-> [c.entry EXCEPT ![x] = v], table |-> c.table, lru |-> c.lru,
             in_use |-> c.in_use, usage |-> c.usage]
    BY <1>1, <2>2 DEF Shards
  <2> QED
    BY <1>4, <2>1, <2>3 DEF Changed
<1> QED
  BY <1>2, <1>3, <1>4

LEMMA ChargeChanges ==
  ASSUME NEW c, NEW h, Listed(c, h), NEW x \in Slots, NEW v
  PROVE  LET en == [c.entry EXCEPT ![x] = v] IN
         /\ x \in Kept(c) /\ v.key = c.entry[x].key => ChargeOf(en, Kept(c)) = c.usage
         /\ x \in Kept(c) => /\ ChargeOf(en, Kept(c) \ {x}) = c.usage - Charge(c.entry[x].key)
                             /\ c.usage - Charge(c.entry[x].key) \in Nat
         /\ x \notin Kept(c) => ChargeOf(en, Kept(c)) = c.usage
         /\ x \notin Kept(c) /\ v.key \in Files =>
              /\ ChargeOf(en, Kept(c) \cup {x}) = c.usage + Charge(v.key)
              /\ c.usage + Charge(v.key) \in Nat
<1> DEFINE en == [c.entry EXCEPT ![x] = v]
           K == Kept(c)
<1>1. /\ c.entry \in [Slots -> Handles] /\ Charging(c.entry, K) /\ c.usage = ChargeOf(c.entry, K)
      /\ c.usage \in Nat /\ K \subseteq Slots /\ IsFiniteSet(K)
  <2>1. c.usage = ChargeOf(c.entry, K) /\ K \subseteq Slots
    BY DEF Listed, Kept
  <2>2. c.entry \in [Slots -> Handles] /\ Charging(c.entry, K) /\ c.usage \in Nat
    BY ListedIs
  <2> QED
    BY <2>1, <2>2 DEF Charging
<1>2. \A e \in Slots : en[e] = IF e = x THEN v ELSE c.entry[e]
  BY <1>1
<1> HIDE DEF en, K
<1>3. ASSUME NEW S, IsFiniteSet(S), S \subseteq Slots, x \notin S
      PROVE  ChargeOf(en, S) = ChargeOf(c.entry, S)
  BY <1>2, <1>3, ChargeSame
<1>4. x \in K /\ v.key = c.entry[x].key => ChargeOf(en, K) = c.usage
  BY <1>1, <1>2, ChargeSame
<1>5. ASSUME x \in K
      PROVE  /\ ChargeOf(en, K \ {x}) = c.usage - Charge(c.entry[x].key)
             /\ c.usage - Charge(c.entry[x].key) \in Nat
  <2> DEFINE R == K \ {x}
  <2>1. IsFiniteSet(R) /\ Charging(c.entry, R) /\ R \subseteq Slots /\ x \notin R
    BY <1>1, FS_RemoveElement DEF Charging
  <2>2. ChargeOf(c.entry, K) = Charge(c.entry[x].key) + ChargeOf(c.entry, R)
    BY <1>1, <1>5, ChargeIs
  <2> HIDE DEF R
  <2>3. ChargeOf(c.entry, R) \in Nat /\ ChargeOf(en, R) = ChargeOf(c.entry, R)
    BY <1>3, <2>1, ChargeIs
  <2>4. Charge(c.entry[x].key) \in Nat
    BY <1>1, <1>5 DEF Charging
  <2>5. ChargeOf(en, R) = c.usage - Charge(c.entry[x].key) /\ c.usage - Charge(c.entry[x].key) \in Nat
    BY <1>1, <2>2, <2>3, <2>4
  <2> QED
    BY <2>5 DEF R
<1>6. x \notin K => ChargeOf(en, K) = c.usage
  BY <1>1, <1>3
<1>7. ASSUME x \notin K, v.key \in Files
      PROVE  /\ ChargeOf(en, K \cup {x}) = c.usage + Charge(v.key)
             /\ c.usage + Charge(v.key) \in Nat
  <2> DEFINE R == K \cup {x}
  <2>1. IsFiniteSet(R)
    BY <1>1, FS_AddElement
  <2>2. Charging(en, R)
    <3>1. ASSUME NEW e \in R PROVE Charge(en[e].key) \in Nat \ {0}
      <4>1. CASE e = x
        BY <1>2, <1>7, <4>1, CacheAssumption
      <4>2. CASE e # x
        BY <1>1, <1>2, <4>2 DEF Charging
      <4> QED
        BY <4>1, <4>2
    <3> QED
      BY <2>1, <3>1 DEF Charging
  <2>3. ChargeOf(en, R) = Charge(en[x].key) + ChargeOf(en, R \ {x})
    BY <2>2, ChargeIs
  <2>4. R \ {x} = K /\ en[x] = v
    BY <1>2, <1>7
  <2>5. ChargeOf(en, K) = c.usage /\ Charge(v.key) \in Nat
    BY <1>6, <1>7, CacheAssumption
  <2> HIDE DEF R
  <2>6. ChargeOf(en, R) = Charge(v.key) + c.usage
    BY <2>3, <2>4, <2>5
  <2>7. ChargeOf(en, R) = c.usage + Charge(v.key) /\ c.usage + Charge(v.key) \in Nat
    BY <1>1, <2>5, <2>6
  <2> QED
    BY <2>7 DEF R
<1> QED
  BY <1>4, <1>5, <1>6, <1>7 DEF en, K

\* An entry changes and moves to the list that its references call for.
OneIf(b, x) == IF b THEN {x} ELSE {}

\* The clients now hold n references to x.
HoldsNow(h, x, n) == [h EXCEPT ![x] = n]

Fits(c, x, v, lr, us, ch, n) ==
  /\ v \in Handles /\ lr \in Seq(Slots) /\ ch \in Nat /\ n \in Nat
  /\ v.refs = n + (IF v.in_cache THEN 1 ELSE 0)
  /\ v.refs = 0 => v = Free
  /\ v.refs > 0 => v.key \in Files
  /\ \A k \in Files : c.table[k] = x => v.in_cache /\ v.key = k
  /\ IsInjective(lr) /\ Range(lr) = (Range(c.lru) \ {x}) \cup OneIf(v.in_cache /\ v.refs = 1, x)
  /\ us = (c.in_use \ {x}) \cup OneIf(v.in_cache /\ v.refs >= 2, x)
  /\ ch = ChargeOf([c.entry EXCEPT ![x] = v], (Kept(c) \ {x}) \cup OneIf(v.in_cache, x))

LEMMA ChangedListed ==
  ASSUME NEW c, NEW h, Listed(c, h), NEW x \in Slots, NEW v, NEW lr, NEW us, NEW ch, NEW n,
         Fits(c, x, v, lr, us, ch, n)
  PROVE  LET d == Changed(c, x, v, lr, us, ch) IN
         /\ Listed(d, HoldsNow(h, x, n))
         /\ Kept(d) = (Kept(c) \ {x}) \cup OneIf(v.in_cache, x)
         /\ d.table = c.table /\ d.lru = lr /\ d.usage = ch
         /\ \A e \in Slots : d.entry[e] = IF e = x THEN v ELSE c.entry[e]
<1> DEFINE en == [c.entry EXCEPT ![x] = v]
           g == HoldsNow(h, x, n)
           new == OneIf(v.in_cache, x)
<1> PICK d : d = Changed(c, x, v, lr, us, ch)
  OBVIOUS
<1>1. c.entry \in [Slots -> Handles] /\ c.table \in [Files -> Slots \cup {None}]
      /\ c.in_use \subseteq Slots
  BY ListedIs
<1>2. d.entry = en /\ d.table = c.table /\ d.lru = lr /\ d.in_use = us /\ d.usage = ch
      /\ d = [entry |-> en, table |-> c.table, lru |-> lr, in_use |-> us, usage |-> ch]
  BY DEF Changed
<1>3. \A e \in Slots : d.entry[e] = IF e = x THEN v ELSE c.entry[e]
  BY <1>1, <1>2
<1>4. h \in [Slots -> Nat]
  BY DEF Listed
<1>5. v \in Handles /\ lr \in Seq(Slots) /\ ch \in Nat /\ n \in Nat
  BY DEF Fits
<1>6. g \in [Slots -> Nat] /\ \A e \in Slots : g[e] = IF e = x THEN n ELSE h[e]
  BY <1>4, <1>5 DEF HoldsNow
<1>7. en \in [Slots -> Handles]
  BY <1>1, <1>5
<1>8. Kept(c) = {e \in Slots : c.entry[e].in_cache} /\ Kept(d) = {e \in Slots : d.entry[e].in_cache}
  BY DEF Kept
<1>9. new = IF v.in_cache THEN {x} ELSE {}
  BY DEF OneIf
<1>10. Kept(d) = (Kept(c) \ {x}) \cup new
  <2> HIDE DEF new
  <2> QED
    BY <1>3, <1>8, <1>9
<1> HIDE DEF en, g
<1>11. d \in Shards
  <2>1. us = (c.in_use \ {x}) \cup OneIf(v.in_cache /\ v.refs >= 2, x)
    BY DEF Fits
  <2>2. OneIf(v.in_cache /\ v.refs >= 2, x) \subseteq Slots
    BY DEF OneIf
  <2>3. us \subseteq Slots
    BY <1>1, <2>1, <2>2
  <2> QED
    BY <1>1, <1>2, <1>5, <1>7, <2>3 DEF Shards
<1>12. \A e \in Slots : /\ d.entry[e].refs = g[e] + (IF d.entry[e].in_cache THEN 1 ELSE 0)
                        /\ d.entry[e].refs = 0 => d.entry[e] = Free
                        /\ d.entry[e].refs > 0 => d.entry[e].key \in Files
  <2>1. /\ v.refs = n + (IF v.in_cache THEN 1 ELSE 0)
        /\ v.refs = 0 => v = Free
        /\ v.refs > 0 => v.key \in Files
    BY DEF Fits
  <2>2. \A e \in Slots : /\ c.entry[e].refs = h[e] + (IF c.entry[e].in_cache THEN 1 ELSE 0)
                         /\ c.entry[e].refs = 0 => c.entry[e] = Free
                         /\ c.entry[e].refs > 0 => c.entry[e].key \in Files
    BY DEF Listed
  <2> TAKE e \in Slots
  <2>3. CASE e = x
    <3>1. d.entry[e] = v /\ g[e] = n
      BY <1>3, <1>6, <2>3
    <3> QED
      BY <2>1, <3>1
  <2>4. CASE e # x
    <3>1. d.entry[e] = c.entry[e] /\ g[e] = h[e]
      BY <1>3, <1>6, <2>4
    <3> QED
      BY <2>2, <3>1
  <2> QED
    BY <2>3, <2>4
<1>13. ASSUME NEW k \in Files, d.table[k] # None
       PROVE  d.table[k] \in Kept(d) /\ d.entry[d.table[k]].key = k
  <2> PICK y : y = d.table[k]
    OBVIOUS
  <2>1. c.table[k] = y /\ y \in Kept(c) /\ c.entry[y].key = k
    BY <1>2, <1>13 DEF Listed
  <2>2. y \in Slots
    BY <1>8, <2>1
  <2>3. y = x => v.in_cache /\ v.key = k
    BY <2>1 DEF Fits
  <2>4. y \in Kept(d)
    BY <1>8, <1>3, <2>1, <2>2, <2>3
  <2>5. d.entry[y].key = k
    BY <1>3, <2>1, <2>2, <2>3
  <2> QED
    BY <2>4, <2>5
<1>14. Range(d.lru) = {e \in Kept(d) : d.entry[e].refs = 1}
  <2>1. Range(c.lru) = {e \in Kept(c) : c.entry[e].refs = 1}
    BY DEF Listed
  <2>2. Range(lr) = (Range(c.lru) \ {x}) \cup OneIf(v.in_cache /\ v.refs = 1, x)
    BY DEF Fits
  <2>3. \A e \in Slots : e \in OneIf(v.in_cache /\ v.refs = 1, x) <=> e = x /\ v.in_cache /\ v.refs = 1
    BY DEF OneIf
  <2>4. OneIf(v.in_cache /\ v.refs = 1, x) \subseteq Slots /\ Range(c.lru) \subseteq Slots
    BY <1>8, <2>1 DEF OneIf
  <2>5. \A e \in Slots : e \in Range(c.lru) <=> c.entry[e].in_cache /\ c.entry[e].refs = 1
    BY <1>8, <2>1
  <2>6. \A e \in Slots : e \in Range(lr) <=> d.entry[e].in_cache /\ d.entry[e].refs = 1
    BY <1>3, <2>2, <2>3, <2>5
  <2>7. Range(lr) \subseteq Slots
    BY <2>2, <2>4
  <2> QED
    BY <1>2, <1>8, <2>6, <2>7
<1>15. d.in_use = {e \in Kept(d) : d.entry[e].refs >= 2}
  <2>1. c.in_use = {e \in Kept(c) : c.entry[e].refs >= 2}
    BY DEF Listed
  <2>2. us = (c.in_use \ {x}) \cup OneIf(v.in_cache /\ v.refs >= 2, x)
    BY DEF Fits
  <2>3. \A e \in Slots : e \in OneIf(v.in_cache /\ v.refs >= 2, x) <=> e = x /\ v.in_cache /\ v.refs >= 2
    BY DEF OneIf
  <2>4. OneIf(v.in_cache /\ v.refs >= 2, x) \subseteq Slots
    BY DEF OneIf
  <2>5. \A e \in Slots : e \in c.in_use <=> c.entry[e].in_cache /\ c.entry[e].refs >= 2
    BY <1>8, <2>1
  <2>6. \A e \in Slots : e \in us <=> d.entry[e].in_cache /\ d.entry[e].refs >= 2
    BY <1>3, <2>2, <2>3, <2>5
  <2>7. us \subseteq Slots
    BY <1>1, <2>2, <2>4
  <2> QED
    BY <1>2, <1>8, <2>6, <2>7
<1>16. d.usage = ChargeOf(d.entry, Kept(d))
  <2>1. ch = ChargeOf(en, (Kept(c) \ {x}) \cup new)
    BY DEF Fits, en
  <2> QED
    BY <1>2, <1>10, <2>1
<1>17. IsInjective(d.lru)
  BY <1>2 DEF Fits
<1> HIDE DEF new
<1>18. Listed(d, g)
  BY <1>6, <1>11, <1>12, <1>13, <1>14, <1>15, <1>16, <1>17 DEF Listed
<1> QED
  BY <1>2, <1>3, <1>10, <1>18 DEF g, new

-----------------------------------------------------------------------------
\* Ref: a client has one more reference to an entry of the cache.
LEMMA RefSound ==
  ASSUME NEW c, NEW h, Sound(c, h), NEW x \in Kept(c), NEW d, d = Ref(c, x)
  PROVE  Sound(d, HoldsNow(h, x, h[x] + 1)) /\ Kept(d) = Kept(c)
<1> DEFINE e == c.entry[x]
           v == [key |-> e.key, refs |-> e.refs + 1, in_cache |-> e.in_cache]
           lr == IF e.refs = 1 /\ e.in_cache THEN RemoveFirst(c.lru, x) ELSE c.lru
           us == IF e.in_cache THEN c.in_use \cup {x} ELSE c.in_use
<1>1. /\ Listed(c, h) /\ x \in Slots /\ e.in_cache /\ e.refs \in Nat /\ e.refs > 0 /\ e.key \in Files
      /\ e.refs = h[x] + 1 /\ h[x] \in Nat /\ c.usage \in Nat /\ c.lru \in Seq(Slots)
      /\ Range(c.lru) = {y \in Kept(c) : c.entry[y].refs = 1} /\ IsInjective(c.lru)
      /\ \A k \in Files : c.table[k] = x => e.key = k
  <2>1. Listed(c, h) /\ x \in Slots /\ e.in_cache
    BY DEF Sound, Kept
  <2>2. e.refs = h[x] + 1 /\ h[x] \in Nat
    BY <2>1 DEF Listed
  <2>3. /\ e.refs \in Nat /\ e.refs > 0 /\ e.key \in Files /\ c.usage \in Nat /\ c.lru \in Seq(Slots)
    BY <2>1, ListedIs
  <2>4. Range(c.lru) = {y \in Kept(c) : c.entry[y].refs = 1} /\ IsInjective(c.lru)
    BY <2>1 DEF Listed
  <2>5. \A k \in Files : c.table[k] = x => e.key = k
    BY <2>1, SlotNames DEF Listed
  <2> QED
    BY <2>1, <2>2, <2>3, <2>4, <2>5
<1>2. d = Changed(c, x, v, lr, us, c.usage)
  BY <1>1, RefIs
<1>3. v \in Handles /\ v.refs = e.refs + 1 /\ v.key = e.key /\ v.in_cache = e.in_cache
  BY <1>1 DEF Handles
<1> HIDE DEF v
<1>4. lr \in Seq(Slots) /\ IsInjective(lr) /\ Range(lr) = Range(c.lru) \ {x}
  <2>1. CASE e.refs = 1
    BY <1>1, <2>1, RemoveFirstIs
  <2>2. CASE e.refs # 1
    BY <1>1, <2>2
  <2> QED
    BY <2>1, <2>2
<1>5. us = (c.in_use \ {x}) \cup OneIf(v.in_cache /\ v.refs >= 2, x)
  BY <1>1, <1>3 DEF OneIf
<1>6. Range(lr) = (Range(c.lru) \ {x}) \cup OneIf(v.in_cache /\ v.refs = 1, x)
  BY <1>1, <1>3, <1>4 DEF OneIf
<1>7. (Kept(c) \ {x}) \cup OneIf(v.in_cache, x) = Kept(c)
  BY <1>1, <1>3 DEF OneIf
<1>8. c.usage = ChargeOf([c.entry EXCEPT ![x] = v], Kept(c))
  BY <1>1, <1>3, ChargeChanges
<1>9. v.refs = h[x] + 1 + (IF v.in_cache THEN 1 ELSE 0) /\ v.refs # 0 /\ h[x] + 1 \in Nat
  BY <1>1, <1>3
<1> HIDE DEF lr, us, e
<1>10. Fits(c, x, v, lr, us, c.usage, h[x] + 1)
  <2>1. v.refs > 0 => v.key \in Files
    BY <1>1, <1>3
  <2>2. \A k \in Files : c.table[k] = x => v.in_cache /\ v.key = k
    BY <1>1, <1>3
  <2> QED
    BY <1>1, <1>3, <1>4, <1>5, <1>6, <1>7, <1>8, <1>9, <2>1, <2>2 DEF Fits
<1>11. /\ Listed(d, HoldsNow(h, x, h[x] + 1)) /\ Kept(d) = Kept(c) /\ d.table = c.table
       /\ \A y \in Slots : d.entry[y] = IF y = x THEN v ELSE c.entry[y]
  <2> HIDE DEF e, lr, us
  <2>1. Listed(c, h) /\ x \in Slots
    BY <1>1
  <2> QED
    BY ONLY <2>1, <1>2, <1>7, <1>10, ChangedListed
<1>12. \A y \in Kept(d) : y \in Slots /\ d.entry[y].key = c.entry[y].key
  BY <1>3, <1>11 DEF Kept, e
<1> QED
  BY <1>11, <1>12 DEF Sound

\* Unref: a client drops a reference.
LEMMA UnrefSound ==
  ASSUME NEW c, NEW h, Sound(c, h), NEW x \in Slots, h[x] > 0, NEW d, d = Unref(c, x)
  PROVE  /\ Sound(d, HoldsNow(h, x, h[x] - 1)) /\ Kept(d) = Kept(c) /\ d.table = c.table
         /\ x \notin Kept(c) => d.lru = c.lru
         /\ \A y \in Slots \ {x} : d.entry[y] = c.entry[y]
<1> DEFINE e == c.entry[x]
           g == HoldsNow(h, x, h[x] - 1)
<1>1. /\ Listed(c, h) /\ e \in Handles /\ e.refs \in Nat /\ e.in_cache \in BOOLEAN
      /\ e.refs = h[x] + (IF e.in_cache THEN 1 ELSE 0) /\ h[x] \in Nat /\ e.refs > 0 /\ e.key \in Files
      /\ x \in Kept(c) <=> e.in_cache
      /\ c.usage \in Nat /\ c.lru \in Seq(Slots) /\ IsInjective(c.lru)
      /\ Range(c.lru) = {y \in Kept(c) : c.entry[y].refs = 1}
      /\ c.in_use = {y \in Kept(c) : c.entry[y].refs >= 2}
      /\ \A k \in Files : c.table[k] = x => e.in_cache /\ e.key = k
  <2>1. Listed(c, h)
    BY DEF Sound
  <2>2. e.refs = h[x] + (IF e.in_cache THEN 1 ELSE 0) /\ h[x] \in Nat
    BY <2>1 DEF Listed
  <2>3. e \in Handles /\ e.refs \in Nat /\ e.in_cache \in BOOLEAN
    BY <2>1, ListedIs DEF Handles
  <2>4. e.refs > 0
    BY <2>2, <2>3
  <2>5. \A k \in Files : c.table[k] = x => e.in_cache /\ e.key = k
    BY <2>1, SlotNames DEF Listed, Kept
  <2>6. e.key \in Files
    BY <2>1, <2>4 DEF Listed
  <2>7. x \in Kept(c) <=> e.in_cache
    BY DEF Kept
  <2>8. c.usage \in Nat /\ c.lru \in Seq(Slots)
    BY <2>1, ListedIs
  <2>9. /\ IsInjective(c.lru) /\ Range(c.lru) = {y \in Kept(c) : c.entry[y].refs = 1}
        /\ c.in_use = {y \in Kept(c) : c.entry[y].refs >= 2}
    BY <2>1 DEF Listed
  <2> QED
    BY <2>1, <2>2, <2>3, <2>4, <2>5, <2>6, <2>7, <2>8, <2>9
<1> DEFINE done(v, lr) ==
             /\ Listed(d, g) /\ d.table = c.table /\ d.lru = lr
             /\ \A y \in Slots : d.entry[y] = IF y = x THEN v ELSE c.entry[y]
<1>2. ASSUME NEW v, NEW lr, done(v, lr), v.in_cache = e.in_cache, e.in_cache => v.key = e.key,
             ~e.in_cache => lr = c.lru
      PROVE  /\ Sound(d, g) /\ Kept(d) = Kept(c) /\ d.table = c.table
             /\ x \notin Kept(c) => d.lru = c.lru
             /\ \A y \in Slots \ {x} : d.entry[y] = c.entry[y]
  <2>1. Kept(d) = Kept(c)
    BY <1>1, <1>2 DEF Kept
  <2>2. \A y \in Kept(d) : d.entry[y].key = c.entry[y].key
    BY <1>1, <1>2, <2>1 DEF Kept
  <2>3. Sound(d, g)
    BY <1>2, <2>1, <2>2 DEF Sound
  <2> QED
    BY <1>1, <1>2, <2>1, <2>3
<1> HIDE DEF e
<1>3. CASE e.refs = 1
  <2>1. ~e.in_cache /\ h[x] - 1 = 0 /\ h[x] - 1 \in Nat
    BY <1>1, <1>3
  <2>2. d = Changed(c, x, Free, c.lru, c.in_use, c.usage)
    BY <1>1, <1>3, UnrefIs DEF e
  <2>3. Free \in Handles /\ Free.refs = 0 /\ Free.in_cache = FALSE /\ ~Free.in_cache
    BY DEF Free, Handles
  <2>4. Range(c.lru) = (Range(c.lru) \ {x}) \cup OneIf(Free.in_cache /\ Free.refs = 1, x)
        /\ c.in_use = (c.in_use \ {x}) \cup OneIf(Free.in_cache /\ Free.refs >= 2, x)
        /\ Kept(c) = (Kept(c) \ {x}) \cup OneIf(Free.in_cache, x)
    BY <1>1, <2>1, <2>3 DEF OneIf
  <2>5. c.usage = ChargeOf([c.entry EXCEPT ![x] = Free], Kept(c))
    BY <1>1, <2>1, ChargeChanges
  <2>6. Free.refs = h[x] - 1 + (IF Free.in_cache THEN 1 ELSE 0) /\ ~(Free.refs > 0)
    BY <2>1, <2>3
  <2>7. Fits(c, x, Free, c.lru, c.in_use, c.usage, h[x] - 1)
    BY <1>1, <2>1, <2>3, <2>4, <2>5, <2>6 DEF Fits
  <2>8. done(Free, c.lru)
    <3>1. Listed(c, h)
      BY <1>1
    <3> QED
      BY <2>2, <2>7, <3>1, ChangedListed
  <2> HIDE DEF done, g
  <2>9. Free.in_cache = e.in_cache
    BY <1>1, <2>1, <2>3
  <2> QED
    BY <1>2, <2>1, <2>3, <2>8, <2>9 DEF g
<1>4. CASE e.refs = 2 /\ e.in_cache
  <2> DEFINE v == [key |-> e.key, refs |-> 1, in_cache |-> TRUE]
             lr == Append(c.lru, x)
             us == c.in_use \ {x}
  <2>1. d = Changed(c, x, v, lr, us, c.usage)
    BY <1>1, <1>4, UnrefIs DEF e
  <2>2. v \in Handles /\ v.refs = 1 /\ v.key = e.key /\ v.in_cache = TRUE
    BY <1>1 DEF Handles
  <2> HIDE DEF v
  <2>3. lr \in Seq(Slots) /\ IsInjective(lr) /\ Range(lr) = Range(c.lru) \cup {x}
    <3>1. x \notin Range(c.lru)
      BY <1>1, <1>4 DEF e
    <3> QED
      BY <1>1, <3>1, AppendIs
  <2>4. Range(lr) = (Range(c.lru) \ {x}) \cup OneIf(v.in_cache /\ v.refs = 1, x)
        /\ us = (c.in_use \ {x}) \cup OneIf(v.in_cache /\ v.refs >= 2, x)
        /\ Kept(c) = (Kept(c) \ {x}) \cup OneIf(v.in_cache, x)
    BY <1>1, <1>4, <2>2, <2>3 DEF OneIf
  <2>5. c.usage = ChargeOf([c.entry EXCEPT ![x] = v], Kept(c))
    BY <1>1, <1>4, <2>2, ChargeChanges DEF e
  <2>6. v.refs = h[x] - 1 + (IF v.in_cache THEN 1 ELSE 0) /\ v.refs # 0 /\ h[x] - 1 \in Nat
    BY <1>1, <1>4, <2>2
  <2> HIDE DEF lr, us
  <2>7. Fits(c, x, v, lr, us, c.usage, h[x] - 1)
    BY <1>1, <1>4, <2>2, <2>3, <2>4, <2>5, <2>6 DEF Fits
  <2>8. done(v, lr)
    BY <1>1, <2>1, <2>7, ChangedListed
  <2> HIDE DEF done, g
  <2>9. v.in_cache = e.in_cache
    BY <1>1, <1>4, <2>2
  <2> QED
    BY <1>2, <1>4, <2>2, <2>8, <2>9 DEF g
<1>5. CASE e.refs # 1 /\ ~(e.refs = 2 /\ e.in_cache)
  <2> DEFINE v == [key |-> e.key, refs |-> e.refs - 1, in_cache |-> e.in_cache]
  <2>1. d = Changed(c, x, v, c.lru, c.in_use, c.usage)
    BY <1>1, <1>5, UnrefIs DEF e
  <2>2. v \in Handles /\ v.refs = e.refs - 1 /\ v.key = e.key /\ v.in_cache = e.in_cache
    BY <1>1, <1>5 DEF Handles
  <2> HIDE DEF v
  <2>3. Range(c.lru) = (Range(c.lru) \ {x}) \cup OneIf(v.in_cache /\ v.refs = 1, x)
        /\ c.in_use = (c.in_use \ {x}) \cup OneIf(v.in_cache /\ v.refs >= 2, x)
        /\ Kept(c) = (Kept(c) \ {x}) \cup OneIf(v.in_cache, x)
    BY <1>1, <1>5, <2>2 DEF OneIf, e
  <2>4. c.usage = ChargeOf([c.entry EXCEPT ![x] = v], Kept(c))
    BY <1>1, <2>2, ChargeChanges DEF e
  <2>5. v.refs = h[x] - 1 + (IF v.in_cache THEN 1 ELSE 0) /\ v.refs # 0 /\ h[x] - 1 \in Nat
    BY <1>1, <1>5, <2>2
  <2>6. Fits(c, x, v, c.lru, c.in_use, c.usage, h[x] - 1)
    BY <1>1, <2>2, <2>3, <2>4, <2>5 DEF Fits
  <2>7. done(v, c.lru)
    <3>1. Listed(c, h)
      BY <1>1
    <3> QED
      BY <2>1, <2>6, <3>1, ChangedListed
  <2> HIDE DEF done, g
  <2> QED
    BY <1>2, <2>2, <2>7 DEF g
<1> QED
  BY <1>3, <1>4, <1>5

LEMMA HeldBack ==
  ASSUME NEW h \in [Slots -> Nat], NEW x \in Slots
  PROVE  /\ HoldsNow(h, x, h[x] + 1) \in [Slots -> Nat] /\ HoldsNow(h, x, h[x] + 1)[x] = h[x] + 1
         /\ HoldsNow(HoldsNow(h, x, h[x] + 1), x, h[x] + 1 - 1) = h
         /\ h[x] > 0 => HoldsNow(h, x, h[x] - 1) \in [Slots -> Nat]
<1>1. HoldsNow(h, x, h[x] + 1) \in [Slots -> Nat] /\ HoldsNow(h, x, h[x] + 1)[x] = h[x] + 1
  BY DEF HoldsNow
<1>2. h[x] + 1 - 1 = h[x]
  OBVIOUS
<1> PICK n : n = h[x] + 1 - 1
  OBVIOUS
<1>3. HoldsNow(HoldsNow(h, x, h[x] + 1), x, n) = h
  BY <1>2 DEF HoldsNow
<1>4. h[x] > 0 => HoldsNow(h, x, h[x] - 1) \in [Slots -> Nat]
  BY DEF HoldsNow
<1> QED
  BY <1>1, <1>3, <1>4

\* The table changes at one key.
Tabled(c, k, y) ==
  [entry |-> c.entry, table |-> [c.table EXCEPT ![k] = y], lru |-> c.lru, in_use |-> c.in_use,
   usage |-> c.usage]

LEMMA TabledListed ==
  ASSUME NEW c, NEW h, Listed(c, h), NEW k \in Files, NEW y \in Slots \cup {None},
         y # None => y \in Kept(c) /\ c.entry[y].key = k,
         NEW d, d = Tabled(c, k, y)
  PROVE  /\ Listed(d, h) /\ Kept(d) = Kept(c) /\ d.entry = c.entry /\ d.lru = c.lru
         /\ \A j \in Files : d.table[j] = IF j = k THEN y ELSE c.table[j]
<1>1. c.entry \in [Slots -> Handles] /\ c.table \in [Files -> Slots \cup {None}]
      /\ c.lru \in Seq(Slots) /\ c.in_use \subseteq Slots /\ c.usage \in Nat
  BY ListedIs
<1> PICK ta : ta = [c.table EXCEPT ![k] = y]
  OBVIOUS
<1>2. ta \in [Files -> Slots \cup {None}] /\ \A j \in Files : ta[j] = IF j = k THEN y ELSE c.table[j]
  BY <1>1
<1>3. d = [entry |-> c.entry, table |-> ta, lru |-> c.lru, in_use |-> c.in_use, usage |-> c.usage]
  BY DEF Tabled
<1>4. d.entry = c.entry /\ d.table = ta /\ d.lru = c.lru /\ d.in_use = c.in_use /\ d.usage = c.usage
  BY <1>3
<1>5. d \in Shards
  BY <1>1, <1>2, <1>3 DEF Shards
<1>6. Kept(d) = Kept(c)
  BY <1>4 DEF Kept
<1>7. \A j \in Files : d.table[j] # None => d.table[j] \in Kept(d) /\ d.entry[d.table[j]].key = j
  BY <1>2, <1>4, <1>6 DEF Listed
<1>8. Listed(d, h)
  BY <1>4, <1>5, <1>6, <1>7 DEF Listed
<1> QED
  BY <1>2, <1>4, <1>6, <1>8

LEMMA TabledIs ==
  ASSUME NEW c, NEW h, Listed(c, h), NEW k \in Files
  PROVE  Erased(c, k) = FinishErase(Tabled(c, k, None), c.table[k])
<1>1. c \in Shards
  BY DEF Listed
<1>2. [c EXCEPT !.table[k] = None] = Tabled(c, k, None)
  BY <1>1 DEF Shards, Tabled
<1> QED
  BY <1>2 DEF Erased

\* What FinishErase does before it drops the cache's reference.
LEMMA FinishIs ==
  ASSUME NEW c, NEW h, Listed(c, h), NEW x \in Slots
  PROVE  FinishErase(c, x) =
           Unref(Changed(c, x, [key |-> c.entry[x].key, refs |-> c.entry[x].refs, in_cache |-> FALSE],
                         RemoveFirst(c.lru, x), c.in_use \ {x}, c.usage - Charge(c.entry[x].key)), x)
<1>1. c \in Shards /\ c.entry[x] \in Handles
  BY DEF Listed, Shards
<1> PICK v : v = [c.entry[x] EXCEPT !.in_cache = FALSE]
  OBVIOUS
<1> PICK lr : lr = RemoveFirst(c.lru, x)
  OBVIOUS
<1> PICK us : us = c.in_use \ {x}
  OBVIOUS
<1> PICK ch : ch = c.usage - Charge(c.entry[x].key)
  OBVIOUS
<1> PICK m : m = [c EXCEPT !.lru = lr, !.in_use = us, !.entry[x].in_cache = FALSE, !.usage = ch]
  OBVIOUS
<1>2. v = [key |-> c.entry[x].key, refs |-> c.entry[x].refs, in_cache |-> FALSE]
  BY <1>1, HandleChanges
<1>3. m = [entry |-> [c.entry EXCEPT ![x] = v], table |-> c.table, lru |-> lr, in_use |-> us,
           usage |-> ch]
  BY <1>1 DEF Shards
<1>4. m = Changed(c, x, v, lr, us, ch)
  BY <1>3 DEF Changed
<1>5. x # None
  BY SlotNames
<1>6. FinishErase(c, x) = Unref(m, x)
  BY <1>5 DEF FinishErase
<1> QED
  BY <1>2, <1>4, <1>6

\* An entry that left the table leaves the lists and the usage, and is freed
\* unless a client has it.
LEMMA FinishSound ==
  ASSUME NEW c, NEW h, NEW x, Leaving(c, h, x), NEW d, d = FinishErase(c, x)
  PROVE  /\ Sound(d, h) /\ Kept(d) = Kept(c) \ {x} /\ d.table = c.table
         /\ d.lru = RemoveFirst(c.lru, x)
         /\ \A y \in Slots \ {x} : d.entry[y] = c.entry[y]
<1> DEFINE e == c.entry[x]
           v == [key |-> e.key, refs |-> e.refs, in_cache |-> FALSE]
           lr == RemoveFirst(c.lru, x)
           us == c.in_use \ {x}
           ch == c.usage - Charge(e.key)
           g == HoldsNow(h, x, h[x] + 1)
<1>1. Listed(c, h) /\ x \in Kept(c) /\ x \in Slots /\ \A k \in Files : c.table[k] # x
  BY DEF Leaving, Kept
<1>2. /\ e.refs = h[x] + 1 /\ h[x] \in Nat /\ h \in [Slots -> Nat] /\ e.key \in Files
      /\ IsInjective(c.lru) /\ c.lru \in Seq(Slots)
  <2>1. e.refs = h[x] + 1 /\ h[x] \in Nat /\ h \in [Slots -> Nat] /\ IsInjective(c.lru)
    BY <1>1 DEF Listed, Kept
  <2> QED
    BY <1>1, <2>1, ListedIs
<1> PICK m : m = Changed(c, x, v, lr, us, ch)
  OBVIOUS
<1>3. d = Unref(m, x)
  BY <1>1, FinishIs
<1>4. v \in Handles /\ v.refs = h[x] + 1 /\ v.key = e.key /\ v.in_cache = FALSE
  BY <1>2 DEF Handles
<1> HIDE DEF v
<1>5. lr \in Seq(Slots) /\ IsInjective(lr) /\ Range(lr) = Range(c.lru) \ {x}
  BY <1>2, RemoveFirstIs
<1>6. ch \in Nat /\ ch = ChargeOf([c.entry EXCEPT ![x] = v], Kept(c) \ {x})
  BY <1>1, ChargeChanges
<1>7. \A b : OneIf(v.in_cache /\ b, x) = {} /\ OneIf(v.in_cache, x) = {}
  BY <1>4 DEF OneIf
<1> HIDE DEF lr, ch, e
<1>8. Fits(c, x, v, lr, us, ch, h[x] + 1)
  <2>1. h[x] + 1 \in Nat /\ v.refs = h[x] + 1 + (IF v.in_cache THEN 1 ELSE 0) /\ v.refs # 0
    BY <1>2, <1>4
  <2>2. v.key \in Files
    BY <1>2, <1>4
  <2>3. Range(lr) = (Range(c.lru) \ {x}) \cup OneIf(v.in_cache /\ v.refs = 1, x)
    BY <1>5, <1>7
  <2>4. us = (c.in_use \ {x}) \cup OneIf(v.in_cache /\ v.refs >= 2, x)
    BY <1>7
  <2>5. (Kept(c) \ {x}) \cup OneIf(v.in_cache, x) = Kept(c) \ {x}
    BY <1>7
  <2> QED
    BY <1>1, <1>4, <1>5, <1>6, <2>1, <2>2, <2>3, <2>4, <2>5 DEF Fits
<1> HIDE DEF us
<1>9. /\ Listed(m, g) /\ Kept(m) = Kept(c) \ {x} /\ m.table = c.table /\ m.lru = lr
      /\ \A y \in Slots : m.entry[y] = IF y = x THEN v ELSE c.entry[y]
  <2>1. Kept(m) = (Kept(c) \ {x}) \cup OneIf(v.in_cache, x)
    BY <1>1, <1>8, ChangedListed
  <2>2. Kept(m) = Kept(c) \ {x}
    BY <1>7, <2>1
  <2> QED
    BY <1>1, <1>8, <2>2, ChangedListed
<1>10. Sound(m, g)
  <2>1. \A y \in Kept(m) : y \in Slots /\ m.entry[y] = c.entry[y] /\ m.table[m.entry[y].key] = y
    BY <1>9 DEF Leaving, Kept
  <2> QED
    BY <1>9, <2>1 DEF Sound
<1>11. g[x] = h[x] + 1 /\ g[x] > 0 /\ HoldsNow(g, x, g[x] - 1) = h
  <2>1. g[x] = h[x] + 1 /\ HoldsNow(g, x, h[x] + 1 - 1) = h
    BY <1>1, <1>2, HeldBack
  <2> HIDE DEF g
  <2> QED
    BY <1>2, <2>1
<1> HIDE DEF g
<1>12. /\ Sound(d, h) /\ Kept(d) = Kept(m) /\ d.table = m.table
       /\ x \notin Kept(m) => d.lru = m.lru
       /\ \A y \in Slots \ {x} : d.entry[y] = m.entry[y]
  BY <1>1, <1>3, <1>10, <1>11, UnrefSound
<1> QED
  BY <1>9, <1>12 DEF lr

\* Erase: the entry of a key leaves the cache, if there is one.
LEMMA ErasedSound ==
  ASSUME NEW c, NEW h, Sound(c, h), NEW k \in Files, NEW d, d = Erased(c, k)
  PROVE  /\ Sound(d, h) /\ Kept(d) = Kept(c) \ {c.table[k]}
         /\ c.table[k] \in Slots => d.lru = RemoveFirst(c.lru, c.table[k])
         /\ \A y \in Slots \ {c.table[k]} : d.entry[y] = c.entry[y]
<1> PICK x : x = c.table[k]
  OBVIOUS
<1> PICK m : m = Tabled(c, k, None)
  OBVIOUS
<1>1. Listed(c, h) /\ \A e \in Kept(c) : c.table[c.entry[e].key] = e
  BY DEF Sound
<1>2. /\ Listed(m, h) /\ Kept(m) = Kept(c) /\ m.entry = c.entry /\ m.lru = c.lru
      /\ \A j \in Files : m.table[j] = IF j = k THEN None ELSE c.table[j]
  BY <1>1, TabledListed
<1>3. d = FinishErase(m, x)
  BY <1>1, TabledIs
<1>4. \A e \in Kept(c) : e \in Slots /\ e # None /\ c.entry[e].key \in Files
  BY <1>1, ListedIs, SlotNames
<1>5. CASE x = None
  <2>1. d = m
    BY <1>3, <1>5 DEF FinishErase
  <2>2. \A e \in Kept(m) : m.table[m.entry[e].key] = e
    BY <1>1, <1>2, <1>4, <1>5
  <2>3. Sound(d, h)
    BY <1>2, <2>1, <2>2 DEF Sound
  <2>4. x \notin Slots /\ Kept(d) = Kept(c) \ {x}
    BY <1>2, <1>4, <1>5, <2>1, SlotNames
  <2> QED
    BY <1>2, <2>1, <2>3, <2>4
<1>6. CASE x # None
  <2>1. x \in Kept(c) /\ c.entry[x].key = k
    BY <1>1, <1>6 DEF Listed
  <2>2. \A j \in Files : m.table[j] # x
    <3>1. ASSUME NEW j \in Files, c.table[j] = x PROVE j = k
      BY <1>1, <1>6, <2>1, <3>1 DEF Listed
    <3> QED
      BY <1>2, <1>6, <3>1
  <2>3. \A e \in Kept(m) \ {x} : m.table[m.entry[e].key] = e
    BY <1>1, <1>2, <1>4
  <2>4. Leaving(m, h, x)
    BY <1>2, <2>1, <2>2, <2>3 DEF Leaving
  <2>5. /\ Sound(d, h) /\ Kept(d) = Kept(m) \ {x} /\ d.lru = RemoveFirst(m.lru, x)
        /\ \A y \in Slots \ {x} : d.entry[y] = m.entry[y]
    BY <1>3, <2>4, FinishSound
  <2> QED
    BY <1>2, <2>5
<1> QED
  BY <1>5, <1>6

-----------------------------------------------------------------------------
\* The steps of EvictOldest.
LEMMA EvictSteps ==
  ASSUME NEW c, NEW n \in Nat
  PROVE  \E f : /\ EvictOldest(c, n) = f[n] /\ f[0] = c
                /\ \A i \in 1 .. n : f[i] = Erased(f[i - 1], f[i - 1].entry[c.lru[i]].key)
<1> DEFINE G(f, i) == IF i = 0 THEN c ELSE Erased(f[i - 1], f[i - 1].entry[c.lru[i]].key)
           C(f, m) == f = [i \in 0 .. m |-> G(f, i)]
           T == {m \in 0 .. n : ~\E f : C(f, m)}
<1>1. T = {}
  <2> SUFFICES ASSUME T # {} PROVE FALSE
    OBVIOUS
  <2>1. PICK m \in T : \A k \in T : m <= k
    <3>1. T \subseteq Nat
      OBVIOUS
    <3> HIDE DEF T
    <3> QED
      BY <3>1, LeastNumber
  <2>2. m \in 0 .. n /\ ~\E f : C(f, m)
    OBVIOUS
  <2>3. CASE m = 0
    <3> DEFINE e == [i \in 0 .. 0 |-> c]
    <3>1. \A i \in 0 .. 0 : G(e, i) = c
      OBVIOUS
    <3>2. C(e, 0)
      BY <3>1
    <3> QED
      BY <2>2, <2>3, <3>2
  <2>4. CASE m # 0
    <3>1. m - 1 \in 0 .. n /\ m - 1 \notin T
      BY <2>1, <2>2, <2>4
    <3>2. PICK f : C(f, m - 1)
      BY <3>1
    <3> DEFINE g == [i \in 0 .. m |-> G(f, i)]
    <3>3. ASSUME NEW i \in 0 .. m PROVE G(g, i) = G(f, i)
      <4>1. CASE i = 0
        BY <4>1
      <4>2. CASE i # 0
        <5>1. i - 1 \in 0 .. m - 1 /\ i - 1 \in 0 .. m
          BY <2>2, <4>2
        <5>2. g[i - 1] = G(f, i - 1)
          BY <5>1
        <5>3. f[i - 1] = G(f, i - 1)
          <6> HIDE DEF G
          <6> QED
            BY <3>2, <5>1
        <5>4. g[i - 1] = f[i - 1]
          BY <5>2, <5>3
        <5> HIDE DEF g
        <5> QED
          BY <5>4
      <4> QED
        BY <4>1, <4>2
    <3>4. C(g, m)
      <4> HIDE DEF G
      <4> QED
        BY <3>3
    <3> QED
      BY <2>2, <3>4
  <2> QED
    BY <2>3, <2>4
<1>2. PICK f : C(f, n) /\ EvictOldest(c, n) = f[n]
  <2>1. \E f : C(f, n)
    BY <1>1
  <2>2. C(CHOOSE f : C(f, n), n)
    BY <2>1
  <2>3. EvictOldest(c, n) = (CHOOSE f : C(f, n))[n]
    BY DEF EvictOldest
  <2> QED
    BY <2>2, <2>3
<1>3. \A i \in 0 .. n : f[i] = G(f, i)
  <2> HIDE DEF G
  <2> QED
    BY <1>2
<1>4. f[0] = c
  BY <1>3
<1>5. ASSUME NEW i \in 1 .. n PROVE f[i] = Erased(f[i - 1], f[i - 1].entry[c.lru[i]].key)
  <2>1. i \in 0 .. n /\ i # 0 /\ f[i] = G(f, i)
    BY <1>3
  <2> QED
    BY <2>1
<1>6. EvictOldest(c, n) = f[n]
  BY <1>2
<1> HIDE DEF G, C
<1> QED
  BY <1>4, <1>5, <1>6

\* The shard x that is left of c when the i oldest entries are gone.
Evicted(c, h, x, i) ==
  /\ Sound(x, h) /\ Kept(x) \subseteq Kept(c)
  /\ Len(x.lru) = Len(c.lru) - i
  /\ \A j \in 1 .. Len(c.lru) - i : x.lru[j] = c.lru[i + j]

\* Each step takes out the entry that is the oldest then: the next of the list.
LEMMA EvictedOne ==
  ASSUME NEW c, NEW h, Sound(c, h), NEW i \in 1 .. Len(c.lru), NEW x, Evicted(c, h, x, i - 1),
         NEW d, d = Erased(x, x.entry[c.lru[i]].key)
  PROVE  Evicted(c, h, d, i)
<1> DEFINE n == Len(c.lru)
           y == c.lru[i]
           k == x.entry[y].key
           m == Len(x.lru)
<1>1. n \in Nat /\ i \in 1 .. n
  <2>1. Listed(c, h)
    BY DEF Sound
  <2>2. c.lru \in Seq(Slots)
    BY <2>1, ListedIs
  <2> QED
    BY <2>2, LenProperties
<1>2. Sound(x, h) /\ Kept(x) \subseteq Kept(c) /\ m = n - (i - 1)
      /\ \A j \in 1 .. n - (i - 1) : x.lru[j] = c.lru[i - 1 + j]
  BY DEF Evicted
<1>3. Listed(x, h) /\ x.lru \in Seq(Slots) /\ IsInjective(x.lru)
      /\ Range(x.lru) = {e \in Kept(x) : x.entry[e].refs = 1}
  <2>1. Listed(x, h)
    BY <1>2 DEF Sound
  <2> QED
    BY <2>1, ListedIs DEF Listed
<1> HIDE DEF n, m
<1>4. m \in Nat /\ m > 0 /\ 1 \in 1 .. m /\ 1 \in 1 .. n - (i - 1) /\ i - 1 + 1 = i
  BY <1>1, <1>2
<1>5. x.lru[1] = y
  BY <1>2, <1>4
<1>6. y \in Range(x.lru)
  <2>1. DOMAIN x.lru = 1 .. m
    BY <1>3, LenProperties DEF m
  <2> QED
    BY <1>4, <1>5, <2>1 DEF Range
<1>7. y \in Kept(x)
  BY <1>3, <1>6
<1>8. k \in Files /\ y \in Slots /\ x.table[k] = y
  BY <1>2, <1>3, <1>7, ListedIs DEF Sound
<1> HIDE DEF y, k
<1>9. d = Erased(x, k)
  BY DEF k, y
<1>10. Sound(d, h) /\ Kept(d) = Kept(x) \ {y} /\ d.lru = RemoveFirst(x.lru, y)
  BY <1>2, <1>8, <1>9, ErasedSound
<1>11. Len(d.lru) = m - 1 /\ \A j \in 1 .. (m - 1) : d.lru[j] = x.lru[j + 1]
  BY <1>3, <1>4, <1>5, <1>10, RemoveFirstIs DEF m
<1>12. Len(d.lru) = n - i
  BY <1>1, <1>2, <1>11
<1>13. \A j \in 1 .. n - i : d.lru[j] = c.lru[i + j]
  <2> TAKE j \in 1 .. n - i
  <2>1. j \in 1 .. m - 1 /\ j + 1 \in 1 .. n - (i - 1) /\ i - 1 + (j + 1) = i + j
    BY <1>1, <1>2
  <2> QED
    BY <1>2, <1>11, <2>1
<1> QED
  BY <1>2, <1>10, <1>12, <1>13 DEF Evicted, n

LEMMA EvictOldestSound ==
  ASSUME NEW c, NEW h, Sound(c, h), NEW n \in 0 .. Len(c.lru), NEW d, d = EvictOldest(c, n)
  PROVE  Evicted(c, h, d, n)
<1>1. c.lru \in Seq(Slots) /\ Len(c.lru) \in Nat /\ n \in Nat
  <2>1. Listed(c, h)
    BY DEF Sound
  <2>2. c.lru \in Seq(Slots)
    BY <2>1, ListedIs
  <2> QED
    BY <2>2, LenProperties
<1>2. PICK f : /\ d = f[n] /\ f[0] = c
               /\ \A i \in 1 .. n : f[i] = Erased(f[i - 1], f[i - 1].entry[c.lru[i]].key)
  BY <1>1, EvictSteps
<1> DEFINE T == {i \in 0 .. n : ~Evicted(c, h, f[i], i)}
<1>3. T = {}
  <2> SUFFICES ASSUME T # {} PROVE FALSE
    OBVIOUS
  <2>1. PICK i \in T : \A k \in T : i <= k
    <3>1. T \subseteq Nat
      BY <1>1
    <3> HIDE DEF T
    <3> QED
      BY <3>1, LeastNumber
  <2>2. i \in 0 .. n /\ ~Evicted(c, h, f[i], i)
    OBVIOUS
  <2>3. CASE i = 0
    <3>1. Evicted(c, h, c, 0)
      BY <1>1 DEF Evicted
    <3> QED
      BY <1>2, <2>2, <2>3, <3>1
  <2>4. CASE i # 0
    <3>1. i - 1 \in 0 .. n /\ i - 1 \notin T /\ i \in 1 .. n /\ i \in 1 .. Len(c.lru)
      BY <1>1, <2>1, <2>2, <2>4
    <3>2. Evicted(c, h, f[i - 1], i - 1)
      BY <3>1
    <3>3. f[i] = Erased(f[i - 1], f[i - 1].entry[c.lru[i]].key)
      BY <1>2, <3>1
    <3> HIDE DEF T
    <3> QED
      BY <2>2, <3>1, <3>2, <3>3, EvictedOne
  <2> QED
    BY <2>3, <2>4
<1>4. Evicted(c, h, f[n], n)
  BY <1>1, <1>3
<1> QED
  BY <1>2, <1>4

\* Evict stops when what is left fits, or when no entry is left that it may evict.
LEMMA EvictSound ==
  ASSUME NEW c, NEW h, Sound(c, h), NEW d, d = Evict(c)
  PROVE  Sound(d, h) /\ Kept(d) \subseteq Kept(c) /\ (d.usage <= Capacity \/ d.lru = <<>>)
<1> DEFINE S == {n \in 0 .. Len(c.lru) : n = Len(c.lru) \/ EvictOldest(c, n).usage <= Capacity}
<1>1. c.lru \in Seq(Slots) /\ Len(c.lru) \in Nat
  <2>1. Listed(c, h)
    BY DEF Sound
  <2>2. c.lru \in Seq(Slots)
    BY <2>1, ListedIs
  <2> QED
    BY <2>2, LenProperties
<1>2. S \subseteq Nat /\ Len(c.lru) \in S
  BY <1>1
<1>3. Min(S) \in S
  <2> HIDE DEF S
  <2>1. \E x \in S : \A y \in S : x <= y
    BY <1>2, LeastNumber
  <2> QED
    BY <2>1 DEF Min
<1> PICK m : m = Min(S)
  OBVIOUS
<1>4. d = EvictOldest(c, m)
  BY DEF Evict
<1>5. m \in 0 .. Len(c.lru) /\ (m = Len(c.lru) \/ d.usage <= Capacity)
  BY <1>3, <1>4
<1> HIDE DEF S
<1>6. Evicted(c, h, d, m)
  BY <1>4, <1>5, EvictOldestSound
<1>7. CASE m = Len(c.lru)
  <2>1. Len(d.lru) = 0 /\ d.lru \in Seq(Slots)
    <3>1. Sound(d, h) /\ Len(d.lru) = Len(c.lru) - m
      BY <1>6 DEF Evicted
    <3>2. Listed(d, h)
      BY <3>1 DEF Sound
    <3>3. d.lru \in Seq(Slots)
      BY <3>2, ListedIs
    <3> QED
      BY <1>1, <1>7, <3>1, <3>3
  <2>2. d.lru = <<>>
    BY <2>1, EmptySeq
  <2> QED
    BY <1>6, <2>2 DEF Evicted
<1>8. CASE d.usage <= Capacity
  BY <1>6, <1>8 DEF Evicted
<1> QED
  BY <1>5, <1>7, <1>8

-----------------------------------------------------------------------------
\* A free slot: no client, list or table knows it.
LEMMA FreeSlot ==
  ASSUME NEW c, NEW h, Sound(c, h), NEW e \in Slots, c.entry[e] = Free
  PROVE  /\ Listed(c, h) /\ c.lru \in Seq(Slots) /\ c.usage \in Nat /\ c.in_use \subseteq Slots
         /\ h \in [Slots -> Nat] /\ IsInjective(c.lru)
         /\ e \notin Kept(c) /\ e \notin Range(c.lru) /\ e \notin c.in_use
         /\ \A k \in Files : c.table[k] # e
<1>1. Listed(c, h)
  BY DEF Sound
<1>2. c.lru \in Seq(Slots) /\ c.usage \in Nat /\ c.in_use \subseteq Slots
  BY <1>1, ListedIs
<1>3. h \in [Slots -> Nat] /\ IsInjective(c.lru)
  BY <1>1 DEF Listed
<1>4. e \notin Kept(c)
  BY DEF Kept, Free
<1>5. /\ Range(c.lru) = {y \in Kept(c) : c.entry[y].refs = 1}
      /\ c.in_use = {y \in Kept(c) : c.entry[y].refs >= 2}
      /\ \A j \in Files : c.table[j] # None => c.table[j] \in Kept(c)
  BY <1>1 DEF Listed
<1>6. \A j \in Files : c.table[j] # e
  BY <1>4, <1>5, SlotNames
<1> QED
  BY <1>1, <1>2, <1>3, <1>4, <1>5, <1>6

LEMMA NotCachedSound ==
  ASSUME NEW c, NEW h, Sound(c, h), NEW e \in Slots, c.entry[e] = Free, NEW k \in Files,
         NEW d, d = NotCached(c, e, k)
  PROVE  Sound(d, HoldsNow(h, e, 1))
<1> PICK v : v = [key |-> k, refs |-> 1, in_cache |-> FALSE]
  OBVIOUS
<1>1. /\ Listed(c, h) /\ c.lru \in Seq(Slots) /\ c.usage \in Nat /\ c.in_use \subseteq Slots
      /\ h \in [Slots -> Nat] /\ IsInjective(c.lru)
      /\ e \notin Kept(c) /\ e \notin Range(c.lru) /\ e \notin c.in_use
      /\ \A j \in Files : c.table[j] # e
  BY FreeSlot
<1>2. d = Changed(c, e, v, c.lru, c.in_use, c.usage)
  BY <1>1 DEF Listed, Shards, NotCached, Changed
<1>3. v \in Handles /\ v.key = k /\ v.refs = 1 /\ v.in_cache = FALSE
  BY DEF Handles
<1>4. \A b : OneIf(v.in_cache /\ b, e) = {} /\ OneIf(v.in_cache, e) = {}
  BY <1>3 DEF OneIf
<1>5. Fits(c, e, v, c.lru, c.in_use, c.usage, 1)
  <2>1. v.refs = 1 + (IF v.in_cache THEN 1 ELSE 0) /\ v.refs # 0 /\ 1 \in Nat
    BY <1>3
  <2>2. Range(c.lru) = (Range(c.lru) \ {e}) \cup OneIf(v.in_cache /\ v.refs = 1, e)
    BY <1>1, <1>4
  <2>3. c.in_use = (c.in_use \ {e}) \cup OneIf(v.in_cache /\ v.refs >= 2, e)
    BY <1>1, <1>4
  <2>4. c.usage = ChargeOf([c.entry EXCEPT ![e] = v], Kept(c))
    BY <1>1, ChargeChanges
  <2>5. (Kept(c) \ {e}) \cup OneIf(v.in_cache, e) = Kept(c)
    BY <1>1, <1>4
  <2> QED
    BY <1>1, <1>3, <2>1, <2>2, <2>3, <2>4, <2>5 DEF Fits
<1>6. /\ Listed(d, HoldsNow(h, e, 1)) /\ d.table = c.table
      /\ Kept(d) = (Kept(c) \ {e}) \cup OneIf(v.in_cache, e)
      /\ \A y \in Slots : d.entry[y] = IF y = e THEN v ELSE c.entry[y]
  <2>1. Listed(c, h) /\ e \in Slots
    BY <1>1
  <2> QED
    BY ONLY <2>1, <1>2, <1>5, ChangedListed
<1>7. Kept(d) = Kept(c)
  BY <1>1, <1>4, <1>6
<1>8. \A y \in Kept(d) : d.table[d.entry[y].key] = y
  BY <1>1, <1>6, <1>7 DEF Sound, Kept
<1> QED
  BY <1>6, <1>8 DEF Sound

\* The entry v that is new to the cache, before the table finds it.
New(c, e, v, k) == Changed(c, e, v, c.lru, c.in_use \cup {e}, c.usage + Charge(k))

IsNew(n, c, h, e, v) ==
  /\ Listed(n, HoldsNow(h, e, 1)) /\ n.table = c.table /\ Kept(n) = Kept(c) \cup {e}
  /\ \A y \in Slots : n.entry[y] = IF y = e THEN v ELSE c.entry[y]

LEMMA NewListed ==
  ASSUME NEW c, NEW h, Sound(c, h), NEW e \in Slots, c.entry[e] = Free, NEW k \in Files,
         NEW v \in Handles, v.key = k, v.refs = 2, v.in_cache = TRUE,
         NEW n, n = New(c, e, v, k)
  PROVE  IsNew(n, c, h, e, v)
<1> PICK us : us = c.in_use \cup {e}
  OBVIOUS
<1> PICK ch : ch = c.usage + Charge(k)
  OBVIOUS
<1>1. /\ Listed(c, h) /\ c.lru \in Seq(Slots) /\ c.usage \in Nat /\ c.in_use \subseteq Slots
      /\ h \in [Slots -> Nat] /\ IsInjective(c.lru)
      /\ e \notin Kept(c) /\ e \notin Range(c.lru) /\ e \notin c.in_use
      /\ \A j \in Files : c.table[j] # e
  BY FreeSlot
<1>2. v \in Handles /\ v.key = k /\ v.refs = 2 /\ v.in_cache = TRUE
  OBVIOUS
<1>3. Fits(c, e, v, c.lru, us, ch, 1)
  <2>1. v.refs = 1 + (IF v.in_cache THEN 1 ELSE 0) /\ v.refs # 0 /\ 1 \in Nat
    BY <1>2
  <2>2. Range(c.lru) = (Range(c.lru) \ {e}) \cup OneIf(v.in_cache /\ v.refs = 1, e)
    BY <1>1, <1>2 DEF OneIf
  <2>3. us = (c.in_use \ {e}) \cup OneIf(v.in_cache /\ v.refs >= 2, e)
    BY <1>1, <1>2 DEF OneIf
  <2>4. ch \in Nat /\ ch = ChargeOf([c.entry EXCEPT ![e] = v], Kept(c) \cup {e})
    <3>1. Listed(c, h) /\ e \in Slots /\ e \notin Kept(c) /\ v.key \in Files
      BY <1>1, <1>2
    <3>2. /\ ChargeOf([c.entry EXCEPT ![e] = v], Kept(c) \cup {e}) = c.usage + Charge(v.key)
          /\ c.usage + Charge(v.key) \in Nat
      BY ONLY <3>1, ChargeChanges
    <3> QED
      BY <1>2, <3>2
  <2>5. (Kept(c) \ {e}) \cup OneIf(v.in_cache, e) = Kept(c) \cup {e}
    BY <1>2 DEF OneIf
  <2> QED
    BY <1>1, <1>2, <2>1, <2>2, <2>3, <2>4, <2>5 DEF Fits
<1>4. /\ Listed(n, HoldsNow(h, e, 1)) /\ n.table = c.table
      /\ Kept(n) = (Kept(c) \ {e}) \cup OneIf(v.in_cache, e)
      /\ \A y \in Slots : n.entry[y] = IF y = e THEN v ELSE c.entry[y]
  <2>1. Listed(c, h) /\ e \in Slots /\ n = Changed(c, e, v, c.lru, us, ch)
    BY <1>1 DEF New
  <2> QED
    BY ONLY <2>1, <1>3, ChangedListed
<1>5. Kept(n) = Kept(c) \cup {e}
  BY <1>2, <1>4 DEF OneIf
<1> QED
  BY <1>4, <1>5 DEF IsNew

\* The new entry takes the place of the one of its key.
LEMMA TakesPlace ==
  ASSUME NEW c, NEW h, Sound(c, h), NEW n, NEW g, Listed(n, g), NEW e \in Slots, NEW k \in Files,
         n.table = c.table, e \notin Kept(c), Kept(n) = Kept(c) \cup {e}, n.entry[e].key = k,
         \A y \in Slots \ {e} : n.entry[y] = c.entry[y],
         NEW m, m = Tabled(n, k, e), NEW d, d = FinishErase(m, c.table[k])
  PROVE  Sound(d, g)
<1> PICK x : x = c.table[k]
  OBVIOUS
<1>1. Listed(c, h) /\ \A y \in Kept(c) : c.table[c.entry[y].key] = y
  BY DEF Sound
<1>2. e # None /\ e \in Slots \cup {None} /\ e \in Kept(n)
  BY SlotNames
<1>3. /\ Listed(m, g) /\ Kept(m) = Kept(n) /\ m.entry = n.entry
      /\ \A j \in Files : m.table[j] = IF j = k THEN e ELSE n.table[j]
  BY <1>2, TabledListed
<1>4. \A y \in Kept(c) : y \in Slots /\ y # e /\ y # None /\ c.entry[y].key \in Files
  BY <1>1, ListedIs, SlotNames
<1>5. \A y \in Kept(c) : m.entry[y] = c.entry[y]
  BY <1>3, <1>4
<1>6. ASSUME NEW y \in Kept(c), y # x PROVE m.table[m.entry[y].key] = y
  <2>1. m.entry[y].key = c.entry[y].key /\ c.entry[y].key \in Files /\ c.table[c.entry[y].key] = y
    BY <1>1, <1>4, <1>5
  <2>2. c.entry[y].key # k
    BY <1>6, <2>1
  <2> QED
    BY <1>3, <2>1, <2>2
<1>7. m.table[m.entry[e].key] = e
  BY <1>3
<1>8. CASE x = None
  <2>1. d = m
    BY <1>8 DEF FinishErase
  <2>2. \A y \in Kept(m) : m.table[m.entry[y].key] = y
    BY <1>3, <1>4, <1>6, <1>7, <1>8
  <2> QED
    BY <1>3, <2>1, <2>2 DEF Sound
<1>9. CASE x # None
  <2>1. x \in Kept(c) /\ c.entry[x].key = k
    BY <1>1, <1>9 DEF Listed
  <2>2. \A j \in Files : m.table[j] # x
    <3>1. ASSUME NEW j \in Files, c.table[j] = x PROVE j = k
      BY <1>1, <1>9, <2>1, <3>1 DEF Listed
    <3> QED
      BY <1>3, <1>4, <2>1, <3>1
  <2>3. \A y \in Kept(m) \ {x} : m.table[m.entry[y].key] = y
    BY <1>3, <1>6, <1>7
  <2>4. Leaving(m, g, x)
    BY <1>3, <2>1, <2>2, <2>3 DEF Leaving
  <2>5. Sound(d, g)
    BY <2>4, FinishSound
  <2> QED
    BY <2>5
<1> QED
  BY <1>8, <1>9

LEMMA CachedSound ==
  ASSUME NEW c, NEW h, Sound(c, h), NEW e \in Slots, c.entry[e] = Free, NEW k \in Files,
         NEW d, d = Cached(c, e, k)
  PROVE  Sound(d, HoldsNow(h, e, 1))
<1> PICK v : v = [key |-> k, refs |-> 2, in_cache |-> TRUE]
  OBVIOUS
<1> PICK us : us = c.in_use \cup {e}
  OBVIOUS
<1> PICK ch : ch = c.usage + Charge(k)
  OBVIOUS
<1> PICK n : n = Changed(c, e, v, c.lru, us, ch)
  OBVIOUS
<1> PICK m : m = Tabled(n, k, e)
  OBVIOUS
<1>1. d = FinishErase(m, c.table[k])
  <2>1. c \in Shards
    BY DEF Sound, Listed
  <2> PICK o : o = [c EXCEPT !.entry[e] = v, !.in_use = us, !.usage = ch, !.table[k] = e]
    OBVIOUS
  <2> PICK en : en = [c.entry EXCEPT ![e] = v]
    OBVIOUS
  <2> PICK ta : ta = [c.table EXCEPT ![k] = e]
    OBVIOUS
  <2>2. o = [entry |-> en, table |-> ta, lru |-> c.lru, in_use |-> us, usage |-> ch]
    BY <2>1 DEF Shards
  <2>3. n = [entry |-> en, table |-> c.table, lru |-> c.lru, in_use |-> us, usage |-> ch]
    BY DEF Changed
  <2>4. m = [entry |-> n.entry, table |-> [n.table EXCEPT ![k] = e], lru |-> n.lru,
             in_use |-> n.in_use, usage |-> n.usage]
    BY DEF Tabled
  <2>5. n.entry = en /\ n.table = c.table /\ n.lru = c.lru /\ n.in_use = us /\ n.usage = ch
    BY ONLY <2>3
  <2>6. [n.table EXCEPT ![k] = e] = ta
    BY <2>5, Zenon
  <2>7. m = [entry |-> en, table |-> ta, lru |-> c.lru, in_use |-> us, usage |-> ch]
    BY <2>4, <2>5, <2>6, Zenon
  <2>8. o = m
    BY <2>2, <2>7, Zenon
  <2> QED
    BY <2>8 DEF Cached
<1>2. /\ Listed(n, HoldsNow(h, e, 1)) /\ n.table = c.table /\ Kept(n) = Kept(c) \cup {e}
      /\ \A y \in Slots : n.entry[y] = IF y = e THEN v ELSE c.entry[y]
  <2>1. v \in Handles /\ v.key = k /\ v.refs = 2 /\ v.in_cache = TRUE /\ c.entry[e] = Free
        /\ Sound(c, h)
    BY DEF Handles
  <2>2. n = New(c, e, v, k)
    BY DEF New
  <2>3. e \in Slots /\ k \in Files
    OBVIOUS
  <2>4. IsNew(n, c, h, e, v)
    BY ONLY <2>1, <2>2, <2>3, NewListed
  <2> QED
    BY <2>4 DEF IsNew
<1>3. e \notin Kept(c) /\ n.entry[e].key = k /\ \A y \in Slots \ {e} : n.entry[y] = c.entry[y]
  <2>1. v.key = k
    OBVIOUS
  <2>2. n.entry[e] = v /\ \A y \in Slots \ {e} : n.entry[y] = c.entry[y]
    BY <1>2
  <2>3. e \notin Kept(c)
    BY FreeSlot
  <2> QED
    BY <2>1, <2>2, <2>3, Zenon
<1> QED
  <2>1. Sound(c, h) /\ e \in Slots /\ k \in Files /\ m = Tabled(n, k, e)
    OBVIOUS
  <2> QED
    BY ONLY <2>1, <1>1, <1>2, <1>3, TakesPlace, Zenon

\* Insert: what was there of the key leaves, and then the oldest until the rest
\* fits: all but the entries in use, if these alone are too many.
LEMMA InsertedSound ==
  ASSUME NEW c, NEW h, Sound(c, h), NEW e \in Slots, c.entry[e] = Free, NEW k \in Files,
         NEW d, d = Inserted(c, e, k)
  PROVE  Sound(d, HoldsNow(h, e, 1)) /\ (d.usage <= Capacity \/ d.lru = <<>>)
<1>1. CASE Capacity > 0
  <2> PICK m : m = Cached(c, e, k)
    OBVIOUS
  <2>1. Sound(m, HoldsNow(h, e, 1)) /\ d = Evict(m)
    BY <1>1, CachedSound DEF Inserted
  <2> QED
    BY <2>1, EvictSound
<1>2. CASE ~(Capacity > 0)
  <2> PICK m : m = NotCached(c, e, k)
    OBVIOUS
  <2>1. Sound(m, HoldsNow(h, e, 1)) /\ d = Evict(m)
    BY <1>2, NotCachedSound DEF Inserted
  <2> QED
    BY <2>1, EvictSound
<1> QED
  BY <1>1, <1>2

\* A shard in which no entry may be evicted, or which fits, is not too large.
LEMMA KeptFew ==
  ASSUME NEW c, NEW h, Sound(c, h), c.usage <= Capacity \/ c.lru = <<>>
  PROVE  Cardinality(Kept(c)) <= Capacity \/ \A e \in Kept(c) : h[e] > 0
<1>1. Listed(c, h)
  BY DEF Sound
<1>2. CASE c.usage <= Capacity
  <2>1. /\ Charging(c.entry, Kept(c)) /\ c.usage \in Nat /\ c.usage = ChargeOf(c.entry, Kept(c))
    BY <1>1, ListedIs DEF Listed
  <2>2. Cardinality(Kept(c)) <= c.usage /\ Cardinality(Kept(c)) \in Nat
    BY <2>1, ChargeIs, FS_CardinalityType DEF Charging
  <2> QED
    BY <1>2, <2>1, <2>2, CacheAssumption
<1>3. CASE c.lru = <<>>
  <2>1. Range(c.lru) = {}
    BY <1>3 DEF Range
  <2>2. Range(c.lru) = {e \in Kept(c) : c.entry[e].refs = 1}
    BY <1>1 DEF Listed
  <2>3. ASSUME NEW e \in Kept(c) PROVE h[e] > 0
    <3>1. e \in Slots /\ c.entry[e].in_cache
      BY DEF Kept
    <3>2. c.entry[e].refs = h[e] + 1 /\ h[e] \in Nat
      BY <1>1, <3>1 DEF Listed
    <3>3. c.entry[e].refs # 1
      BY <2>1, <2>2
    <3> QED
      BY <3>2, <3>3
  <2> QED
    BY <2>3
<1> QED
  BY <1>2, <1>3

-----------------------------------------------------------------------------
\* The references that the threads hold.
HeldBy(th) == [e \in Slots |-> Cardinality({t \in Threads : th[t].handle = e})]

ThreadStates == [pc : {"idle", "opens", "holds"}, key : Files \cup {None},
                 handle : Slots \cup {None}]
Most == Max({Capacity, Cardinality(Threads)})

LEMMA MostIs ==
  Most \in Nat /\ Capacity <= Most /\ Cardinality(Threads) <= Most /\ Cardinality(Threads) \in Nat
<1>1. Capacity \in Nat /\ Cardinality(Threads) \in Nat
  BY CacheAssumption, FS_CardinalityType
<1> PICK n : n = Cardinality(Threads)
  OBVIOUS
<1>2. \E x \in {Capacity, n} : \A y \in {Capacity, n} : x >= y
  BY <1>1
<1>3. /\ Max({Capacity, n}) \in {Capacity, n}
      /\ \A y \in {Capacity, n} : Max({Capacity, n}) >= y
  BY <1>2 DEF Max
<1> QED
  BY <1>1, <1>3 DEF Most

LEMMA HeldByIs ==
  ASSUME NEW th
  PROVE  /\ HeldBy(th) \in [Slots -> Nat]
         /\ \A e \in Slots : /\ HeldBy(th)[e] = Cardinality({t \in Threads : th[t].handle = e})
                             /\ HeldBy(th)[e] <= Cardinality(Threads)
                             /\ HeldBy(th)[e] > 0 <=> \E t \in Threads : th[t].handle = e
<1>1. \A e \in Slots : HeldBy(th)[e] = Cardinality({t \in Threads : th[t].handle = e})
  BY DEF HeldBy
<1>2. ASSUME NEW e \in Slots
      PROVE  /\ HeldBy(th)[e] \in Nat /\ HeldBy(th)[e] <= Cardinality(Threads)
             /\ HeldBy(th)[e] > 0 <=> \E t \in Threads : th[t].handle = e
  <2> DEFINE S == {t \in Threads : th[t].handle = e}
  <2>1. S \in SUBSET Threads /\ IsFiniteSet(Threads)
    BY CacheAssumption
  <2>2. S = {} <=> ~\E t \in Threads : th[t].handle = e
    OBVIOUS
  <2>3. HeldBy(th)[e] = Cardinality(S)
    BY <1>1
  <2> HIDE DEF S
  <2>4. IsFiniteSet(S) /\ Cardinality(S) <= Cardinality(Threads)
    BY <2>1, FS_Subset
  <2>5. Cardinality(S) \in Nat /\ (Cardinality(S) = 0 <=> S = {})
    BY <2>4, FS_CardinalityType, FS_EmptySet
  <2> QED
    BY <2>2, <2>3, <2>4, <2>5
<1>3. HeldBy(th) \in [Slots -> Nat]
  BY <1>2 DEF HeldBy
<1> QED
  BY <1>1, <1>2, <1>3

\* One thread takes a handle, or lets it go.
LEMMA Takes ==
  ASSUME NEW th, NEW t \in Threads, th[t].handle \notin Slots, NEW ti,
         NEW e \in Slots, ti[t].handle = e, \A u \in Threads \ {t} : ti[u] = th[u]
  PROVE  HeldBy(ti) = HoldsNow(HeldBy(th), e, HeldBy(th)[e] + 1)
<1> DEFINE S(x, y) == {u \in Threads : x[u].handle = y}
<1>1. HeldBy(th) \in [Slots -> Nat] /\ \A y \in Slots : HeldBy(th)[y] = Cardinality(S(th, y))
  BY HeldByIs
<1>2. HeldBy(ti) \in [Slots -> Nat] /\ \A y \in Slots : HeldBy(ti)[y] = Cardinality(S(ti, y))
  BY HeldByIs
<1>3. \A y \in Slots \ {e} : S(ti, y) = S(th, y)
  OBVIOUS
<1>4. S(ti, e) = S(th, e) \cup {t} /\ t \notin S(th, e) /\ S(th, e) \in SUBSET Threads
  OBVIOUS
<1> HIDE DEF S
<1>5. IsFiniteSet(S(th, e))
  BY <1>4, CacheAssumption, FS_Subset
<1>6. Cardinality(S(ti, e)) = Cardinality(S(th, e)) + 1
  BY <1>4, <1>5, FS_AddElement
<1>7. \A y \in Slots : HeldBy(ti)[y] = IF y = e THEN HeldBy(th)[e] + 1 ELSE HeldBy(th)[y]
  BY <1>1, <1>2, <1>3, <1>6
<1> QED
  BY <1>1, <1>2, <1>7 DEF HoldsNow

LEMMA LetsGo ==
  ASSUME NEW th, NEW t \in Threads, NEW e \in Slots, th[t].handle = e, NEW ti,
         ti[t].handle \notin Slots, \A u \in Threads \ {t} : ti[u] = th[u]
  PROVE  HeldBy(ti) = HoldsNow(HeldBy(th), e, HeldBy(th)[e] - 1) /\ HeldBy(th)[e] > 0
<1> PICK g : g = HeldBy(ti)
  OBVIOUS
<1> PICK h : h = HeldBy(th)
  OBVIOUS
<1>1. HeldBy(th) = HoldsNow(HeldBy(ti), e, HeldBy(ti)[e] + 1)
  BY Takes
<1>2. g \in [Slots -> Nat] /\ h \in [Slots -> Nat]
  BY HeldByIs
<1>3. \A y \in Slots : h[y] = IF y = e THEN g[e] + 1 ELSE g[y]
  BY <1>1, <1>2 DEF HoldsNow
<1>4. \A y \in Slots : g[y] = IF y = e THEN h[e] - 1 ELSE h[y]
  BY <1>2, <1>3
<1>5. g = [h EXCEPT ![e] = h[e] - 1] /\ h[e] > 0
  BY <1>2, <1>3, <1>4
<1> QED
  BY <1>5 DEF HoldsNow

LEMMA SameHandles ==
  ASSUME NEW th, NEW ti, \A u \in Threads : ti[u].handle = th[u].handle
  PROVE  HeldBy(ti) = HeldBy(th)
<1>1. \A e \in Slots : {u \in Threads : ti[u].handle = e} = {u \in Threads : th[u].handle = e}
  OBVIOUS
<1> QED
  BY <1>1 DEF HeldBy

\* Every entry that is held has a thread of its own, which opens no file.
LEMMA HeldFew ==
  ASSUME NEW th, \A t \in Threads : th[t].pc = "opens" => th[t].handle \notin Slots
  PROVE  LET H == {e \in Slots : HeldBy(th)[e] > 0}
             O == {t \in Threads : th[t].pc = "opens"}
         IN  /\ IsFiniteSet(H) /\ IsFiniteSet(O) /\ Cardinality(H) \in Nat /\ Cardinality(O) \in Nat
             /\ Cardinality(H) + Cardinality(O) <= Cardinality(Threads)
<1> DEFINE H == {e \in Slots : HeldBy(th)[e] > 0}
           O == {t \in Threads : th[t].pc = "opens"}
           B == {t \in Threads : th[t].handle \in Slots}
           f == [t \in B |-> th[t].handle]
<1>1. IsFiniteSet(Threads) /\ B \subseteq Threads /\ O \subseteq Threads /\ B \cap O = {}
  BY CacheAssumption
<1>2. f \in Surjection(B, H)
  <2>1. \A t \in B : f[t] \in H
    BY HeldByIs
  <2>2. ASSUME NEW e \in H PROVE \E t \in B : f[t] = e
    <3>1. e \in Slots /\ HeldBy(th)[e] > 0
      OBVIOUS
    <3>2. PICK t \in Threads : th[t].handle = e
      BY <3>1, HeldByIs
    <3> QED
      BY <3>1, <3>2
  <2> QED
    BY <2>1, <2>2 DEF Surjection
<1> HIDE DEF H, O, B, f
<1>3. /\ IsFiniteSet(B) /\ IsFiniteSet(O) /\ IsFiniteSet(B \cup O)
      /\ Cardinality(B \cup O) <= Cardinality(Threads)
  <2>1. B \cup O \subseteq Threads
    BY <1>1
  <2> QED
    BY <1>1, <2>1, FS_Subset
<1>4. IsFiniteSet(H) /\ Cardinality(H) <= Cardinality(B)
  BY <1>2, <1>3, FS_Surjection
<1>5. Cardinality(B \cup O) = Cardinality(B) + Cardinality(O)
  <2>1. Cardinality(B \cup O) = Cardinality(B) + Cardinality(O) - Cardinality(B \cap O)
    BY <1>3, FS_Union
  <2>2. Cardinality(B \cap O) = 0
    BY <1>1, FS_EmptySet
  <2>3. Cardinality(B) \in Nat /\ Cardinality(O) \in Nat
    BY <1>3, FS_CardinalityType
  <2> QED
    BY <2>1, <2>2, <2>3
<1>6. /\ Cardinality(B) \in Nat /\ Cardinality(O) \in Nat /\ Cardinality(H) \in Nat
      /\ Cardinality(Threads) \in Nat
  BY <1>1, <1>3, <1>4, FS_CardinalityType
<1>7. Cardinality(H) + Cardinality(O) <= Cardinality(Threads)
  BY <1>3, <1>4, <1>5, <1>6
<1> QED
  BY <1>3, <1>4, <1>6, <1>7 DEF H, O

-----------------------------------------------------------------------------
\* The inductive invariant.  What a thread does says what it holds; the shard is
\* right for the references of all threads; and it has no more entries than the
\* capacity or the threads allow.
Works(r) ==
  /\ r.pc = "idle" => r = IdleThread
  /\ r.pc = "opens" => r.key \in Files /\ r.handle = None
  /\ r.pc = "holds" => r.key \in Files /\ r.handle \in Slots

CacheInv ==
  /\ Sound(Shard, HeldBy(thread))
  /\ thread \in [Threads -> ThreadStates] /\ \A t \in Threads : Works(thread[t])
  /\ closed \in BOOLEAN
  /\ closed => Kept(Shard) = {} /\ \A t \in Threads : thread[t] = IdleThread
  /\ Cardinality(Kept(Shard)) <= Most

LEMMA BecomesIs ==
  ASSUME NEW d, NEW h, Sound(d, h), Becomes(d)
  PROVE  Shard' = d
<1>1. Listed(d, h)
  BY DEF Sound
<1>2. d = [entry |-> d.entry, table |-> d.table, lru |-> d.lru, in_use |-> d.in_use,
           usage |-> d.usage]
  BY <1>1, ListedIs
<1> QED
  BY <1>2 DEF Shard, Becomes

LEMMA ShardIs ==
  /\ Shard.entry = entry /\ Shard.table = table /\ Shard.lru = lru /\ Shard.in_use = in_use
  /\ Shard.usage = usage
BY DEF Shard

LEMMA KeptSmaller ==
  ASSUME NEW c, NEW d, NEW h, Listed(c, h), Kept(d) \subseteq Kept(c), Cardinality(Kept(c)) <= Most
  PROVE  Cardinality(Kept(d)) <= Most
<1>1. IsFiniteSet(Kept(c))
  BY ListedIs DEF Charging
<1>2. IsFiniteSet(Kept(d)) /\ Cardinality(Kept(d)) <= Cardinality(Kept(c))
  BY <1>1, FS_Subset
<1>3. Cardinality(Kept(d)) \in Nat /\ Cardinality(Kept(c)) \in Nat
  BY <1>1, <1>2, FS_CardinalityType
<1> QED
  BY <1>2, <1>3, MostIs

LEMMA KeptMost ==
  ASSUME NEW c, NEW th, Sound(c, HeldBy(th)), c.usage <= Capacity \/ c.lru = <<>>,
         \A t \in Threads : th[t].pc = "opens" => th[t].handle \notin Slots
  PROVE  Cardinality(Kept(c)) <= Most
<1> DEFINE H == {e \in Slots : HeldBy(th)[e] > 0}
           O == {t \in Threads : th[t].pc = "opens"}
<1>1. Listed(c, HeldBy(th))
  BY DEF Sound
<1>2. IsFiniteSet(Kept(c)) /\ Cardinality(Kept(c)) \in Nat
  BY <1>1, ListedIs, FS_CardinalityType DEF Charging
<1>3. CASE Cardinality(Kept(c)) <= Capacity
  BY <1>2, <1>3, MostIs, CacheAssumption
<1>4. CASE \A e \in Kept(c) : HeldBy(th)[e] > 0
  <2>1. Kept(c) \subseteq H
    BY <1>4 DEF Kept
  <2>2. /\ IsFiniteSet(H) /\ Cardinality(H) \in Nat /\ Cardinality(O) \in Nat
        /\ Cardinality(H) + Cardinality(O) <= Cardinality(Threads)
    BY HeldFew
  <2> HIDE DEF H, O
  <2>3. Cardinality(Kept(c)) <= Cardinality(H)
    BY <2>1, <2>2, FS_Subset
  <2> QED
    BY <1>2, <2>2, <2>3, MostIs
<1> QED
  BY <1>3, <1>4, KeptFew

LEMMA EmptySound ==
  ASSUME NEW c, NEW h \in [Slots -> Nat], \A e \in Slots : h[e] = 0,
         c = [entry |-> [s \in Slots |-> Free], table |-> [k \in Files |-> None],
              lru |-> <<>>, in_use |-> {}, usage |-> 0]
  PROVE  Sound(c, h) /\ Kept(c) = {}
<1> PICK en : en = [s \in Slots |-> Free]
  OBVIOUS
<1> PICK ta : ta = [k \in Files |-> None]
  OBVIOUS
<1>1. Free \in Handles /\ Free.refs = 0 /\ Free.in_cache = FALSE
  BY DEF Free, Handles
<1>2. /\ en \in [Slots -> Handles] /\ ta \in [Files -> Slots \cup {None}]
      /\ \A e \in Slots : en[e] = Free
      /\ \A k \in Files : ta[k] = None
  BY <1>1
<1>3. c.entry = en /\ c.table = ta /\ c.lru = <<>> /\ c.in_use = {} /\ c.usage = 0
      /\ c = [entry |-> en, table |-> ta, lru |-> <<>>, in_use |-> {}, usage |-> 0]
  OBVIOUS
<1>4. c \in Shards
  <2>1. <<>> \in Seq(Slots) /\ {} \subseteq Slots /\ 0 \in Nat
    BY EmptySeq
  <2> QED
    BY <1>2, <1>3, <2>1 DEF Shards
<1>5. Kept(c) = {}
  BY <1>1, <1>2, <1>3 DEF Kept
<1>6. Range(c.lru) = {} /\ IsInjective(c.lru)
  BY <1>3 DEF Range, IsInjective
<1>7. c.usage = ChargeOf(c.entry, Kept(c))
  BY <1>3, <1>5, ChargeNone
<1>8. \A e \in Slots : /\ c.entry[e].refs = h[e] + (IF c.entry[e].in_cache THEN 1 ELSE 0)
                       /\ c.entry[e].refs = 0 => c.entry[e] = Free
                       /\ c.entry[e].refs > 0 => c.entry[e].key \in Files
  BY <1>1, <1>2, <1>3
<1>9. Listed(c, h)
  BY <1>2, <1>3, <1>4, <1>5, <1>6, <1>7, <1>8 DEF Listed
<1> QED
  BY <1>5, <1>9 DEF Sound

LEMMA CacheInitInv == CacheInit => CacheInv
<1> SUFFICES ASSUME CacheInit PROVE CacheInv
  OBVIOUS
<1>1. \A t \in Threads : thread[t] = IdleThread
  BY DEF CacheInit
<1>2. IdleThread \in ThreadStates /\ Works(IdleThread) /\ IdleThread.handle = None
  BY DEF IdleThread, ThreadStates, Works
<1>3. thread \in [Threads -> ThreadStates] /\ \A t \in Threads : Works(thread[t])
  BY <1>1, <1>2 DEF CacheInit
<1>4. HeldBy(thread) \in [Slots -> Nat] /\ \A e \in Slots : HeldBy(thread)[e] = 0
  <2>1. \A e \in Slots : HeldBy(thread)[e] \in Nat /\ ~(HeldBy(thread)[e] > 0)
    <3> TAKE e \in Slots
    <3>1. ~\E t \in Threads : thread[t].handle = e
      BY <1>1, <1>2, SlotNames
    <3>2. HeldBy(thread) \in [Slots -> Nat] /\ ~(HeldBy(thread)[e] > 0)
      BY <3>1, HeldByIs
    <3> QED
      BY <3>2
  <2>2. HeldBy(thread) \in [Slots -> Nat]
    BY HeldByIs
  <2> QED
    BY <2>1, <2>2
<1>5. Sound(Shard, HeldBy(thread)) /\ Kept(Shard) = {}
  <2>1. Shard = [entry |-> [s \in Slots |-> Free], table |-> [k \in Files |-> None],
                 lru |-> <<>>, in_use |-> {}, usage |-> 0]
    BY DEF Shard, CacheInit
  <2> QED
    BY <1>4, <2>1, EmptySound
<1>6. Cardinality(Kept(Shard)) <= Most
  BY <1>5, FS_EmptySet, MostIs
<1> QED
  BY <1>1, <1>3, <1>5, <1>6 DEF CacheInv, CacheInit

\* A thread goes on: the threads stay of their type, and the others stay put.
LEMMA ThreadMoves ==
  ASSUME CacheInv, NEW t \in Threads, NEW r \in ThreadStates, Works(r),
         thread' = [thread EXCEPT ![t] = r]
  PROVE  /\ thread' \in [Threads -> ThreadStates] /\ thread'[t] = r
         /\ \A u \in Threads \ {t} : thread'[u] = thread[u]
         /\ \A u \in Threads : Works(thread'[u])
         /\ \A u \in Threads : thread'[u].pc = "opens" => thread'[u].handle \notin Slots
<1>1. /\ thread' \in [Threads -> ThreadStates] /\ thread'[t] = r
      /\ \A u \in Threads \ {t} : thread'[u] = thread[u]
  BY DEF CacheInv
<1>2. \A u \in Threads : Works(thread'[u])
  BY <1>1 DEF CacheInv
<1>3. \A u \in Threads : thread'[u].pc = "opens" => thread'[u].handle \notin Slots
  BY <1>2, SlotNames DEF Works
<1> QED
  BY <1>1, <1>2, <1>3

LEMMA HitKeeps ==
  ASSUME CacheInv, NEW t \in Threads, NEW k \in Files, Hit(t, k)
  PROVE  CacheInv'
<1> PICK h : h = HeldBy(thread)
  OBVIOUS
<1> PICK x : x = table[k]
  OBVIOUS
<1> PICK r : r = [pc |-> "holds", key |-> k, handle |-> x]
  OBVIOUS
<1>1. /\ ~closed /\ thread[t] = IdleThread /\ x # None /\ Becomes(Ref(Shard, x))
      /\ thread' = [thread EXCEPT ![t] = r] /\ closed' = closed
  BY DEF Hit
<1>2. Sound(Shard, h) /\ Listed(Shard, h) /\ Cardinality(Kept(Shard)) <= Most
  BY DEF CacheInv, Sound
<1>3. x \in Kept(Shard) /\ x \in Slots
  BY <1>1, <1>2, ShardIs DEF Listed, Kept
<1>4. r \in ThreadStates /\ Works(r) /\ r.handle = x /\ r.pc = "holds"
  BY <1>3 DEF ThreadStates, Works
<1>5. /\ thread' \in [Threads -> ThreadStates] /\ thread'[t] = r
      /\ \A u \in Threads \ {t} : thread'[u] = thread[u]
      /\ \A u \in Threads : Works(thread'[u])
  BY <1>1, <1>4, ThreadMoves
<1> PICK d : d = Ref(Shard, x)
  OBVIOUS
<1>6. Sound(d, HoldsNow(h, x, h[x] + 1)) /\ Kept(d) = Kept(Shard)
  BY <1>2, <1>3, RefSound
<1>7. HeldBy(thread') = HoldsNow(h, x, h[x] + 1)
  <2>1. thread[t].handle \notin Slots
    BY <1>1, SlotNames DEF IdleThread
  <2> QED
    BY <1>3, <1>4, <1>5, <2>1, Takes
<1>8. Shard' = d
  BY <1>1, <1>6, BecomesIs
<1>9. Sound(Shard', HeldBy(thread')) /\ Cardinality(Kept(Shard')) <= Most
  BY <1>2, <1>6, <1>7, <1>8
<1>10. closed' \in BOOLEAN /\ ~closed'
  BY <1>1 DEF CacheInv
<1> QED
  BY <1>5, <1>9, <1>10 DEF CacheInv

\* A thread that keeps the handle it has, or none, and leaves the shard alone.
LEMMA ShardStays ==
  ASSUME CacheInv, NEW t \in Threads, NEW r \in ThreadStates, Works(r), r.handle = thread[t].handle,
         thread' = [thread EXCEPT ![t] = r], UNCHANGED cache, ~closed, UNCHANGED closed
  PROVE  CacheInv'
<1>1. /\ thread' \in [Threads -> ThreadStates] /\ thread'[t] = r
      /\ \A u \in Threads \ {t} : thread'[u] = thread[u]
      /\ \A u \in Threads : Works(thread'[u])
  BY ThreadMoves
<1>2. \A u \in Threads : thread'[u].handle = thread[u].handle
  BY <1>1
<1>3. HeldBy(thread') = HeldBy(thread)
  BY <1>2, SameHandles
<1>4. Shard' = Shard
  BY DEF Shard, cache
<1>5. Sound(Shard', HeldBy(thread')) /\ Cardinality(Kept(Shard')) <= Most
  BY <1>3, <1>4 DEF CacheInv
<1>6. closed' \in BOOLEAN /\ ~closed'
  BY DEF CacheInv
<1> QED
  BY <1>1, <1>5, <1>6 DEF CacheInv

LEMMA MissKeeps ==
  ASSUME CacheInv, NEW t \in Threads, NEW k \in Files, Miss(t, k)
  PROVE  CacheInv'
<1> PICK r : r = [pc |-> "opens", key |-> k, handle |-> None]
  OBVIOUS
<1>1. /\ ~closed /\ thread[t] = IdleThread
      /\ thread' = [thread EXCEPT ![t] = r] /\ UNCHANGED cache /\ UNCHANGED closed
  BY DEF Miss
<1>2. r \in ThreadStates /\ Works(r) /\ r.handle = None
  BY DEF ThreadStates, Works
<1>3. thread[t].handle = None
  BY <1>1 DEF IdleThread
<1> QED
  BY <1>1, <1>2, <1>3, ShardStays

LEMMA OpenFailsKeeps ==
  ASSUME CacheInv, NEW t \in Threads, OpenFails(t)
  PROVE  CacheInv'
<1> PICK r : r = IdleThread
  OBVIOUS
<1>1. /\ thread[t].pc = "opens"
      /\ thread' = [thread EXCEPT ![t] = r] /\ UNCHANGED cache /\ UNCHANGED closed
  BY DEF OpenFails
<1>2. r \in ThreadStates /\ Works(r) /\ r.handle = None
  BY DEF ThreadStates, Works, IdleThread
<1>3. thread[t].handle = None /\ ~closed
  BY <1>1 DEF CacheInv, Works, IdleThread
<1> QED
  BY <1>1, <1>2, <1>3, ShardStays

LEMMA StateChanges ==
  ASSUME NEW w \in ThreadStates, NEW p, NEW e, NEW v, v = [w EXCEPT !.pc = p, !.handle = e]
  PROVE  v = [pc |-> p, key |-> w.key, handle |-> e]
BY DEF ThreadStates

LEMMA InsertKeeps ==
  ASSUME CacheInv, NEW t \in Threads, NEW e \in Slots, Insert(t, e)
  PROVE  CacheInv'
<1> PICK h : h = HeldBy(thread)
  OBVIOUS
<1> PICK k : k = thread[t].key
  OBVIOUS
<1> PICK r : r = [pc |-> "holds", key |-> k, handle |-> e]
  OBVIOUS
<1>1. /\ thread[t].pc = "opens" /\ entry[e] = Free /\ Becomes(Inserted(Shard, e, k))
      /\ closed' = closed
  BY DEF Insert
<1>2. Sound(Shard, h) /\ Listed(Shard, h) /\ thread[t] \in ThreadStates
  BY DEF CacheInv, Sound
<1>3. k \in Files /\ thread[t].handle = None /\ ~closed
  BY <1>1 DEF CacheInv, Works, IdleThread
<1>4. thread' = [thread EXCEPT ![t] = r]
  <2> PICK w : w = thread[t]
    OBVIOUS
  <2> PICK v : v = [w EXCEPT !.pc = "holds", !.handle = e]
    OBVIOUS
  <2>1. v = r
    <3>1. w \in ThreadStates /\ w.key = k
      BY <1>2
    <3>2. v = [pc |-> "holds", key |-> w.key, handle |-> e]
      BY <3>1, StateChanges
    <3> QED
      BY <3>1, <3>2
  <2>2. thread' = [thread EXCEPT ![t].pc = "holds", ![t].handle = e]
        /\ thread \in [Threads -> ThreadStates]
    BY DEF Insert, CacheInv
  <2>3. thread' = [thread EXCEPT ![t] = v]
    BY <2>2
  <2> QED
    BY <2>1, <2>3
<1>5. r \in ThreadStates /\ Works(r) /\ r.handle = e /\ r.pc = "holds"
  BY <1>3 DEF ThreadStates, Works
<1>6. /\ thread' \in [Threads -> ThreadStates] /\ thread'[t] = r
      /\ \A u \in Threads \ {t} : thread'[u] = thread[u]
      /\ \A u \in Threads : Works(thread'[u])
      /\ \A u \in Threads : thread'[u].pc = "opens" => thread'[u].handle \notin Slots
  BY <1>4, <1>5, ThreadMoves
<1> PICK d : d = Inserted(Shard, e, k)
  OBVIOUS
<1>7. Sound(d, HoldsNow(h, e, 1)) /\ (d.usage <= Capacity \/ d.lru = <<>>)
  BY <1>1, <1>2, <1>3, ShardIs, InsertedSound
<1>8. h[e] = 0
  <2>1. Shard.entry[e].refs = h[e] + (IF Shard.entry[e].in_cache THEN 1 ELSE 0) /\ h[e] \in Nat
    BY <1>2 DEF Listed
  <2>2. Shard.entry[e].refs = 0 /\ ~Shard.entry[e].in_cache
    BY <1>1, ShardIs DEF Free
  <2> QED
    BY <2>1, <2>2
<1>9. HeldBy(thread') = HoldsNow(h, e, 1)
  <2>1. HeldBy(thread') = HoldsNow(h, e, h[e] + 1)
    BY <1>3, <1>5, <1>6, SlotNames, Takes
  <2>2. h[e] + 1 = 1
    BY <1>8
  <2> QED
    BY <2>1, <2>2
<1>10. Shard' = d
  BY <1>1, <1>7, BecomesIs
<1>11. Sound(d, HeldBy(thread'))
  BY <1>7, <1>9
<1>12. Cardinality(Kept(d)) <= Most
  BY <1>6, <1>7, <1>11, KeptMost
<1>13. closed' \in BOOLEAN /\ ~closed'
  BY <1>1, <1>3 DEF CacheInv
<1> QED
  BY <1>6, <1>10, <1>11, <1>12, <1>13 DEF CacheInv

LEMMA ReleaseKeeps ==
  ASSUME CacheInv, NEW t \in Threads, Release(t)
  PROVE  CacheInv'
<1> PICK h : h = HeldBy(thread)
  OBVIOUS
<1> PICK x : x = thread[t].handle
  OBVIOUS
<1> PICK r : r = IdleThread
  OBVIOUS
<1>1. /\ thread[t].pc = "holds" /\ Becomes(Unref(Shard, x))
      /\ thread' = [thread EXCEPT ![t] = r] /\ closed' = closed
  BY DEF Release
<1>2. Sound(Shard, h) /\ Cardinality(Kept(Shard)) <= Most
  BY DEF CacheInv
<1>3. x \in Slots /\ ~closed
  BY <1>1 DEF CacheInv, Works, IdleThread
<1>4. r \in ThreadStates /\ Works(r) /\ r.handle = None
  BY DEF ThreadStates, Works, IdleThread
<1>5. /\ thread' \in [Threads -> ThreadStates] /\ thread'[t] = r
      /\ \A u \in Threads \ {t} : thread'[u] = thread[u]
      /\ \A u \in Threads : Works(thread'[u])
  BY <1>1, <1>4, ThreadMoves
<1>6. HeldBy(thread') = HoldsNow(h, x, h[x] - 1) /\ h[x] > 0
  BY <1>3, <1>4, <1>5, SlotNames, LetsGo
<1> PICK d : d = Unref(Shard, x)
  OBVIOUS
<1>7. Sound(d, HoldsNow(h, x, h[x] - 1)) /\ Kept(d) = Kept(Shard)
  BY <1>2, <1>3, <1>6, UnrefSound
<1>8. Shard' = d
  BY <1>1, <1>7, BecomesIs
<1>9. Sound(Shard', HeldBy(thread')) /\ Cardinality(Kept(Shard')) <= Most
  BY <1>2, <1>6, <1>7, <1>8
<1>10. closed' \in BOOLEAN /\ ~closed'
  BY <1>1, <1>3 DEF CacheInv
<1> QED
  BY <1>5, <1>9, <1>10 DEF CacheInv

\* Entries leave the shard; the threads go on.
LEMMA ShrinkKeeps ==
  ASSUME CacheInv, NEW d, Sound(d, HeldBy(thread)), Kept(d) \subseteq Kept(Shard), Becomes(d),
         ~closed, UNCHANGED <<thread, closed>>
  PROVE  CacheInv'
<1>1. Shard' = d
  BY BecomesIs
<1>2. Listed(Shard, HeldBy(thread)) /\ Cardinality(Kept(Shard)) <= Most
  BY DEF CacheInv, Sound
<1>3. Cardinality(Kept(d)) <= Most
  BY <1>2, KeptSmaller
<1>4. HeldBy(thread') = HeldBy(thread) /\ thread' = thread /\ closed' = closed
  OBVIOUS
<1> QED
  BY <1>1, <1>3, <1>4 DEF CacheInv

LEMMA EraseKeeps ==
  ASSUME CacheInv, NEW k \in Files, Erase(k)
  PROVE  CacheInv'
<1> PICK d : d = Erased(Shard, k)
  OBVIOUS
<1>1. Sound(d, HeldBy(thread)) /\ Kept(d) \subseteq Kept(Shard)
  BY ErasedSound DEF CacheInv
<1> QED
  BY <1>1, ShrinkKeeps DEF Erase

LEMMA PruneKeeps ==
  ASSUME CacheInv, Prune
  PROVE  CacheInv'
<1> PICK h : h = HeldBy(thread)
  OBVIOUS
<1> PICK d : d = EvictOldest(Shard, Len(lru))
  OBVIOUS
<1>1. Sound(Shard, h) /\ Listed(Shard, h)
  BY DEF CacheInv, Sound
<1>2. Len(lru) \in 0 .. Len(Shard.lru)
  BY <1>1, ShardIs, ListedIs, LenProperties
<1>3. Evicted(Shard, h, d, Len(lru))
  BY <1>1, <1>2, EvictOldestSound
<1>4. Sound(d, HeldBy(thread)) /\ Kept(d) \subseteq Kept(Shard)
  BY <1>3 DEF Evicted
<1> QED
  BY <1>4, ShrinkKeeps DEF Prune

LEMMA DestroyKeeps ==
  ASSUME CacheInv, Destroy
  PROVE  CacheInv'
<1> PICK h : h = HeldBy(thread)
  OBVIOUS
<1>1. \A t \in Threads : thread[t] = IdleThread
  BY DEF Destroy
<1>2. h \in [Slots -> Nat] /\ \A e \in Slots : h[e] = 0
  <2>1. h \in [Slots -> Nat]
    BY HeldByIs
  <2>2. ASSUME NEW e \in Slots PROVE ~(h[e] > 0)
    <3>1. ~\E t \in Threads : thread[t].handle = e
      BY <1>1, SlotNames DEF IdleThread
    <3> QED
      BY <3>1, HeldByIs
  <2> QED
    BY <2>1, <2>2
<1>3. Listed(Shard, h)
  BY DEF CacheInv, Sound
<1>4. \A e \in Slots : /\ entry[e].refs = IF entry[e].in_cache THEN 1 ELSE 0
                       /\ entry[e].refs = 0 => entry[e] = Free
  BY <1>2, <1>3, ShardIs DEF Listed
<1>5. Range(lru) = {e \in Slots : entry[e].in_cache}
  BY <1>3, <1>4, ShardIs DEF Listed, Kept
<1>6. in_use = {}
  BY <1>3, <1>4, ShardIs DEF Listed, Kept
<1>7. entry' = [s \in Slots |-> Free]
  <2>1. \A e \in Slots : (IF e \in Range(lru) THEN Free ELSE entry[e]) = Free
    BY <1>4, <1>5
  <2> QED
    BY <2>1 DEF Destroy
<1>8. Shard' = [entry |-> [s \in Slots |-> Free], table |-> [k \in Files |-> None],
                lru |-> <<>>, in_use |-> {}, usage |-> 0]
  BY <1>6, <1>7 DEF Shard, Destroy
<1>9. Sound(Shard', h) /\ Kept(Shard') = {}
  BY <1>2, <1>8, EmptySound
<1>10. HeldBy(thread') = h /\ thread' = thread /\ closed' = TRUE
  BY DEF Destroy
<1>11. Cardinality(Kept(Shard')) <= Most
  BY <1>9, FS_EmptySet, MostIs
<1> QED
  BY <1>1, <1>9, <1>10, <1>11 DEF CacheInv

\* Every call of the shard, and every step of a thread, keeps the invariant.
THEOREM CacheInvariant == CacheSpec => []CacheInv
<1>1. CacheInv /\ [CacheNext]_cacheVars => CacheInv'
  <2> SUFFICES ASSUME CacheInv, [CacheNext]_cacheVars PROVE CacheInv'
    OBVIOUS
  <2>1. CASE UNCHANGED cacheVars
    <3>1. Shard' = Shard /\ thread' = thread /\ closed' = closed
      BY <2>1 DEF cacheVars, Shard
    <3> QED
      BY <3>1 DEF CacheInv
  <2>2. ASSUME NEW t \in Threads, NEW k \in Files, Hit(t, k) \/ Miss(t, k) PROVE CacheInv'
    BY <2>2, HitKeeps, MissKeeps
  <2>3. ASSUME NEW t \in Threads, OpenFails(t) \/ Release(t) PROVE CacheInv'
    BY <2>3, OpenFailsKeeps, ReleaseKeeps
  <2>4. ASSUME NEW t \in Threads, NEW e \in Slots, Insert(t, e) PROVE CacheInv'
    BY <2>4, InsertKeeps
  <2>5. ASSUME NEW k \in Files, Erase(k) PROVE CacheInv'
    BY <2>5, EraseKeeps
  <2> QED
    BY <2>1, <2>2, <2>3, <2>4, <2>5, PruneKeeps, DestroyKeeps DEF CacheNext
<1> QED
  BY <1>1, CacheInitInv, PTL DEF CacheSpec

\* What CacheExact promises follows.
LEMMA CacheInvExact == CacheInv => CacheExact
<1> SUFFICES ASSUME CacheInv PROVE CacheExact
  OBVIOUS
<1> PICK h : h = HeldBy(thread)
  OBVIOUS
<1>1. /\ Sound(Shard, h) /\ Listed(Shard, h) /\ thread \in [Threads -> ThreadStates]
      /\ Cardinality(Kept(Shard)) <= Most /\ closed \in BOOLEAN
  BY DEF CacheInv, Sound
<1>2. Kept(Shard) = InCache /\ InCache \subseteq Slots
  BY ShardIs DEF Kept, InCache
<1>3. \A e \in Slots : /\ entry[e].refs = h[e] + (IF entry[e].in_cache THEN 1 ELSE 0)
                       /\ entry[e].refs = 0 => entry[e] = Free
                       /\ entry[e].refs > 0 => entry[e].key \in Files
  BY <1>1, ShardIs DEF Listed
<1>4. /\ h \in [Slots -> Nat]
      /\ \A e \in Slots : h[e] = Cardinality(Holders(e)) /\ h[e] <= Cardinality(Threads)
  BY HeldByIs DEF Holders
<1>5. /\ entry \in [Slots -> Handles] /\ table \in [Files -> Slots \cup {None}]
      /\ lru \in Seq(Slots) /\ in_use \subseteq Slots /\ usage \in Nat
      /\ IsFiniteSet(InCache)
      /\ \A e \in InCache : entry[e].key \in Files
  BY <1>1, <1>2, ShardIs, ListedIs DEF Charging
<1>6. FreedOnce
  BY <1>3, <1>4 DEF FreedOnce
<1>7. ListsExact
  <2>1. /\ Range(lru) = {e \in InCache : entry[e].refs = 1}
        /\ in_use = {e \in InCache : entry[e].refs >= 2}
        /\ \A k \in Files : table[k] # None => table[k] \in InCache /\ entry[table[k]].key = k
        /\ usage = ChargeOf(entry, InCache)
    BY <1>1, <1>2, ShardIs DEF Listed
  <2>2. \A e \in InCache : table[entry[e].key] = e
    BY <1>1, <1>2, ShardIs DEF Sound
  <2>3. InCache = {table[k] : k \in Files} \ {None}
    BY <1>2, <1>5, <2>1, <2>2, SlotNames
  <2>4. usage = MapThenSumSet(LAMBDA e : Charge(entry[e].key), InCache)
    BY <2>1 DEF ChargeOf
  <2> QED
    BY <2>1, <2>3, <2>4 DEF ListsExact
<1>8. CacheTypeOK
  <2>1. \A e \in Slots : entry[e].refs \in 0 .. Cardinality(Threads) + 1
    BY <1>3, <1>4, MostIs
  <2>2. entry \in [Slots -> [key : Files \cup {None}, refs : 0 .. Cardinality(Threads) + 1,
                             in_cache : BOOLEAN]]
    <3> PICK n : n = Cardinality(Threads) + 1
      OBVIOUS
    <3> DEFINE R == [key : Files \cup {None}, refs : 0 .. n, in_cache : BOOLEAN]
    <3>1. ASSUME NEW e \in Slots PROVE entry[e] \in R
      <4>1. entry[e] \in Handles /\ entry[e].refs \in 0 .. n
        BY <1>5, <2>1
      <4> QED
        BY <4>1 DEF Handles
    <3> HIDE DEF R
    <3>2. entry \in [Slots -> R]
      BY <1>5, <3>1
    <3> QED
      BY <3>2 DEF R
  <2>3. IsInjective(lru)
    BY <1>1, ShardIs DEF Listed
  <2> QED
    BY <1>1, <1>5, <2>2, <2>3 DEF CacheTypeOK, ThreadStates
<1>9. OpenFilesBounded
  <2> DEFINE H == {e \in Slots : h[e] > 0}
             O == {t \in Threads : thread[t].pc = "opens"}
  <2>1. Alive \subseteq H \cup InCache
    <3>1. ASSUME NEW e \in Alive, e \notin InCache PROVE h[e] > 0
      <4>1. e \in Slots /\ entry[e] # Free /\ ~entry[e].in_cache
        BY <3>1 DEF Alive, InCache
      <4>2. entry[e].refs = h[e] /\ h[e] \in Nat /\ entry[e].refs # 0
        BY <1>3, <1>4, <4>1
      <4> QED
        BY <4>2
    <3> QED
      BY <3>1 DEF Alive
  <2>2. /\ IsFiniteSet(H) /\ Cardinality(H) \in Nat /\ Cardinality(O) \in Nat
        /\ Cardinality(H) + Cardinality(O) <= Cardinality(Threads)
    <3>1. \A t \in Threads : thread[t].pc = "opens" => thread[t].handle \notin Slots
      BY SlotNames DEF CacheInv, Works
    <3> QED
      BY <3>1, HeldFew
  <2> HIDE DEF H, O
  <2>3. Cardinality(Alive) <= Cardinality(H) + Cardinality(InCache) /\ Cardinality(Alive) \in Nat
        /\ Cardinality(InCache) \in Nat
    <3>1. /\ IsFiniteSet(H \cup InCache)
          /\ Cardinality(H \cup InCache) = Cardinality(H) + Cardinality(InCache) - Cardinality(H \cap InCache)
      BY <1>5, <2>2, FS_Union
    <3>2. IsFiniteSet(Alive) /\ Cardinality(Alive) <= Cardinality(H \cup InCache)
      BY <2>1, <3>1, FS_Subset
    <3>3. IsFiniteSet(H \cap InCache)
      <4>1. H \cap InCache \subseteq H
        OBVIOUS
      <4> QED
        BY <2>2, <4>1, FS_Subset
    <3>4. /\ Cardinality(H \cap InCache) \in Nat /\ Cardinality(InCache) \in Nat
          /\ Cardinality(Alive) \in Nat /\ Cardinality(H \cup InCache) \in Nat
      BY <1>5, <3>1, <3>2, <3>3, FS_CardinalityType
    <3> QED
      BY <2>2, <3>1, <3>2, <3>4
  <2>4. Cardinality(Alive) + Cardinality(O) <= Cardinality(Threads) + Most
    BY <1>1, <1>2, <2>2, <2>3, MostIs
  <2> QED
    BY <2>4 DEF OpenFilesBounded, Most, O
<1>10. NothingLeaks
  <2> SUFFICES ASSUME closed, NEW e \in Alive PROVE FALSE
    BY DEF NothingLeaks
  <2>1. InCache = {} /\ \A t \in Threads : thread[t] = IdleThread
    BY <1>2 DEF CacheInv
  <2>2. e \in Slots /\ entry[e] # Free /\ ~entry[e].in_cache
    BY <2>1 DEF Alive, InCache
  <2>3. ~\E t \in Threads : thread[t].handle = e
    BY <2>1, <2>2, SlotNames DEF IdleThread
  <2>4. ~(h[e] > 0) /\ h[e] \in Nat
    <3>1. ~(HeldBy(thread)[e] > 0)
      BY <2>2, <2>3, HeldByIs
    <3> QED
      BY <1>4, <2>2, <3>1
  <2> QED
    BY <1>3, <2>2, <2>4
<1> QED
  BY <1>6, <1>7, <1>8, <1>9, <1>10 DEF CacheExact

\* However threads look up, insert, erase and prune: an entry is on the list that
\* its references call for, it is freed when the last of them goes, and the files
\* that are open never outnumber the bound (the comments on LRUCache in cache.cc,
\* and TableCache::FindTable).
THEOREM AlwaysCacheExact == CacheSpec => []CacheExact
BY CacheInvariant, CacheInvExact, PTL
================================================================================
