--------------------------- MODULE SyncTree_proofs ---------------------------
(***************************************************************************)
(* Proofs about SyncTree, for any location with finitely many children,    *)
(* any number of writes and any writes of other clients: every view has    *)
(* one source, observers were told what the views show, and, while the     *)
(* answers to writes are applied in order, views and the cached visible    *)
(* writes are exact.                                                       *)
(***************************************************************************)
EXTENDS SyncTree, FiniteSetTheorems, SequenceTheorems, WellFoundedInduction, TLAPS

-----------------------------------------------------------------------------
\* What the variables hold.
Values == Nat \cup {None}
Node == [Children -> Values]
Compounds == [root : BOOLEAN, node : [Children -> WriteIds \cup {None, Unwritten}]]
Caches == [server : Node, serverFull : BOOLEAN, event : Node, eventFull : BOOLEAN, on : BOOLEAN]

\* Writes of whole nodes and merges only, so all of them at the location.
Whole == Forms \subseteq {"set", "merge"}

Changed(ids) == UNION {[cs -> ids \cup {None}] : cs \in SUBSET Children}

RecordsWith(ids) ==
  {r \in [id : ids, path : Paths, merge : BOOLEAN, data : Changed(ids), visible : {TRUE}] :
     /\ r.merge => r.path = Root
     /\ r.path # Root => DOMAIN r.data = {r.path}
     /\ r.path = Root /\ ~r.merge => DOMAIN r.data = Children
     /\ Whole => r.path = Root}

Records == RecordsWith(WriteIds)
Acks == [kind : {"ack"}, id : WriteIds, ok : BOOLEAN]

Requests ==
  [kind : {"listen"}, path : Paths, spec : Nat, node : Node]
    \cup [kind : {"unlisten"}, path : Paths] \cup [kind : {"put"}, record : Records]

Messages ==
  [kind : {"data"}, path : Paths, node : Node] \cup [kind : {"merge"}, changed : Changed(Nat)]
    \cup [kind : {"listen"}, path : Paths, spec : Nat, ok : BOOLEAN] \cup Acks

Trees ==
  [all : Seq(Records), visible : Compounds, last : -1 .. MaxWrites,
   view : [Paths -> Caches], told : [Paths -> Node], rows : [Children -> Nat]]

Types ==
  /\ Tree \in Trees
  /\ written \in 0 .. MaxWrites
  /\ listens \in [Paths -> Nat] /\ specs \in Nat /\ unacked \in Nat
  /\ puts \in Seq(Records) /\ heldAcks \in Seq(Acks)
  /\ connected \in BOOLEAN
  /\ toServer \in Seq(Requests) /\ toClient \in Seq(Messages)
  /\ data \in Node /\ serving \in SUBSET Paths
  /\ remote \in Nat /\ drops \in Nat

-----------------------------------------------------------------------------
\* What layering records gives, child by child: the last record that says
\* something of a child decides.
Writes(records, i, c) == i \in DOMAIN records /\ c \in DOMAIN records[i].data
LastWrites(records, i, c) ==
  Writes(records, i, c) /\ \A j \in DOMAIN records : j > i => c \notin DOMAIN records[j].data

IsSet(record) == record.path = Root /\ ~record.merge

Layered(compound, records) ==
  /\ compound \in Compounds
  /\ compound.root <=> \E i \in DOMAIN records : IsSet(records[i])
  /\ \A c \in Children :
       /\ compound.node[c] = Unwritten <=> \A i \in DOMAIN records : c \notin DOMAIN records[i].data
       /\ \A i \in DOMAIN records :
            LastWrites(records, i, c) => compound.node[c] = records[i].data[c]

Rising(records) == \A i, j \in DOMAIN records : i < j => records[i].id < records[j].id

\* The pending writes of a tree are in the order of their ids.
Ordered(t) == Rising(t.all) /\ \A i \in DOMAIN t.all : t.all[i].id <= t.last

\* A view shows what it has from the server with the writes w over it.
Shows(v, w, p) ==
  IF v.on
  THEN /\ v.event = WithWrites(w, p, v.server)
       /\ v.serverFull \/ Shadowing(w, p) => v.eventFull
       /\ \A c \in Children \ Below(p) : v.server[c] = None
  ELSE v = NoView

\* What the observers were told.
Told(t) ==
  /\ \A p \in Paths : t.view[p].eventFull => t.told[p] = t.view[p].event
  /\ \A c \in Children : t.view[Root].on /\ t.view[Root].event[c] # None => t.rows[c] >= 1

\* Every view that is off is nothing.
OffIsNothing(t) == \A p \in Paths : ~t.view[p].on => t.view[p] = NoView

\* What every tree of a state is.
Good(t) == t \in Trees /\ Ordered(t) /\ OffIsNothing(t) /\ Told(t)

\* Every view of t shows its pending writes over what it has from the server.
ViewsShow(t) == \A p \in Paths : Shows(t.view[p], t.visible, p)
TreeExact(t) == Layered(t.visible, t.all) /\ ViewsShow(t)

-----------------------------------------------------------------------------
\* The connection.  What is on its way is counted and in order.
Has(s, m) == \E i \in DOMAIN s : s[i] = m
Before(s, m, n) == \E i, j \in DOMAIN s : i < j /\ s[i] = m /\ s[j] = n

Lost == ~connected => toServer = <<>> /\ toClient = <<>> /\ unacked = 0 /\ serving = {}

Counted == unacked = Cardinality(ListensIn(toServer)) + Cardinality(ListensIn(toClient))

\* Listen spec of path q is among the requests s, or its answer among the messages c.
IsListen(m, q, spec) == m.kind = "listen" /\ m.path = q /\ m.spec = spec
Asked(s, c, q, spec) ==
  \/ \E m \in Requests : Has(s, m) /\ IsListen(m, q, spec)
  \/ \E m \in Messages : Has(c, m) /\ IsListen(m, q, spec)

Source(p) == IF On(Root) THEN Root ELSE p

Sourced ==
  \A p \in Paths : On(p) /\ connected /\ ~view[p].serverFull =>
    Asked(toServer, toClient, Source(p), listens[Source(p)])

\* The pending writes are those whose answer is held, then those without one.
Queued ==
  /\ Len(allWrites) = Len(heldAcks) + Len(puts)
  /\ \A k \in DOMAIN heldAcks : allWrites[k].id = heldAcks[k].id
  /\ \A k \in DOMAIN puts : allWrites[Len(heldAcks) + k] = puts[k]
  /\ lastWriteId <= written

\* Each of the puts ps is among the requests s, or its acknowledgement among the
\* messages c, in order.
IsAck(m) == m.kind = "ack"
IsPut(m) == m.kind = "put"
Flight(s, c, ps, on) ==
  /\ \A m, n \in Messages : Before(c, m, n) /\ IsAck(m) /\ IsAck(n) => m.id < n.id
  /\ \A m, n \in Requests : Before(s, m, n) /\ IsPut(m) /\ IsPut(n) => m.record.id < n.record.id
  /\ \A m \in Messages, n \in Requests :
       Has(c, m) /\ IsAck(m) /\ Has(s, n) /\ IsPut(n) => m.id < n.record.id
  /\ \A m \in Messages : Has(c, m) /\ IsAck(m) => \E r \in Records : Has(ps, r) /\ r.id = m.id
  /\ \A m \in Requests : Has(s, m) /\ IsPut(m) => Has(ps, m.record)
  /\ on => \A r \in Records : Has(ps, r) =>
       \/ \E m \in Messages : Has(c, m) /\ IsAck(m) /\ m.id = r.id
       \/ \E m \in Requests : Has(s, m) /\ IsPut(m) /\ m.record = r

InFlight == Flight(toServer, toClient, puts, connected)

\* An acknowledgement that is held while no listen is unanswered outlived its
\* connection: then nothing is listened to.
HeldAlone == connected /\ unacked = 0 /\ heldAcks # <<>> => \A p \in Paths : listens[p] = 0

NeverLost == MaxDrops = 0 => connected /\ (unacked = 0 => heldAcks = <<>>)

Timely == Whole \/ MaxDrops = 0

ListenInv == Types /\ ListensCover /\ (\A p \in Paths : listens[p] <= specs) /\ Good(Tree)

NetInv == Lost /\ Counted /\ Sourced /\ Queued /\ InFlight /\ HeldAlone /\ NeverLost

Inv == ListenInv /\ NetInv

-----------------------------------------------------------------------------
(* Numbers and sequences.                                                  *)

\* Every non-empty set of numbers has a least element: what an induction over
\* a sequence rests on.
LEMMA Least ==
  ASSUME NEW T, T \subseteq Nat, T # {}
  PROVE  \E x \in T : \A y \in T : x <= y
<1>. DEFINE R == {ss \in Nat \X Nat : ss[1] < ss[2]}
<1>1. IsWellFoundedOn(R, Nat)
  BY NatLessThanWellFounded DEF OpToRel
<1>2. \E x \in T : \A y \in T : ~(<<y, x>> \in R)
  <2>. HIDE DEF R
  <2>. QED
    BY <1>1, WFMin
<1>3. \A x, y \in Nat : <<y, x>> \in R <=> y < x
  OBVIOUS
<1>. HIDE DEF R
<1>4. PICK x \in T : \A y \in T : ~(<<y, x>> \in R)
  BY <1>2
<1>5. ASSUME NEW y \in T
      PROVE  x <= y
  <2>1. x \in Nat /\ y \in Nat /\ ~(y < x)
    BY <1>3, <1>4
  <2>. QED
    BY <2>1
<1>. QED
  BY <1>5

\* Every non-empty set of the indexes of a sequence has a greatest element: the
\* last of several writes of one child exists.
LEMMA Greatest ==
  ASSUME NEW n \in Nat, NEW T, T \subseteq 1 .. n, T # {}
  PROVE  \E x \in T : \A y \in T : y <= x
<1>. DEFINE U == {u \in 0 .. n : n - u \in T}
<1>1. U \subseteq Nat /\ U # {}
  <2>1. PICK y : y \in T
    OBVIOUS
  <2>2. n - y \in 0 .. n /\ n - (n - y) = y
    BY <2>1
  <2>3. n - y \in U
    BY <2>1, <2>2
  <2>. QED
    BY <2>3
<1>2. PICK u \in U : \A v \in U : u <= v
  <2>. HIDE DEF U
  <2>. QED
    BY <1>1, Least
<1>3. n - u \in T /\ u \in 0 .. n
  OBVIOUS
<1>4. ASSUME NEW y \in T
      PROVE  y <= n - u
  <2>1. y \in 1 .. n /\ n - y \in 0 .. n /\ n - (n - y) = y
    OBVIOUS
  <2>2. n - y \in U
    BY <2>1
  <2>3. u <= n - y
    BY <1>2, <2>2
  <2>. QED
    BY <1>3, <2>1, <2>3
<1>. QED
  BY <1>3, <1>4

\* What a tail holds: taking a message from a queue moves the others down by one.
LEMMA TailAt ==
  ASSUME NEW S, NEW s \in Seq(S), s # <<>>
  PROVE  /\ Tail(s) \in Seq(S) /\ Head(s) = s[1] /\ 1 \in DOMAIN s /\ s[1] \in S
         /\ Len(s) \in Nat \ {0} /\ DOMAIN s = 1 .. Len(s)
         /\ Len(Tail(s)) = Len(s) - 1 /\ DOMAIN Tail(s) = 1 .. (Len(s) - 1)
         /\ \A k \in DOMAIN Tail(s) : k + 1 \in DOMAIN s /\ Tail(s)[k] = s[k + 1]
BY HeadTailProperties, LenProperties, EmptySeq, ElementOfSeq

\* What an appended sequence holds: a message sent goes last.
LEMMA AppendAt ==
  ASSUME NEW S, NEW s \in Seq(S), NEW e \in S
  PROVE  /\ Append(s, e) \in Seq(S) /\ Len(s) \in Nat /\ DOMAIN s = 1 .. Len(s)
         /\ Len(Append(s, e)) = Len(s) + 1 /\ DOMAIN Append(s, e) = 1 .. (Len(s) + 1)
         /\ \A k \in DOMAIN s : Append(s, e)[k] = s[k]
         /\ Append(s, e)[Len(s) + 1] = e
BY AppendProperties, LenProperties, EmptySeq

\* What a concatenation holds.
LEMMA ConcatAt ==
  ASSUME NEW S, NEW s \in Seq(S), NEW t \in Seq(S)
  PROVE  /\ s \o t \in Seq(S) /\ Len(s) \in Nat /\ Len(t) \in Nat
         /\ DOMAIN s = 1 .. Len(s) /\ DOMAIN t = 1 .. Len(t)
         /\ Len(s \o t) = Len(s) + Len(t) /\ DOMAIN (s \o t) = 1 .. (Len(s) + Len(t))
         /\ \A k \in DOMAIN s : (s \o t)[k] = s[k]
         /\ \A k \in DOMAIN t : (s \o t)[Len(s) + k] = t[k]
<1>1. /\ s \o t \in Seq(S) /\ Len(s) \in Nat /\ Len(t) \in Nat
      /\ DOMAIN s = 1 .. Len(s) /\ DOMAIN t = 1 .. Len(t)
      /\ Len(s \o t) = Len(s) + Len(t) /\ DOMAIN (s \o t) = 1 .. (Len(s) + Len(t))
  BY ConcatProperties, LenProperties
<1>2. \A k \in 1 .. (Len(s) + Len(t)) :
        (s \o t)[k] = IF k <= Len(s) THEN s[k] ELSE t[k - Len(s)]
  BY ConcatProperties
<1>. QED
  BY <1>1, <1>2

\* What SetToSeq lists.
LEMMA Listing ==
  ASSUME NEW S, IsFiniteSet(S)
  PROVE  /\ Cardinality(S) \in Nat
         /\ SetToSeq(S) \in [1 .. Cardinality(S) -> S]
         /\ \A x \in S : \E i \in 1 .. Cardinality(S) : SetToSeq(S)[i] = x
<1>1. PICK b : b \in Bijection(1 .. Cardinality(S), S)
  BY FS_CardinalityType DEF ExistsBijection
<1>2. /\ SetToSeq(S) \in [1 .. Cardinality(S) -> S] /\ IsInjective(SetToSeq(S))
      /\ Cardinality(S) \in Nat
  BY <1>1, FS_CardinalityType DEF SetToSeq, Bijection, Injection, Surjection, IsInjective
<1>3. SetToSeq(S) \in Injection(1 .. Cardinality(S), S)
  BY <1>2 DEF Injection, IsInjective
<1>4. IsFiniteSet(1 .. Cardinality(S)) /\ Cardinality(1 .. Cardinality(S)) = Cardinality(S)
  BY <1>2, FS_Interval
<1>5. SetToSeq(S) \in Surjection(1 .. Cardinality(S), S)
  BY <1>3, <1>4, FS_Injection
<1>. QED
  BY <1>2, <1>5 DEF Surjection

\* Messages whose kind is looked at.
LEMMA CountIs ==
  ASSUME NEW S, NEW s \in Seq(S)
  PROVE  /\ IsFiniteSet(ListensIn(s))
         /\ Cardinality(ListensIn(s)) \in Nat
         /\ Cardinality(ListensIn(s)) \in 0 .. Len(s)
         /\ ListensIn(s) = {} <=> Cardinality(ListensIn(s)) = 0
<1>1. Len(s) \in Nat /\ ListensIn(s) \subseteq 1 .. Len(s)
  BY LenProperties DEF ListensIn
<1>2. IsFiniteSet(1 .. Len(s)) /\ Cardinality(1 .. Len(s)) = Len(s)
  <2>1. IsFiniteSet(1 .. Len(s))
        /\ Cardinality(1 .. Len(s)) = IF 1 > Len(s) THEN 0 ELSE Len(s) - 1 + 1
    BY <1>1, FS_Interval
  <2>. QED
    BY <1>1, <2>1
<1>3. IsFiniteSet(ListensIn(s)) /\ Cardinality(ListensIn(s)) <= Len(s)
  BY <1>1, <1>2, FS_Subset
<1>. QED
  BY <1>1, <1>3, FS_CardinalityType, FS_EmptySet

\* The listens of two queues are counted apart.
LEMMA CountConcat ==
  ASSUME NEW S, NEW s \in Seq(S), NEW t \in Seq(S)
  PROVE  Cardinality(ListensIn(s \o t)) = Cardinality(ListensIn(s)) + Cardinality(ListensIn(t))
<1>. DEFINE A == ListensIn(s)
            B == ListensIn(t)
            C == {k \in (Len(s) + 1) .. (Len(s) + Len(t)) : t[k - Len(s)].kind = "listen"}
            f == [i \in B |-> Len(s) + i]
<1>1. /\ Len(s) \in Nat /\ Len(t) \in Nat
      /\ DOMAIN s = 1 .. Len(s) /\ DOMAIN t = 1 .. Len(t)
      /\ DOMAIN (s \o t) = 1 .. (Len(s) + Len(t))
      /\ \A k \in DOMAIN s : (s \o t)[k] = s[k]
      /\ \A k \in DOMAIN t : (s \o t)[Len(s) + k] = t[k]
  BY ConcatAt
<1>2. B \subseteq 1 .. Len(t) /\ A \subseteq 1 .. Len(s)
  BY <1>1 DEF ListensIn
<1>3. ListensIn(s \o t) = A \cup C
  <2>1. ASSUME NEW k \in 1 .. (Len(s) + Len(t))
        PROVE  k \in ListensIn(s \o t) <=> k \in A \cup C
    <3>1. CASE k \in 1 .. Len(s)
      BY <1>1, <3>1 DEF ListensIn
    <3>2. CASE k \notin 1 .. Len(s)
      <4>1. k - Len(s) \in DOMAIN t /\ Len(s) + (k - Len(s)) = k
        BY <1>1, <3>2
      <4>2. (s \o t)[k] = t[k - Len(s)]
        BY <1>1, <4>1
      <4>. QED
        BY <1>1, <3>2, <4>2 DEF ListensIn
    <3>. QED
      BY <3>1, <3>2
  <2>2. A \cup C \subseteq 1 .. (Len(s) + Len(t)) /\ ListensIn(s \o t) \subseteq 1 .. (Len(s) + Len(t))
    BY <1>1, <1>2 DEF ListensIn
  <2>. QED
    BY <2>1, <2>2
<1>4. f \in Bijection(B, C)
  <2>1. \A i \in B : Len(s) + i \in C
    BY <1>1, <1>2 DEF ListensIn
  <2>2. \A k \in C : k - Len(s) \in B /\ Len(s) + (k - Len(s)) = k
    BY <1>1 DEF ListensIn
  <2>3. \A i, j \in B : Len(s) + i = Len(s) + j => i = j
    BY <1>1, <1>2
  <2>4. f \in [B -> C]
    BY <2>1
  <2>5. \A i, j \in B : f[i] = f[j] => i = j
    BY <2>3
  <2>6. \A k \in C : \E i \in B : f[i] = k
    BY <2>2
  <2>. HIDE DEF A, B, C, f
  <2>. QED
    BY <2>4, <2>5, <2>6 DEF Bijection, Injection, Surjection, IsInjective
<1>5. /\ IsFiniteSet(A) /\ Cardinality(A) \in Nat /\ IsFiniteSet(B) /\ Cardinality(B) \in Nat
  BY <1>1, CountIs
<1>6. IsFiniteSet(C) /\ Cardinality(C) = Cardinality(B)
  <2>. HIDE DEF A, B, C, f
  <2>. QED
    BY <1>4, <1>5, FS_Bijection DEF ExistsBijection
<1>7. A \cap C = {}
  BY <1>1, <1>2
<1>8. Cardinality(A \cap C) = 0
  BY <1>7, FS_EmptySet
<1>. HIDE DEF A, B, C, f
<1>9. Cardinality(A \cup C) = Cardinality(A) + Cardinality(B)
  <2>1. Cardinality(A \cup C) = Cardinality(A) + Cardinality(C) - Cardinality(A \cap C)
    BY <1>5, <1>6, FS_Union
  <2>2. Cardinality(A \cup C) = Cardinality(A) + Cardinality(B) - 0
    BY <1>6, <1>8, <2>1
  <2>. QED
    BY <1>5, <2>2
<1>. QED
  BY <1>3, <1>9 DEF A, B

\* A queue of one message counts it if it is a listen.
LEMMA CountOne ==
  ASSUME NEW S, NEW m \in S
  PROVE  /\ <<m>> \in Seq(S)
         /\ Cardinality(ListensIn(<<m>>)) = IF m.kind = "listen" THEN 1 ELSE 0
<1>1. ListensIn(<<m>>) = IF m.kind = "listen" THEN {1} ELSE {}
  BY DEF ListensIn
<1>2. /\ Cardinality({1}) = 1 /\ Cardinality({}) = 0
  BY FS_EmptySet, FS_Singleton
<1>3. <<m>> \in Seq(S)
  OBVIOUS
<1>4. CASE m.kind = "listen"
  BY <1>1, <1>2, <1>3, <1>4
<1>5. CASE m.kind # "listen"
  BY <1>1, <1>2, <1>3, <1>5
<1>. QED
  BY <1>4, <1>5

\* Taking the head of a queue takes one listen off its count, if it was one.
LEMMA CountTail ==
  ASSUME NEW S, NEW s \in Seq(S), s # <<>>
  PROVE  /\ Cardinality(ListensIn(s)) =
              Cardinality(ListensIn(Tail(s))) + (IF s[1].kind = "listen" THEN 1 ELSE 0)
         /\ Cardinality(ListensIn(Tail(s))) \in Nat
<1>1. s[1] \in S /\ Tail(s) \in Seq(S) /\ <<s[1]>> \o Tail(s) = s
  <2>1. s[1] \in S /\ Tail(s) \in Seq(S) /\ s[1] = Head(s)
    BY TailAt
  <2>. QED
    BY <2>1, HeadTailAppend, ConcatProperties, HeadTailProperties
<1>2. /\ <<s[1]>> \in Seq(S)
      /\ Cardinality(ListensIn(<<s[1]>>)) = IF s[1].kind = "listen" THEN 1 ELSE 0
  BY <1>1, CountOne
<1>3. Cardinality(ListensIn(s)) = Cardinality(ListensIn(<<s[1]>>)) + Cardinality(ListensIn(Tail(s)))
  BY <1>1, <1>2, CountConcat
<1>4. Cardinality(ListensIn(Tail(s))) \in Nat
  BY <1>1, CountIs
<1>. QED
  BY <1>2, <1>3, <1>4

\* Sending one message adds one listen to the count, if it is one.
LEMMA CountAppend ==
  ASSUME NEW S, NEW s \in Seq(S), NEW m \in S
  PROVE  Cardinality(ListensIn(Append(s, m))) =
           Cardinality(ListensIn(s)) + (IF m.kind = "listen" THEN 1 ELSE 0)
<1>1. Append(s, m) = s \o <<m>>
  BY AppendIsConcat
<1>2. /\ <<m>> \in Seq(S)
      /\ Cardinality(ListensIn(<<m>>)) = IF m.kind = "listen" THEN 1 ELSE 0
  BY CountOne
<1>3. Cardinality(ListensIn(s \o <<m>>)) = Cardinality(ListensIn(s)) + Cardinality(ListensIn(<<m>>))
  BY <1>2, CountConcat
<1>. QED
  BY <1>1, <1>2, <1>3

\* The fields of a write.
LEMMA RecordIs ==
  ASSUME NEW ids, NEW r \in RecordsWith(ids)
  PROVE  /\ r.id \in ids /\ r.path \in Paths /\ r.merge \in BOOLEAN /\ r.visible = TRUE
         /\ DOMAIN r.data \subseteq Children
         /\ \A c \in DOMAIN r.data : r.data[c] \in ids \cup {None}
         /\ r.merge => r.path = Root
         /\ r.path # Root => DOMAIN r.data = {r.path} /\ r.path \in Children
         /\ IsSet(r) => DOMAIN r.data = Children
         /\ Whole => r.path = Root
<1>1. PICK cs \in SUBSET Children : r.data \in [cs -> ids \cup {None}]
  BY DEF RecordsWith, Changed
<1>2. /\ r.id \in ids /\ r.path \in Paths /\ r.merge \in BOOLEAN /\ r.visible = TRUE
      /\ r.merge => r.path = Root
      /\ r.path # Root => DOMAIN r.data = {r.path}
      /\ r.path = Root /\ ~r.merge => DOMAIN r.data = Children
      /\ Whole => r.path = Root
  BY DEF RecordsWith
<1>. QED
  BY <1>1, <1>2 DEF IsSet, Paths

\* The application makes such writes.
LEMMA RecordsOfIs ==
  ASSUME NEW ids, NEW id \in ids
  PROVE  \A r \in RecordsOf(id) : r \in RecordsWith(ids) /\ r.id = id
<1>. SUFFICES ASSUME NEW r \in RecordsOf(id)
              PROVE  r \in RecordsWith(ids) /\ r.id = id
  OBVIOUS
<1>1. \/ "set" \in Forms /\ \E cs \in SUBSET Children :
           r = Set(id, [c \in Children |-> IF c \in cs THEN id ELSE None])
      \/ "setChild" \in Forms /\ \E c \in Children : r = SetChild(id, c, id)
      \/ "remove" \in Forms /\ \E c \in Children : r = SetChild(id, c, None)
      \/ "merge" \in Forms /\ \E cs \in SUBSET Children \ {{}} : r = Merge(id, cs)
  BY DEF RecordsOf
<1>2. Root \notin Children /\ "setChild" \notin {"set", "merge"} /\ "remove" \notin {"set", "merge"}
  BY WritesAssumption
<1>3. ASSUME NEW cs \in SUBSET Children, NEW f \in [cs -> ids \cup {None}]
      PROVE  f \in Changed(ids)
  BY DEF Changed
<1>4. ASSUME NEW cs \in SUBSET Children, r = Set(id, [c \in Children |-> IF c \in cs THEN id ELSE None])
      PROVE  r \in RecordsWith(ids) /\ r.id = id
  <2>1. PICK f : f = [c \in Children |-> IF c \in cs THEN id ELSE None]
    OBVIOUS
  <2>2. f \in [Children -> ids \cup {None}] /\ DOMAIN f = Children
    BY <2>1
  <2>3. f \in Changed(ids)
    BY <1>3, <2>2
  <2>4. r = [id |-> id, path |-> Root, merge |-> FALSE, data |-> f, visible |-> TRUE]
    BY <1>4, <2>1 DEF Set
  <2>. QED
    BY <2>2, <2>3, <2>4 DEF RecordsWith, Paths
<1>5. ASSUME NEW c \in Children, NEW v \in {id, None}, r = SetChild(id, c, v), ~Whole
      PROVE  r \in RecordsWith(ids) /\ r.id = id
  <2>1. PICK f : f = [b \in {c} |-> v]
    OBVIOUS
  <2>2. f \in [{c} -> ids \cup {None}] /\ DOMAIN f = {c}
    BY <2>1
  <2>3. f \in Changed(ids)
    BY <1>3, <2>2
  <2>4. r = [id |-> id, path |-> c, merge |-> FALSE, data |-> f, visible |-> TRUE]
    BY <1>5, <2>1 DEF SetChild
  <2>. QED
    BY <1>2, <1>5, <2>2, <2>3, <2>4 DEF RecordsWith, Paths
<1>6. ASSUME NEW cs \in SUBSET Children, r = Merge(id, cs)
      PROVE  r \in RecordsWith(ids) /\ r.id = id
  <2>1. PICK f : f = [c \in cs |-> id]
    OBVIOUS
  <2>2. f \in [cs -> ids \cup {None}] /\ DOMAIN f = cs
    BY <2>1
  <2>3. f \in Changed(ids)
    BY <1>3, <2>2
  <2>4. r = [id |-> id, path |-> Root, merge |-> TRUE, data |-> f, visible |-> TRUE]
    BY <1>6, <2>1 DEF Merge
  <2>. QED
    BY <2>2, <2>3, <2>4 DEF RecordsWith, Paths
<1>7. "setChild" \in Forms \/ "remove" \in Forms => ~Whole
  BY <1>2 DEF Whole
<1>. QED
  BY <1>1, <1>4, <1>5, <1>6, <1>7

\* Changes put onto a node: the changed children have the changes' values.
LEMMA OntoIs ==
  ASSUME NEW S, NEW node \in [Children -> S], NEW f, \A c \in DOMAIN f : f[c] \in S
  PROVE  /\ Onto(f, node) \in [Children -> S]
         /\ \A c \in Children : Onto(f, node)[c] = IF c \in DOMAIN f THEN f[c] ELSE node[c]
BY DEF Onto

\* A write added to a compound write covers what was there (addWrite: in
\* FCompoundWrite).
LEMMA AddWriteIs ==
  ASSUME NEW w \in Compounds, NEW r \in Records
  PROVE  /\ AddWrite(w, r) \in Compounds
         /\ AddWrite(w, r).root <=> w.root \/ IsSet(r)
         /\ \A c \in Children :
              AddWrite(w, r).node[c] = IF c \in DOMAIN r.data THEN r.data[c] ELSE w.node[c]
<1>. DEFINE V == WriteIds \cup {None, Unwritten}
<1>1. /\ w.root \in BOOLEAN /\ w.node \in [Children -> V]
  BY DEF Compounds
<1>2. \A c \in DOMAIN r.data : r.data[c] \in V
  <2>1. \A c \in DOMAIN r.data : r.data[c] \in WriteIds \cup {None}
    BY RecordIs DEF Records
  <2>. QED
    BY <2>1
<1>3. PICK node : node = Onto(r.data, w.node)
  OBVIOUS
<1>4. node \in [Children -> V]
      /\ \A c \in Children : node[c] = IF c \in DOMAIN r.data THEN r.data[c] ELSE w.node[c]
  <2>. HIDE DEF V
  <2>. QED
    BY <1>1, <1>2, <1>3, OntoIs
<1>5. PICK root \in BOOLEAN : root <=> w.root \/ IsSet(r)
  OBVIOUS
<1>6. AddWrite(w, r).root = root /\ AddWrite(w, r).node = node
      /\ AddWrite(w, r) = [root |-> root, node |-> node]
  <2>1. w.root \/ (r.path = Root /\ ~r.merge) <=> root
    BY <1>5 DEF IsSet
  <2>2. (w.root \/ (r.path = Root /\ ~r.merge)) = root
    BY <2>1
  <2>. QED
    BY <1>3, <2>2 DEF AddWrite
<1>. QED
  BY <1>4, <1>5, <1>6 DEF Compounds

\* No writes give the empty compound write.
LEMMA EmptyLayered == Layered(emptyWrite, <<>>)
<1>1. emptyWrite \in Compounds /\ ~emptyWrite.root /\ \A c \in Children : emptyWrite.node[c] = Unwritten
  BY DEF emptyWrite, Compounds
<1>. QED
  BY <1>1 DEF Layered, LastWrites, Writes

\* Adding the write of a new record to the cached compound is the same as building
\* it again from the records: what addOverwriteAtPath: relies on.
LEMMA AppendLayered ==
  ASSUME NEW s \in Seq(Records), NEW w, Layered(w, s), NEW r \in Records
  PROVE  Layered(AddWrite(w, r), Append(s, r))
<1>. DEFINE n == Len(s)
            u == AddWrite(w, r)
            t == Append(s, r)
<1>1. /\ n \in Nat /\ DOMAIN s = 1 .. n /\ DOMAIN t = 1 .. (n + 1)
      /\ \A k \in 1 .. n : t[k] = s[k]
      /\ t[n + 1] = r
  BY AppendAt
<1>2. w \in Compounds
  BY DEF Layered
<1>3. u \in Compounds /\ (u.root <=> w.root \/ IsSet(r))
      /\ \A c \in Children : u.node[c] = IF c \in DOMAIN r.data THEN r.data[c] ELSE w.node[c]
  BY <1>2, AddWriteIs
<1>. HIDE DEF u, t, n
<1>4. u.root <=> \E i \in DOMAIN t : IsSet(t[i])
  <2>1. w.root <=> \E i \in 1 .. n : IsSet(s[i])
    BY <1>1 DEF Layered
  <2>2. n + 1 \in DOMAIN t /\ \A i \in DOMAIN t : i \in 1 .. n \/ i = n + 1
    BY <1>1
  <2>3. 1 .. n \subseteq DOMAIN t
    BY <1>1
  <2>. QED
    BY <1>1, <1>3, <2>1, <2>2, <2>3
<1>5. ASSUME NEW c \in Children
      PROVE  /\ u.node[c] = Unwritten <=> \A i \in DOMAIN t : c \notin DOMAIN t[i].data
             /\ \A i \in DOMAIN t : LastWrites(t, i, c) => u.node[c] = t[i].data[c]
  <2>1. CASE c \in DOMAIN r.data
    <3>1. u.node[c] = r.data[c] /\ r.data[c] # Unwritten /\ n + 1 \in DOMAIN t
      <4>1. r.data[c] \in WriteIds \cup {None}
        BY <2>1, RecordIs DEF Records
      <4>2. r.data[c] # Unwritten
        BY <4>1, WritesAssumption DEF WriteIds
      <4>. QED
        BY <1>1, <1>3, <2>1, <4>2
    <3>2. ASSUME NEW i \in DOMAIN t, LastWrites(t, i, c)
          PROVE  i = n + 1
      BY <1>1, <2>1, <3>2 DEF LastWrites, Writes
    <3>. QED
      BY <1>1, <2>1, <3>1, <3>2
  <2>2. CASE c \notin DOMAIN r.data
    <3>1. /\ w.node[c] = Unwritten <=> \A i \in 1 .. n : c \notin DOMAIN s[i].data
          /\ \A i \in 1 .. n : LastWrites(s, i, c) => w.node[c] = s[i].data[c]
      BY <1>1 DEF Layered
    <3>2. u.node[c] = w.node[c]
      BY <1>3, <2>2
    <3>3. u.node[c] = Unwritten <=> \A i \in DOMAIN t : c \notin DOMAIN t[i].data
      BY <1>1, <2>2, <3>1, <3>2
    <3>4. ASSUME NEW i \in DOMAIN t, LastWrites(t, i, c)
          PROVE  u.node[c] = t[i].data[c]
      <4>1. i \in 1 .. n /\ c \in DOMAIN s[i].data
        BY <1>1, <2>2, <3>4 DEF LastWrites, Writes
      <4>2. \A j \in 1 .. n : j > i => c \notin DOMAIN s[j].data
        BY <1>1, <3>4 DEF LastWrites
      <4>3. LastWrites(s, i, c)
        BY <1>1, <4>1, <4>2 DEF LastWrites, Writes
      <4>. QED
        BY <1>1, <3>1, <3>2, <4>1, <4>3
    <3>. QED
      BY <3>3, <3>4
  <2>. QED
    BY <2>1, <2>2
<1>. QED
  BY <1>3, <1>4, <1>5 DEF Layered, u, t

\* If a record writes a child, some record is the last that writes it.
LEMMA LastExists ==
  ASSUME NEW s \in Seq(Records), NEW c, NEW i \in DOMAIN s, c \in DOMAIN s[i].data
  PROVE  \E k \in DOMAIN s : LastWrites(s, k, c) /\ k >= i
<1>. DEFINE T == {k \in 1 .. Len(s) : c \in DOMAIN s[k].data}
<1>1. Len(s) \in Nat /\ DOMAIN s = 1 .. Len(s)
  BY LenProperties
<1>2. T \subseteq 1 .. Len(s) /\ T # {}
  BY <1>1
<1>3. PICK k \in T : \A j \in T : j <= k
  <2>. HIDE DEF T
  <2>. QED
    BY <1>1, <1>2, Greatest
<1>4. \A j \in DOMAIN s : j > k => c \notin DOMAIN s[j].data
  BY <1>1, <1>3
<1>5. k >= i
  BY <1>1, <1>3
<1>. QED
  BY <1>1, <1>4, <1>5 DEF LastWrites, Writes

\* The layers of one sequence of records are one compound write.
LEMMA LayeredOnce ==
  ASSUME NEW s \in Seq(Records), NEW u, Layered(u, s), NEW w, Layered(w, s)
  PROVE  u = w
<1>1. u \in Compounds /\ w \in Compounds /\ u.root = w.root
  BY DEF Layered, Compounds
<1>2. ASSUME NEW c \in Children
      PROVE  u.node[c] = w.node[c]
  <2>1. CASE \A i \in DOMAIN s : c \notin DOMAIN s[i].data
    BY <2>1 DEF Layered
  <2>2. CASE \E i \in DOMAIN s : c \in DOMAIN s[i].data
    <3>1. PICK k \in DOMAIN s : LastWrites(s, k, c)
      BY <2>2, LastExists
    <3>. QED
      BY <3>1 DEF Layered
  <2>. QED
    BY <2>1, <2>2
<1>3. u.node = w.node
  BY <1>1, <1>2 DEF Compounds
<1>. QED
  BY <1>1, <1>3 DEF Compounds

\* What layerTreeFromWrites has after each record.
LEMMA LayerSteps ==
  ASSUME NEW s, Len(s) \in Nat, NEW filter
  PROVE  \E f : /\ LayerTreeFromWrites(s, filter) = f[Len(s)]
                /\ f[0] = emptyWrite
                /\ \A i \in 1 .. Len(s) :
                     f[i] = IF i \in filter THEN AddWrite(f[i - 1], s[i]) ELSE f[i - 1]
<1>. DEFINE n == Len(s)
            G(f, i) == IF i = 0 THEN emptyWrite
                       ELSE IF i \in filter THEN AddWrite(f[i - 1], s[i]) ELSE f[i - 1]
            C(f, m) == f = [i \in 0 .. m |-> G(f, i)]
            T == {m \in 0 .. n : ~\E f : C(f, m)}
<1>1. T = {}
  <2>. SUFFICES ASSUME T # {}
                PROVE  FALSE
    OBVIOUS
  <2>1. PICK m \in T : \A k \in T : m <= k
    <3>1. T \subseteq Nat
      OBVIOUS
    <3>. HIDE DEF T
    <3>. QED
      BY <3>1, Least
  <2>2. m \in 0 .. n /\ ~\E f : C(f, m)
    OBVIOUS
  <2>3. CASE m = 0
    <3>. DEFINE e == [i \in 0 .. 0 |-> emptyWrite]
    <3>1. \A i \in 0 .. 0 : G(e, i) = emptyWrite
      OBVIOUS
    <3>2. C(e, 0)
      BY <3>1
    <3>. QED
      BY <2>2, <2>3, <3>2
  <2>4. CASE m # 0
    <3>1. m - 1 \in 0 .. n /\ m - 1 \notin T
      <4>1. m \in Int /\ m - 1 \in 0 .. n /\ ~(m <= m - 1)
        BY <2>2, <2>4
      <4>. HIDE DEF T
      <4>. QED
        BY <2>1, <4>1
    <3>2. PICK f : C(f, m - 1)
      BY <3>1
    <3>. DEFINE g == [i \in 0 .. m |-> G(f, i)]
    <3>3. ASSUME NEW i \in 0 .. m
          PROVE  G(g, i) = G(f, i)
      <4>1. CASE i = 0
        BY <4>1
      <4>2. CASE i # 0
        <5>1. i - 1 \in 0 .. m - 1 /\ i - 1 \in 0 .. m
          BY <2>2, <4>2
        <5>2. g[i - 1] = G(f, i - 1)
          BY <5>1
        <5>3. f[i - 1] = G(f, i - 1)
          <6>. HIDE DEF G
          <6>. QED
            BY <3>2, <5>1
        <5>4. g[i - 1] = f[i - 1]
          BY <5>2, <5>3
        <5>. HIDE DEF g
        <5>. QED
          BY <5>4
      <4>. QED
        BY <4>1, <4>2
    <3>4. C(g, m)
      <4>. HIDE DEF G
      <4>. QED
        BY <3>3
    <3>. QED
      BY <2>2, <3>4
  <2>. QED
    BY <2>3, <2>4
<1>2. PICK f : C(f, n) /\ LayerTreeFromWrites(s, filter) = f[n]
  <2>1. \E f : C(f, n)
    BY <1>1
  <2>2. C(CHOOSE f : C(f, n), n)
    BY <2>1
  <2>3. LayerTreeFromWrites(s, filter) = (CHOOSE f : C(f, n))[n]
    BY DEF LayerTreeFromWrites
  <2>. QED
    BY <2>2, <2>3
<1>3. \A i \in 0 .. n : f[i] = G(f, i)
  <2>. HIDE DEF G
  <2>. QED
    BY <1>2
<1>. QED
  BY <1>2, <1>3

\* layerTreeFromWrites gives the layered writes.
LEMMA LayerTreeLayered ==
  ASSUME NEW s \in Seq(Records), NEW filter, DOMAIN s \subseteq filter
  PROVE  Layered(LayerTreeFromWrites(s, filter), s)
<1>. DEFINE n == Len(s)
<1>1. n \in Nat /\ DOMAIN s = 1 .. n
  BY LenProperties
<1>2. PICK f : /\ LayerTreeFromWrites(s, filter) = f[n]
               /\ f[0] = emptyWrite
               /\ \A i \in 1 .. n :
                    f[i] = IF i \in filter THEN AddWrite(f[i - 1], s[i]) ELSE f[i - 1]
  BY <1>1, LayerSteps
<1>. DEFINE T == {m \in 0 .. n : ~Layered(f[m], SubSeq(s, 1, m))}
<1>3. T = {}
  <2>. SUFFICES ASSUME T # {}
                PROVE  FALSE
    OBVIOUS
  <2>1. PICK m \in T : \A k \in T : m <= k
    <3>1. T \subseteq Nat
      BY <1>1
    <3>. HIDE DEF T
    <3>. QED
      BY <3>1, Least
  <2>2. CASE m = 0
    <3>1. SubSeq(s, 1, 0) = <<>>
      BY SubSeqEmpty
    <3>. QED
      BY <1>2, <2>1, <2>2, <3>1, EmptyLayered
  <2>3. CASE m # 0
    <3>1. m \in 1 .. n /\ m - 1 \in 0 .. n /\ m - 1 \notin T
      BY <1>1, <2>1, <2>3
    <3>2. Layered(f[m - 1], SubSeq(s, 1, m - 1))
      BY <3>1
    <3>3. SubSeq(s, 1, m - 1) \in Seq(Records) /\ s[m] \in Records
      BY <1>1, <3>1, SubSeqProperties, ElementOfSeq
    <3>4. SubSeq(s, 1, m) = Append(SubSeq(s, 1, m - 1), s[m])
      BY <1>1, <3>1, <3>3, SubSeqRecursiveSecond, AppendIsConcat
    <3>5. f[m] = AddWrite(f[m - 1], s[m])
      BY <1>1, <1>2, <3>1
    <3>. QED
      BY <2>1, <3>2, <3>3, <3>4, <3>5, AppendLayered
  <2>. QED
    BY <2>2, <2>3
<1>4. Layered(f[n], SubSeq(s, 1, n))
  BY <1>1, <1>3
<1>5. SubSeq(s, 1, n) = s
  BY SubSeqFull
<1>. QED
  BY <1>2, <1>4, <1>5

\* A sequence without its i-th element, and what came after that element.
LEMMA RemoveAtIs ==
  ASSUME NEW S, NEW s \in Seq(S), NEW i \in DOMAIN s
  PROVE  /\ Len(s) \in Nat /\ DOMAIN s = 1 .. Len(s)
         /\ RemoveAt(s, i) \in Seq(S) /\ Len(RemoveAt(s, i)) = Len(s) - 1
         /\ DOMAIN RemoveAt(s, i) = 1 .. (Len(s) - 1)
         /\ \A j \in 1 .. (Len(s) - 1) : RemoveAt(s, i)[j] = IF j < i THEN s[j] ELSE s[j + 1]
<1>. DEFINE n == Len(s)
            a == SubSeq(s, 1, i - 1)
            b == SubSeq(s, i + 1, n)
<1>1. n \in Nat /\ DOMAIN s = 1 .. n /\ i \in 1 .. n /\ \A k \in 1 .. n : s[k] \in S
  BY LenProperties, ElementOfSeq
<1>2. /\ a \in Seq(S) /\ Len(a) = i - 1
      /\ \A j \in 1 .. (i - 1) : a[j] = s[j]
  <2>1. \A k \in 1 .. (i - 1) : s[k] \in S
    BY <1>1
  <2>2. /\ a \in Seq(S) /\ Len(a) = IF 1 <= i - 1 THEN i - 1 - 1 + 1 ELSE 0
        /\ \A j \in 1 .. (i - 1) - 1 + 1 : a[j] = s[1 + j - 1]
    BY <1>1, <2>1, SubSeqProperties
  <2>. HIDE DEF a
  <2>. QED
    BY <1>1, <2>2
<1>3. /\ b \in Seq(S) /\ Len(b) = n - i
      /\ \A j \in 1 .. (n - i) : b[j] = s[i + j]
  <2>1. \A k \in (i + 1) .. n : s[k] \in S
    BY <1>1
  <2>2. /\ b \in Seq(S) /\ Len(b) = IF i + 1 <= n THEN n - (i + 1) + 1 ELSE 0
        /\ \A j \in 1 .. n - (i + 1) + 1 : b[j] = s[(i + 1) + j - 1]
    BY <1>1, <2>1, SubSeqProperties
  <2>. HIDE DEF b, n
  <2>3. ASSUME NEW j \in 1 .. (n - i)
        PROVE  b[j] = s[i + j]
    <3>1. j \in 1 .. n - (i + 1) + 1 /\ (i + 1) + j - 1 = i + j
      BY <1>1
    <3>. QED
      BY <2>2, <3>1
  <2>4. Len(b) = n - i
    BY <1>1, <2>2
  <2>. QED
    BY <2>2, <2>3, <2>4
<1>. HIDE DEF a, b, n
<1>4. /\ a \o b \in Seq(S) /\ Len(a \o b) = n - 1 /\ DOMAIN (a \o b) = 1 .. (n - 1)
      /\ \A k \in 1 .. (i - 1) : (a \o b)[k] = a[k]
      /\ \A k \in 1 .. (n - i) : (a \o b)[(i - 1) + k] = b[k]
  <2>1. /\ a \o b \in Seq(S) /\ DOMAIN a = 1 .. Len(a) /\ DOMAIN b = 1 .. Len(b)
        /\ Len(a \o b) = Len(a) + Len(b) /\ DOMAIN (a \o b) = 1 .. (Len(a) + Len(b))
        /\ \A k \in DOMAIN a : (a \o b)[k] = a[k]
        /\ \A k \in DOMAIN b : (a \o b)[Len(a) + k] = b[k]
    <3>1. a \in Seq(S) /\ b \in Seq(S)
      BY <1>2, <1>3
    <3>. QED
      BY ONLY <3>1, ConcatAt
  <2>2. Len(a) + Len(b) = n - 1
    BY <1>1, <1>2, <1>3
  <2>. QED
    BY <1>2, <1>3, <2>1, <2>2
<1>5. ASSUME NEW j \in 1 .. (n - 1)
      PROVE  (a \o b)[j] = IF j < i THEN s[j] ELSE s[j + 1]
  <2>1. CASE j < i
    <3>1. j \in 1 .. (i - 1)
      BY <1>1, <2>1
    <3>. QED
      BY <1>2, <1>4, <2>1, <3>1
  <2>2. CASE ~(j < i)
    <3>. PICK k : k = j - (i - 1)
      OBVIOUS
    <3>1. k \in 1 .. (n - i) /\ (i - 1) + k = j /\ i + k = j + 1
      BY <1>1, <2>2
    <3>2. b[k] = s[j + 1]
      BY <1>3, <3>1
    <3>3. (a \o b)[j] = b[k]
      <4>1. (a \o b)[(i - 1) + k] = b[k]
        BY <1>4, <3>1
      <4>. QED
        BY <3>1, <4>1
    <3>. QED
      BY <2>2, <3>2, <3>3
  <2>. QED
    BY <2>1, <2>2
<1>. QED
  BY <1>1, <1>4, <1>5 DEF RemoveAt, a, b, n

After(s, i) == SubSeq(RemoveAt(s, i), i, Len(RemoveAt(s, i)))

\* The records after an index.
LEMMA LaterIs ==
  ASSUME NEW S, NEW s \in Seq(S), NEW i \in DOMAIN s, NEW l, l = After(s, i)
  PROVE  /\ Len(s) \in Nat /\ DOMAIN s = 1 .. Len(s) /\ DOMAIN l = 1 .. (Len(s) - i)
         /\ \A j \in 1 .. (Len(s) - i) : l[j] = s[i + j]
<1>. DEFINE n == Len(s)
            r == RemoveAt(s, i)
<1>1. /\ n \in Nat /\ DOMAIN s = 1 .. n /\ i \in 1 .. n
      /\ r \in Seq(S) /\ Len(r) = n - 1
      /\ \A j \in 1 .. (n - 1) : r[j] \in S /\ r[j] = IF j < i THEN s[j] ELSE s[j + 1]
  BY RemoveAtIs, ElementOfSeq
<1>2. l \in Seq(S) /\ Len(l) = n - i /\ \A j \in 1 .. (n - i) : l[j] = s[i + j]
  <2>1. \A k \in i .. (n - 1) : r[k] \in S
    BY <1>1
  <2>2. /\ l \in Seq(S) /\ Len(l) = IF i <= n - 1 THEN (n - 1) - i + 1 ELSE 0
        /\ \A j \in 1 .. (n - 1) - i + 1 : l[j] = r[i + j - 1]
    <3>1. l = SubSeq(r, i, n - 1)
      BY <1>1 DEF After
    <3>. QED
      BY <1>1, <2>1, <3>1, SubSeqProperties
  <2>3. ASSUME NEW j \in 1 .. (n - i)
        PROVE  l[j] = s[i + j]
    <3>1. /\ j \in 1 .. (n - 1) - i + 1 /\ i + j - 1 \in 1 .. (n - 1)
          /\ ~(i + j - 1 < i) /\ (i + j - 1) + 1 = i + j
      BY <1>1
    <3>. QED
      BY <1>1, <2>2, <3>1
  <2>. QED
    BY <1>1, <2>2, <2>3
<1>3. DOMAIN l = 1 .. (n - i)
  BY <1>2, LenProperties
<1>. QED
  BY <1>1, <1>2, <1>3

\* A write that later ones cover may go: the layers stay.
LEMMA CoveredGoes ==
  ASSUME NEW s \in Seq(Records), NEW w, Layered(w, s), NEW i \in DOMAIN s,
         IsSet(s[i]) => \E k \in DOMAIN s : k > i /\ IsSet(s[k]),
         \A c \in DOMAIN s[i].data : \E k \in DOMAIN s : k > i /\ c \in DOMAIN s[k].data
  PROVE  Layered(w, RemoveAt(s, i))
<1>. DEFINE n == Len(s)
            r == RemoveAt(s, i)
<1>1. /\ n \in Nat /\ DOMAIN s = 1 .. n /\ i \in 1 .. n
      /\ DOMAIN r = 1 .. (n - 1)
      /\ \A j \in 1 .. (n - 1) : r[j] = IF j < i THEN s[j] ELSE s[j + 1]
  BY RemoveAtIs
<1>. HIDE DEF r, n
<1>2. ASSUME NEW k \in 1 .. n, k # i
      PROVE  \E j \in 1 .. (n - 1) : r[j] = s[k]
  <2>1. CASE k < i
    BY <1>1, <2>1
  <2>2. CASE k > i
    <3>1. k - 1 \in 1 .. (n - 1) /\ ~(k - 1 < i) /\ (k - 1) + 1 = k
      BY <1>1, <2>2
    <3>. QED
      BY <1>1, <3>1
  <2>. QED
    BY <1>1, <1>2, <2>1, <2>2
<1>3. ASSUME NEW j \in 1 .. (n - 1)
      PROVE  \E k \in 1 .. n : k # i /\ r[j] = s[k] /\ k = IF j < i THEN j ELSE j + 1
  BY <1>1
<1>4. w.root <=> \E j \in DOMAIN r : IsSet(r[j])
  <2>1. w.root <=> \E k \in 1 .. n : IsSet(s[k])
    BY <1>1 DEF Layered
  <2>2. ASSUME NEW k \in 1 .. n, IsSet(s[k])
        PROVE  \E m \in 1 .. n : m # i /\ IsSet(s[m])
    BY <1>1, <2>2
  <2>. QED
    BY <1>1, <1>2, <1>3, <2>1, <2>2
<1>5. ASSUME NEW c \in Children
      PROVE  /\ w.node[c] = Unwritten <=> \A j \in DOMAIN r : c \notin DOMAIN r[j].data
             /\ \A j \in DOMAIN r : LastWrites(r, j, c) => w.node[c] = r[j].data[c]
  <2>1. /\ w.node[c] = Unwritten <=> \A k \in 1 .. n : c \notin DOMAIN s[k].data
        /\ \A k \in 1 .. n : LastWrites(s, k, c) => w.node[c] = s[k].data[c]
    BY <1>1 DEF Layered
  <2>2. (\A k \in 1 .. n : c \notin DOMAIN s[k].data) <=> (\A j \in DOMAIN r : c \notin DOMAIN r[j].data)
    <3>1. ASSUME NEW k \in 1 .. n, c \in DOMAIN s[k].data
          PROVE  \E m \in 1 .. n : m # i /\ c \in DOMAIN s[m].data
      BY <1>1, <3>1
    <3>. QED
      BY <1>1, <1>2, <1>3, <3>1
  <2>3. ASSUME NEW j \in DOMAIN r, LastWrites(r, j, c)
        PROVE  w.node[c] = r[j].data[c]
    <3>1. PICK k \in 1 .. n : k # i /\ r[j] = s[k] /\ k = IF j < i THEN j ELSE j + 1
      BY <1>1, <1>3
    <3>2. ASSUME NEW m \in 1 .. n, m > k, m # i
          PROVE  c \notin DOMAIN s[m].data
      <4>1. CASE m < i
        <5>1. m \in DOMAIN r /\ r[m] = s[m] /\ m > j
          BY <1>1, <3>1, <3>2, <4>1
        <5>. QED
          BY <2>3, <5>1 DEF LastWrites
      <4>2. CASE m > i
        <5>1. m - 1 \in 1 .. (n - 1) /\ ~(m - 1 < i) /\ (m - 1) + 1 = m
          BY <1>1, <4>2
        <5>2. m - 1 \in DOMAIN r /\ r[m - 1] = s[m]
          BY <1>1, <5>1
        <5>3. m - 1 > j
          BY <1>1, <3>1, <3>2, <4>2
        <5>. QED
          BY <2>3, <5>2, <5>3 DEF LastWrites
      <4>. QED
        BY <1>1, <3>2, <4>1, <4>2
    <3>3. ASSUME c \in DOMAIN s[i].data, i > k
          PROVE  FALSE
      <4>1. PICK m \in DOMAIN s : m > i /\ c \in DOMAIN s[m].data
        BY <3>3
      <4>. QED
        BY <1>1, <3>1, <3>2, <3>3, <4>1
    <3>4. LastWrites(s, k, c)
      BY <1>1, <2>3, <3>1, <3>2, <3>3 DEF LastWrites, Writes
    <3>. QED
      BY <2>1, <3>1, <3>4
  <2>. QED
    BY <2>1, <2>2, <2>3
<1>. QED
  BY <1>4, <1>5 DEF Layered, r

\* Where a later write shadows, each child of the removed one is written again.
LEMMA ShadowedCovers ==
  ASSUME NEW s \in Seq(Records), NEW i \in DOMAIN s, NEW l, l = After(s, i)
  PROVE  Shadowed(s[i], l) <=> \E k \in DOMAIN s : k > i /\ RecordContains(s[k], s[i].path)
<1>1. /\ \A j \in DOMAIN l : i + j \in DOMAIN s /\ j \in Nat \ {0} /\ l[j] = s[i + j]
      /\ \A k \in DOMAIN s : k > i => k - i \in DOMAIN l /\ l[k - i] = s[k]
  <2>1. /\ Len(s) \in Nat /\ DOMAIN s = 1 .. Len(s) /\ DOMAIN l = 1 .. (Len(s) - i)
        /\ \A j \in 1 .. (Len(s) - i) : l[j] = s[i + j]
    BY LaterIs
  <2>2. ASSUME NEW j \in 1 .. (Len(s) - i)
        PROVE  i + j \in DOMAIN s /\ j \in Nat \ {0}
    BY <2>1
  <2>3. ASSUME NEW k \in DOMAIN s, k > i
        PROVE  k - i \in 1 .. (Len(s) - i) /\ i + (k - i) = k
    BY <2>1, <2>3
  <2>. QED
    BY <2>1, <2>2, <2>3
<1>2. i \in Nat /\ \A k \in DOMAIN s : s[k].visible /\ k \in Nat
  <2>1. DOMAIN s \subseteq Nat /\ \A k \in DOMAIN s : s[k] \in Records
    BY LenProperties, ElementOfSeq
  <2>. QED
    BY <2>1, RecordIs DEF Records
<1>3. ASSUME NEW j \in DOMAIN l
      PROVE  i + j > i
  BY <1>1, <1>2
<1>4. Shadowed(s[i], l) <=> \E k \in DOMAIN s : k > i /\ RecordContains(s[k], s[i].path)
  BY <1>1, <1>2, <1>3 DEF Shadowed
<1>. QED
  BY <1>4

\* A record that contains another's path writes what the other wrote.
LEMMA ContainsIs ==
  ASSUME NEW q \in Records, NEW r \in Records, RecordContains(r, q.path)
  PROVE  /\ \A c \in DOMAIN q.data : c \in DOMAIN r.data
         /\ IsSet(q) => IsSet(r)
<1>1. /\ q.merge => q.path = Root
      /\ q.path # Root => DOMAIN q.data = {q.path} /\ q.path \in Children
      /\ DOMAIN q.data \subseteq Children
  BY RecordIs DEF Records
<1>2. /\ DOMAIN r.data \subseteq Children
      /\ r.path # Root => DOMAIN r.data = {r.path} /\ r.path \in Children
      /\ IsSet(r) => DOMAIN r.data = Children
      /\ r.merge \in BOOLEAN
  BY RecordIs DEF Records
<1>3. CASE q.path = Root
  <2>1. IsSet(r)
    BY <1>2, <1>3, WritesAssumption DEF RecordContains, PathContains, IsSet
  <2>. QED
    BY <1>1, <1>2, <2>1
<1>4. CASE q.path # Root
  <2>1. q.path \in DOMAIN r.data
    BY <1>1, <1>2, <1>4 DEF RecordContains, PathContains, IsSet
  <2>. QED
    BY <1>1, <1>4, <2>1 DEF IsSet
<1>. QED
  BY <1>3, <1>4

\* Write ids still rise when a record was removed.
LEMMA RisingRest ==
  ASSUME NEW s \in Seq(Records), Rising(s), NEW i \in DOMAIN s, NEW r, r = RemoveAt(s, i)
  PROVE  /\ Rising(r)
         /\ \A j \in DOMAIN r : \E k \in DOMAIN s : r[j] = s[k]
<1>1. /\ Len(s) \in Nat /\ DOMAIN s = 1 .. Len(s)
      /\ DOMAIN r = 1 .. (Len(s) - 1)
      /\ \A j \in 1 .. (Len(s) - 1) : r[j] = IF j < i THEN s[j] ELSE s[j + 1]
  BY RemoveAtIs
<1>2. ASSUME NEW j \in DOMAIN r
      PROVE  \E k \in DOMAIN s : r[j] = s[k] /\ k = IF j < i THEN j ELSE j + 1
  BY <1>1
<1>3. ASSUME NEW j \in DOMAIN r, NEW k \in DOMAIN r, j < k
      PROVE  r[j].id < r[k].id
  <2>1. PICK a \in DOMAIN s : r[j] = s[a] /\ a = IF j < i THEN j ELSE j + 1
    BY <1>2
  <2>2. PICK b \in DOMAIN s : r[k] = s[b] /\ b = IF k < i THEN k ELSE k + 1
    BY <1>2
  <2>3. a < b
    BY <1>1, <1>3, <2>1, <2>2
  <2>. QED
    BY <2>1, <2>2, <2>3 DEF Rising
<1>. QED
  BY <1>2, <1>3 DEF Rising

\* removeWriteId takes a write away, and keeps, patches or layers the cached ones.
LEMMA WithoutWriteGoes ==
  ASSUME NEW s \in Seq(Records), NEW w \in Compounds, Rising(s),
         NEW last \in -1 .. MaxWrites, \A k \in DOMAIN s : s[k].id <= last,
         NEW i \in DOMAIN s,
         NEW x, x = WithoutWrite([all |-> s, visible |-> w, last |-> last], i)
  PROVE  /\ x.all = RemoveAt(s, i) /\ x.all \in Seq(Records) /\ Rising(x.all)
         /\ x.visible \in Compounds
         /\ x.visible = IF Shadowed(s[i], After(s, i)) THEN w
                        ELSE IF Overlaps(s[i], RemoveAt(s, i))
                        THEN LayerTreeFromWrites(RemoveAt(s, i), DefaultFilter(RemoveAt(s, i)))
                        ELSE RemoveWriteOf(w, s[i])
         /\ x.last \in -1 .. last /\ \A k \in DOMAIN x.all : x.all[k].id <= x.last
<1>. DEFINE n == Len(s)
            r == RemoveAt(s, i)
            q == s[i]
            l == After(s, i)
            t == [all |-> s, visible |-> w, last |-> last]
<1>1. /\ n \in Nat /\ DOMAIN s = 1 .. n /\ i \in 1 .. n
      /\ r \in Seq(Records) /\ Len(r) = n - 1 /\ DOMAIN r = 1 .. (n - 1)
      /\ \A j \in 1 .. (n - 1) : r[j] = IF j < i THEN s[j] ELSE s[j + 1]
  BY RemoveAtIs
<1>2. q \in Records /\ q.visible = TRUE /\ \A k \in 1 .. n : s[k].id \in WriteIds /\ s[k].id \in Int
  <2>1. \A k \in 1 .. n : s[k] \in Records
    BY <1>1, ElementOfSeq
  <2>2. \A k \in 1 .. n : s[k].id \in WriteIds
    BY <2>1, RecordIs DEF Records
  <2>3. q \in Records /\ q.visible = TRUE
    BY <1>1, <2>1, RecordIs DEF Records
  <2>4. WriteIds \subseteq Int
    BY WritesAssumption DEF WriteIds
  <2>. QED
    BY <2>2, <2>3, <2>4
<1>3. Rising(r) /\ \A j \in DOMAIN r : \E k \in DOMAIN s : r[j] = s[k]
  BY RisingRest
<1>4. x = IF Shadowed(q, l) THEN [t EXCEPT !.all = r]
          ELSE IF Overlaps(q, r)
          THEN [t EXCEPT !.all = r, !.visible = LayerTreeFromWrites(r, DefaultFilter(r)),
                         !.last = LastIdOf(r)]
          ELSE [t EXCEPT !.all = r, !.visible = RemoveWriteOf(@, q)]
  <2>1. t.all = s /\ t.visible = w /\ t.last = last
    OBVIOUS
  <2>. HIDE DEF t
  <2>. QED
    BY <1>2, <2>1 DEF WithoutWrite, After, t
<1>. HIDE DEF r, q, l
<1>5. \A j \in DOMAIN r : r[j].id <= last
  BY <1>3
<1>6. CASE Shadowed(q, l)
  <2>1. x.all = r /\ x.visible = w /\ x.last = last
    BY <1>4, <1>6
  <2>2. x.last \in -1 .. last
    BY <2>1
  <2>. QED
    BY <1>1, <1>3, <1>5, <1>6, <2>1, <2>2 DEF r, q, l
<1>7. CASE ~Shadowed(q, l) /\ Overlaps(q, r)
  <2>1. x.all = r /\ x.visible = LayerTreeFromWrites(r, DefaultFilter(r)) /\ x.last = LastIdOf(r)
    BY <1>4, <1>7
  <2>2. x.visible \in Compounds
    BY <1>1, <2>1, LayerTreeLayered DEF DefaultFilter, Layered
  <2>3. n - 1 \in DOMAIN r
    BY <1>1, <1>7 DEF Overlaps
  <2>4. x.last = r[n - 1].id
    BY <1>1, <2>1 DEF LastIdOf, Last
  <2>5. ASSUME NEW j \in DOMAIN r
        PROVE  r[j].id <= r[n - 1].id
    <3>1. r[j].id \in Int /\ r[n - 1].id \in Int
      BY <1>1, <1>2, <1>3, <2>3
    <3>2. j = n - 1 \/ j < n - 1
      BY <1>1
    <3>. QED
      BY <1>3, <2>3, <3>1, <3>2 DEF Rising
  <2>6. r[n - 1].id \in -1 .. last
    <3>1. PICK k \in DOMAIN s : r[n - 1] = s[k]
      BY <1>3, <2>3
    <3>2. s[k].id \in WriteIds
      BY <1>1, <1>2
    <3>. QED
      BY <3>1, <3>2 DEF WriteIds
  <2>. QED
    BY <1>1, <1>3, <1>7, <2>1, <2>2, <2>4, <2>5, <2>6 DEF r, q, l
<1>8. CASE ~Shadowed(q, l) /\ ~Overlaps(q, r)
  <2>1. x.all = r /\ x.visible = RemoveWriteOf(w, q) /\ x.last = last
    BY <1>4, <1>8
  <2>2. emptyWrite \in Compounds
    BY EmptyLayered DEF Layered
  <2>3. x.visible \in Compounds
    <3>. PICK node : node = [c \in Children |-> IF c \in DOMAIN q.data THEN Unwritten ELSE w.node[c]]
      OBVIOUS
    <3>1. node \in [Children -> WriteIds \cup {None, Unwritten}]
      BY DEF Compounds
    <3>2. [root |-> FALSE, node |-> node] \in Compounds
      BY <3>1 DEF Compounds
    <3>3. RemoveWriteOf(w, q) \in {emptyWrite, w, [root |-> FALSE, node |-> node]}
      BY DEF RemoveWriteOf
    <3>. QED
      BY <2>1, <2>2, <3>2, <3>3
  <2>4. x.last \in -1 .. last
    BY <2>1
  <2>. QED
    BY <1>1, <1>3, <1>5, <1>8, <2>1, <2>3, <2>4 DEF r, q, l
<1>. QED
  BY <1>6, <1>7, <1>8

\* removeWriteId leaves the rest of the writes and what they give, if it takes
\* the oldest write or all are writes of the location.
LEMMA WithoutWriteIs ==
  ASSUME NEW s \in Seq(Records), NEW w, Layered(w, s), Rising(s),
         NEW last \in -1 .. MaxWrites, \A k \in DOMAIN s : s[k].id <= last,
         NEW i \in DOMAIN s, i = 1 \/ Whole,
         NEW x, x = WithoutWrite([all |-> s, visible |-> w, last |-> last], i)
  PROVE  /\ x.all = RemoveAt(s, i) /\ x.all \in Seq(Records) /\ Rising(x.all)
         /\ Layered(x.visible, x.all)
         /\ x.last \in -1 .. last /\ \A k \in DOMAIN x.all : x.all[k].id <= x.last
         /\ Shadowed(s[i], After(s, i)) => x.visible = w
<1>. DEFINE n == Len(s)
            r == RemoveAt(s, i)
            q == s[i]
            l == After(s, i)
<1>1. /\ n \in Nat /\ DOMAIN s = 1 .. n /\ i \in 1 .. n
      /\ r \in Seq(Records) /\ Len(r) = n - 1 /\ DOMAIN r = 1 .. (n - 1)
      /\ \A j \in 1 .. (n - 1) : r[j] = IF j < i THEN s[j] ELSE s[j + 1]
  BY RemoveAtIs
<1>2. /\ q \in Records /\ q.visible = TRUE
      /\ \A k \in 1 .. n : s[k] \in Records /\ s[k].visible = TRUE
  <2>1. \A k \in 1 .. n : s[k] \in Records
    BY <1>1, ElementOfSeq
  <2>. QED
    BY <1>1, <2>1, RecordIs DEF Records
<1>3. Rising(r) /\ \A j \in DOMAIN r : \E k \in DOMAIN s : r[j] = s[k]
  BY RisingRest
<1>4. Shadowed(q, l) <=> \E k \in DOMAIN s : k > i /\ RecordContains(s[k], q.path)
  BY ShadowedCovers
<1>5. /\ x.all = r /\ x.all \in Seq(Records) /\ Rising(x.all)
      /\ x.visible = IF Shadowed(q, l) THEN w
                     ELSE IF Overlaps(q, r) THEN LayerTreeFromWrites(r, DefaultFilter(r))
                     ELSE RemoveWriteOf(w, q)
      /\ x.last \in -1 .. last /\ \A k \in DOMAIN x.all : x.all[k].id <= x.last
  <2>1. w \in Compounds
    BY DEF Layered
  <2>. QED
    BY <2>1, WithoutWriteGoes
<1>. HIDE DEF r, q, l
<1>6. CASE Shadowed(q, l)
  <2>1. x.all = r /\ x.visible = w
    BY <1>5, <1>6
  <2>2. PICK k \in DOMAIN s : k > i /\ RecordContains(s[k], q.path)
    BY <1>4, <1>6
  <2>3. /\ \A c \in DOMAIN q.data : c \in DOMAIN s[k].data
        /\ IsSet(q) => IsSet(s[k])
    BY <1>1, <1>2, <2>2, ContainsIs
  <2>4. Layered(w, r)
    BY <2>2, <2>3, CoveredGoes DEF q, r
  <2>. QED
    BY <1>5, <2>1, <2>4 DEF r
<1>7. CASE ~Shadowed(q, l) /\ Overlaps(q, r)
  <2>1. x.all = r /\ x.visible = LayerTreeFromWrites(r, DefaultFilter(r))
    BY <1>5, <1>7
  <2>2. Layered(x.visible, r)
    BY <1>1, <2>1, LayerTreeLayered DEF DefaultFilter
  <2>. QED
    BY <1>5, <1>7, <2>1, <2>2 DEF r, q, l
<1>8. CASE ~Shadowed(q, l) /\ ~Overlaps(q, r)
  <2>1. x.all = r /\ x.visible = RemoveWriteOf(w, q)
    BY <1>5, <1>8
  <2>2. i = 1
    <3>1. SUFFICES ASSUME Whole, n > 1
                   PROVE  FALSE
      BY <1>1
    <3>2. 1 \in DOMAIN r /\ r[1].visible /\ r[1].path = Root /\ q.path = Root
      <4>1. 1 \in DOMAIN r /\ r[1] \in Records
        BY <1>1, <3>1, ElementOfSeq
      <4>2. \A y \in Records : y.visible = TRUE /\ y.path = Root
        BY <3>1, RecordIs DEF Records
      <4>. QED
        BY <1>2, <4>1, <4>2
    <3>. QED
      BY <1>8, <3>2 DEF Overlaps, PathContains
  <2>3. \A k \in 2 .. n : ~RecordContains(s[k], q.path) /\ ~PathContains(q.path, s[k].path)
    <3>1. ASSUME NEW k \in 2 .. n
          PROVE  ~PathContains(q.path, s[k].path)
      <4>1. k - 1 \in DOMAIN r /\ r[k - 1] = s[k]
        BY <1>1, <2>2
      <4>2. s[k].visible = TRUE
        BY <1>1, <1>2
      <4>. QED
        BY <1>8, <4>1, <4>2 DEF Overlaps
    <3>2. ASSUME NEW k \in 2 .. n
          PROVE  ~RecordContains(s[k], q.path)
      <4>1. k \in DOMAIN s /\ k > i
        BY <1>1, <2>2
      <4>. QED
        BY <1>4, <1>8, <4>1
    <3>. QED
      BY <3>1, <3>2
  <2>4. w \in Compounds /\ (w.root <=> \E k \in 1 .. n : IsSet(s[k]))
        /\ \A c \in Children :
             /\ w.node[c] = Unwritten <=> \A k \in 1 .. n : c \notin DOMAIN s[k].data
             /\ \A k \in 1 .. n : LastWrites(s, k, c) => w.node[c] = s[k].data[c]
    BY <1>1 DEF Layered
  <2>5. Layered(x.visible, r)
    <3>1. CASE q.path = Root
      <4>1. n = 1
        BY <1>1, <2>3, <3>1 DEF PathContains
      <4>2. r = <<>>
        BY <1>1, <4>1, EmptySeq, LenProperties
      <4>3. x.visible = emptyWrite
        <5>1. CASE IsSet(q)
          BY <2>1, <5>1 DEF RemoveWriteOf, IsSet
        <5>2. CASE ~IsSet(q)
          <6>1. ~w.root
            BY <1>1, <2>2, <2>4, <4>1, <5>2 DEF q
          <6>2. x.visible = [root |-> FALSE, node |->
                  [c \in Children |-> IF c \in DOMAIN q.data THEN Unwritten ELSE w.node[c]]]
            BY <2>1, <5>2, <6>1 DEF RemoveWriteOf, IsSet
          <6>3. \A c \in Children : c \notin DOMAIN q.data => w.node[c] = Unwritten
            BY <1>1, <2>2, <2>4, <4>1 DEF q
          <6>4. [c \in Children |-> IF c \in DOMAIN q.data THEN Unwritten ELSE w.node[c]]
                  = [c \in Children |-> Unwritten]
            BY <6>3
          <6>. QED
            BY <6>2, <6>4 DEF emptyWrite
        <5>. QED
          BY <5>1, <5>2
      <4>. QED
        BY <4>2, <4>3, EmptyLayered
    <3>2. CASE q.path # Root
      <4>1. DOMAIN q.data = {q.path} /\ q.path \in Children /\ ~IsSet(q)
        BY <1>2, <3>2, RecordIs DEF Records, IsSet
      <4>2. ASSUME NEW k \in 2 .. n
            PROVE  ~IsSet(s[k]) /\ q.path \notin DOMAIN s[k].data
        <5>1. /\ s[k].path # Root => DOMAIN s[k].data = {s[k].path}
              /\ s[k].merge => s[k].path = Root
          <6>1. s[k] \in Records
            BY <1>1, <1>2
          <6>. QED
            BY <6>1, RecordIs DEF Records
        <5>2. s[k].path # q.path /\ (s[k].path = Root => s[k].merge) /\
              (s[k].merge => q.path \notin DOMAIN s[k].data)
          BY <1>1, <2>3, <3>2 DEF RecordContains, PathContains
        <5>. QED
          BY <5>1, <5>2 DEF IsSet
      <4>3. ~w.root /\ ~\E j \in DOMAIN r : IsSet(r[j])
        <5>1. \A k \in 1 .. n : ~IsSet(s[k])
          <6>1. \A k \in 1 .. n : k = 1 \/ k \in 2 .. n
            BY <1>1
          <6>. QED
            BY <2>2, <4>1, <4>2, <6>1 DEF q
        <5>. QED
          BY <1>1, <1>3, <2>4, <5>1
      <4>4. PICK node : node = [c \in Children |-> IF c \in DOMAIN q.data THEN Unwritten ELSE w.node[c]]
        OBVIOUS
      <4>5. x.visible = [root |-> FALSE, node |-> node]
        BY <2>1, <4>1, <4>3, <4>4 DEF RemoveWriteOf, IsSet
      <4>6. ASSUME NEW c \in Children
            PROVE  /\ node[c] = Unwritten <=> \A j \in DOMAIN r : c \notin DOMAIN r[j].data
                   /\ \A j \in DOMAIN r : LastWrites(r, j, c) => node[c] = r[j].data[c]
        <5>0. /\ \A j \in DOMAIN r : r[j] = s[j + 1] /\ j + 1 \in 2 .. n
              /\ \A k \in 2 .. n : k - 1 \in DOMAIN r /\ r[k - 1] = s[k]
          BY <1>1, <2>2
        <5>1. CASE c = q.path
          <6>1. node[c] = Unwritten /\ \A j \in DOMAIN r : c \notin DOMAIN r[j].data
            BY <4>1, <4>2, <4>4, <5>0, <5>1
          <6>. QED
            BY <6>1 DEF LastWrites, Writes
        <5>2. CASE c # q.path
          <6>1. node[c] = w.node[c] /\ c \notin DOMAIN s[1].data
            BY <2>2, <4>1, <4>4, <5>2 DEF q
          <6>2. (\A k \in 1 .. n : c \notin DOMAIN s[k].data) <=>
                \A j \in DOMAIN r : c \notin DOMAIN r[j].data
            <7>1. \A k \in 1 .. n : k = 1 \/ k \in 2 .. n
              BY <1>1
            <7>2. 2 .. n \subseteq 1 .. n
              BY <1>1
            <7>. QED
              BY <5>0, <6>1, <7>1, <7>2
          <6>3. ASSUME NEW j \in DOMAIN r, LastWrites(r, j, c)
                PROVE  LastWrites(s, j + 1, c) /\ j + 1 \in 1 .. n
            <7>1. ASSUME NEW k \in 1 .. n, k > j + 1
                  PROVE  c \notin DOMAIN s[k].data
              <8>1. k \in 2 .. n /\ k - 1 > j
                BY <1>1, <7>1
              <8>. QED
                BY <5>0, <6>3, <8>1 DEF LastWrites
            <7>. QED
              BY <1>1, <5>0, <6>3, <7>1 DEF LastWrites, Writes
          <6>4. node[c] = Unwritten <=> \A j \in DOMAIN r : c \notin DOMAIN r[j].data
            BY <2>4, <6>1, <6>2
          <6>5. ASSUME NEW j \in DOMAIN r, LastWrites(r, j, c)
                PROVE  node[c] = r[j].data[c]
            BY <2>4, <5>0, <6>1, <6>3, <6>5
          <6>. QED
            BY <6>4, <6>5
        <5>. QED
          BY <5>1, <5>2
      <4>7. node \in [Children -> WriteIds \cup {None, Unwritten}]
        BY <2>4, <4>4 DEF Compounds
      <4>8. x.visible.root = FALSE /\ x.visible.node = node /\ x.visible \in Compounds
        <5>1. x.visible.root = FALSE /\ x.visible.node = node
          BY <4>5
        <5>. QED
          BY <4>5, <4>7, <5>1 DEF Compounds
      <4>. QED
        BY <4>3, <4>6, <4>8 DEF Layered
    <3>. QED
      BY <3>1, <3>2
  <2>. QED
    BY <1>5, <1>8, <2>1, <2>5 DEF r, q, l
<1>. QED
  BY <1>6, <1>7, <1>8

\* Writes of the location say something of every child.
RootWhole(w) == w.root => \A c \in Children : w.node[c] # Unwritten

\* What is left of w when a write of the children cs is gone.
Shrinks(w, u, cs) ==
  \A c \in Children : u.node[c] = w.node[c] \/ (c \in cs /\ u.node[c] = Unwritten)

\* An overwrite of the location writes every child: so a compound with a root write
\* has every child.
LEMMA LayeredWhole ==
  ASSUME NEW s \in Seq(Records), NEW w, Layered(w, s)
  PROVE  w \in Compounds /\ RootWhole(w)
<1>. SUFFICES ASSUME w.root, NEW c \in Children
              PROVE  w.node[c] # Unwritten
  BY DEF RootWhole, Layered
<1>1. PICK i \in DOMAIN s : IsSet(s[i])
  BY DEF Layered
<1>2. s[i] \in Records
  BY ElementOfSeq, LenProperties
<1>3. c \in DOMAIN s[i].data
  BY <1>1, <1>2, RecordIs DEF Records
<1>. QED
  BY <1>3 DEF Layered

\* Removing the first write uncovers its children only: later writes of them stay
\* on top (removeWriteId: in FWriteTree).
LEMMA HeadGone ==
  ASSUME NEW s \in Seq(Records), 1 \in DOMAIN s,
         NEW w, Layered(w, s), NEW u, Layered(u, RemoveAt(s, 1))
  PROVE  Shrinks(w, u, DOMAIN s[1].data)
<1>. DEFINE n == Len(s)
            r == RemoveAt(s, 1)
<1>1. /\ n \in Nat /\ DOMAIN s = 1 .. n /\ DOMAIN r = 1 .. (n - 1) /\ r \in Seq(Records)
      /\ \A j \in 1 .. (n - 1) : r[j] = IF j < 1 THEN s[j] ELSE s[j + 1]
  BY RemoveAtIs
<1>2. /\ \A j \in 1 .. (n - 1) : j + 1 \in 1 .. n /\ r[j] = s[j + 1]
      /\ \A k \in 1 .. n : k = 1 \/ (k - 1 \in 1 .. (n - 1) /\ r[k - 1] = s[k])
  <2>1. ASSUME NEW k \in 1 .. n, k # 1
        PROVE  k - 1 \in 1 .. (n - 1) /\ ~(k - 1 < 1) /\ (k - 1) + 1 = k
    BY <1>1, <2>1
  <2>. HIDE DEF r, n
  <2>. QED
    BY <1>1, <2>1
<1>. HIDE DEF r, n
<1>3. ASSUME NEW c \in Children
      PROVE  u.node[c] = w.node[c] \/ (c \in DOMAIN s[1].data /\ u.node[c] = Unwritten)
  <2>1. /\ u.node[c] = Unwritten <=> \A j \in DOMAIN r : c \notin DOMAIN r[j].data
        /\ \A j \in DOMAIN r : LastWrites(r, j, c) => u.node[c] = r[j].data[c]
    BY DEF Layered, r
  <2>2. /\ w.node[c] = Unwritten <=> \A k \in DOMAIN s : c \notin DOMAIN s[k].data
        /\ \A k \in DOMAIN s : LastWrites(s, k, c) => w.node[c] = s[k].data[c]
    BY DEF Layered
  <2>3. CASE \A j \in DOMAIN r : c \notin DOMAIN r[j].data
    <3>1. CASE c \in DOMAIN s[1].data
      BY <2>1, <2>3, <3>1
    <3>2. CASE c \notin DOMAIN s[1].data
      <4>1. ASSUME NEW k \in DOMAIN s
            PROVE  c \notin DOMAIN s[k].data
        BY <1>1, <1>2, <2>3, <3>2
      <4>. QED
        BY <2>1, <2>2, <2>3, <4>1
    <3>. QED
      BY <3>1, <3>2
  <2>4. CASE \E j \in DOMAIN r : c \in DOMAIN r[j].data
    <3>1. PICK j \in DOMAIN r : LastWrites(r, j, c)
      BY <1>1, <2>4, LastExists
    <3>2. ASSUME NEW k \in DOMAIN s, k > j + 1
          PROVE  c \notin DOMAIN s[k].data
      <4>1. k - 1 \in DOMAIN r /\ r[k - 1] = s[k] /\ k - 1 > j
        BY <1>1, <1>2, <3>2
      <4>. QED
        BY <3>1, <4>1 DEF LastWrites
    <3>3. LastWrites(s, j + 1, c) /\ s[j + 1] = r[j] /\ j + 1 \in DOMAIN s
      BY <1>1, <1>2, <3>1, <3>2 DEF LastWrites, Writes
    <3>4. u.node[c] = r[j].data[c]
      BY <2>1, <3>1
    <3>5. w.node[c] = s[j + 1].data[c]
      BY <2>2, <3>3
    <3>. QED
      BY <3>3, <3>4, <3>5
  <2>. QED
    BY <2>3, <2>4
<1>. QED
  BY <1>3 DEF Shrinks

-----------------------------------------------------------------------------
(* The operations of one view.                                             *)

\* A node with the pending writes on it has the written values where a write covers
\* the view, and the node's own elsewhere.
LEMMA WithWritesIs ==
  ASSUME NEW w \in Compounds, NEW p \in Paths, NEW node \in Node
  PROVE  /\ WithWrites(w, p, node) \in Node
         /\ \A c \in Children : WithWrites(w, p, node)[c] =
              IF c \in Below(p) /\ w.node[c] # Unwritten THEN w.node[c] ELSE node[c]
<1>1. /\ \A c \in Children : w.node[c] \in WriteIds \cup {None, Unwritten}
      /\ \A c \in Children : node[c] \in Values
  BY DEF Compounds, Node
<1>2. WriteIds \subseteq Values /\ None \in Values
  BY WritesAssumption DEF WriteIds, Values
<1>. QED
  BY <1>1, <1>2 DEF WithWrites, Node

\* The children a view shows: all for the location, itself for a child.
LEMMA BelowIs ==
  ASSUME NEW p \in Paths
  PROVE  /\ Below(p) \subseteq Children /\ Root \notin Children
         /\ p = Root => Below(p) = Children
         /\ p # Root => Below(p) = {p} /\ p \in Children
BY WritesAssumption DEF Below, Paths

\* Under a complete write it does not matter what the server has.
LEMMA ShadowedSame ==
  ASSUME NEW w \in Compounds, RootWhole(w), NEW u \in Compounds, NEW p \in Paths, Shadowing(u, p),
         RootWhole(u), NEW cs, Shrinks(w, u, cs), NEW a \in Node, NEW b \in Node,
         \A c \in Children \ Below(p) : a[c] = None /\ b[c] = None
  PROVE  WithWrites(w, p, a) = WithWrites(u, p, b)
<1>1. \A c \in Below(p) : u.node[c] # Unwritten /\ u.node[c] = w.node[c]
  BY BelowIs DEF Shadowing, HasCompleteWriteAt, RootWhole, Shrinks
<1>2. ASSUME NEW c \in Children
      PROVE  WithWrites(w, p, a)[c] = WithWrites(u, p, b)[c]
  <2>1. CASE c \in Below(p)
    BY <1>1, <2>1, WithWritesIs
  <2>2. CASE c \notin Below(p)
    BY <2>2, WithWritesIs
  <2>. QED
    BY <2>1, <2>2
<1>3. WithWrites(w, p, a) \in Node /\ WithWrites(u, p, b) \in Node
  BY WithWritesIs
<1>. QED
  BY <1>2, <1>3 DEF Node

\* generateEventCacheAfterServerEvent of the whole node.
LEMMA EventAfterAllIs ==
  ASSUME NEW v \in Caches, v.on, NEW w \in Compounds, NEW p \in Paths,
         \A c \in Children \ Below(p) : v.server[c] = None,
         Shadowing(w, p) => v.eventFull /\ v.event = WithWrites(w, p, v.server),
         NEW r, r = EventAfterAll(v, w, p)
  PROVE  /\ r \in Caches /\ r.on /\ Shows(r, w, p) /\ r.eventFull
         /\ r.server = v.server /\ r.serverFull = v.serverFull
<1>1. CASE Shadowing(w, p)
  BY <1>1 DEF EventAfterAll, Shows
<1>2. CASE ~Shadowing(w, p)
  <2>1. PICK e : e = WithWrites(w, p, v.server)
    OBVIOUS
  <2>2. e \in Node
    BY <2>1, WithWritesIs DEF Caches
  <2>3. r = [v EXCEPT !.event = e, !.eventFull = TRUE]
    BY <1>2, <2>1 DEF EventAfterAll
  <2>4. r \in Caches /\ r.on /\ r.eventFull /\ r.event = e
        /\ r.server = v.server /\ r.serverFull = v.serverFull
    BY <2>2, <2>3 DEF Caches
  <2>. QED
    BY <2>1, <2>4 DEF Shows
<1>. QED
  BY <1>1, <1>2

\* applyServerOverwrite of a view's own path.
LEMMA ServerOverwriteAllIs ==
  ASSUME NEW v \in Caches, v.on, NEW w \in Compounds, RootWhole(w), NEW p \in Paths,
         NEW node \in Node, \A c \in Children \ Below(p) : node[c] = None,
         Shadowing(w, p) => Shows(v, w, p),
         NEW r, r = ServerOverwriteAll(v, w, p, node)
  PROVE  r \in Caches /\ r.on /\ Shows(r, w, p) /\ r.serverFull
<1>1. PICK u : u = [v EXCEPT !.server = node, !.serverFull = TRUE]
  OBVIOUS
<1>2. /\ u \in Caches /\ u.on /\ u.server = node /\ u.serverFull
      /\ u.event = v.event /\ u.eventFull = v.eventFull
  BY <1>1 DEF Caches
<1>3. r = EventAfterAll(u, w, p)
  BY <1>1 DEF ServerOverwriteAll
<1>4. ASSUME Shadowing(w, p)
      PROVE  u.eventFull /\ u.event = WithWrites(w, p, u.server)
  <2>1. /\ v.event = WithWrites(w, p, v.server) /\ v.eventFull
        /\ \A c \in Children \ Below(p) : v.server[c] = None
    BY <1>4 DEF Shows
  <2>2. Shrinks(w, w, {}) /\ v.server \in Node
    <3>1. Shrinks(w, w, {})
      BY DEF Shrinks
    <3>2. v.server \in Node
      BY DEF Caches
    <3>. QED
      BY <3>1, <3>2
  <2>. QED
    BY <1>2, <1>4, <2>1, <2>2, ShadowedSame
<1>. QED
  BY <1>2, <1>3, <1>4, EventAfterAllIs

\* applyServerOverwrite of a child, for the view of the location.
LEMMA ServerOverwriteChildIs ==
  ASSUME NEW v \in Caches, NEW w \in Compounds, NEW c \in Children, NEW value \in Values,
         NEW r, r = ServerOverwriteChild(v, w, c, value)
  PROVE  /\ r \in Caches /\ r.on = v.on /\ r.serverFull = v.serverFull /\ r.eventFull = v.eventFull
         /\ \A b \in Children :
              /\ r.server[b] = IF b = c THEN value ELSE v.server[b]
              /\ r.event[b] = IF b = c /\ w.node[c] = Unwritten THEN value ELSE v.event[b]
<1>. PICK node : node = [v.server EXCEPT ![c] = value]
  OBVIOUS
<1>. PICK u : u = [v EXCEPT !.server = node]
  OBVIOUS
<1>1. v.server \in Node /\ v.event \in Node /\ node \in Node
      /\ \A b \in Children : node[b] = IF b = c THEN value ELSE v.server[b]
  BY DEF Caches, Node
<1>2. /\ u \in Caches /\ u.on = v.on /\ u.server = node /\ u.serverFull = v.serverFull
      /\ u.event = v.event /\ u.eventFull = v.eventFull
  BY <1>1 DEF Caches
<1>3. r = EventAfterChild(u, w, c)
  BY DEF ServerOverwriteChild
<1>4. CASE w.node[c] # Unwritten \/
      ~(CompleteFor(u.event, u.eventFull, c) \/ CompleteFor(u.server, u.serverFull, c))
  <2>1. r = u
    BY <1>3, <1>4, BelowIs DEF EventAfterChild, Shadowing, HasCompleteWriteAt, Paths
  <2>2. w.node[c] = Unwritten => value = None /\ v.event[c] = None
    BY <1>1, <1>2, <1>4 DEF CompleteFor
  <2>. QED
    BY <1>1, <1>2, <2>1, <2>2
<1>5. CASE ~(w.node[c] # Unwritten \/
      ~(CompleteFor(u.event, u.eventFull, c) \/ CompleteFor(u.server, u.serverFull, c)))
  <2>. PICK e : e = [v.event EXCEPT ![c] = value]
    OBVIOUS
  <2>1. e \in Node /\ \A b \in Children : e[b] = IF b = c THEN value ELSE v.event[b]
    BY <1>1 DEF Node
  <2>2. r = [u EXCEPT !.event = e]
    <3>1. r = [u EXCEPT !.event[c] = u.server[c]]
      BY <1>3, <1>5, BelowIs DEF EventAfterChild, Shadowing, HasCompleteWriteAt, Paths
    <3>2. u.server[c] = value
      BY <1>1, <1>2
    <3>. QED
      BY <1>2, <3>1, <3>2
  <2>3. /\ r \in Caches /\ r.on = u.on /\ r.server = u.server /\ r.serverFull = u.serverFull
        /\ r.event = e /\ r.eventFull = u.eventFull
    BY <1>2, <2>1, <2>2 DEF Caches
  <2>. QED
    BY <1>1, <1>2, <1>5, <2>1, <2>3
<1>. QED
  BY <1>4, <1>5

\* applyServerMerge of a view that has a cache.
LEMMA ServerMergeIs ==
  ASSUME NEW v \in Caches, NEW w \in Compounds, NEW changed \in Changed(Nat),
         NEW r, r = ServerMerge(v, w, changed)
  PROVE  /\ r \in Caches /\ r.on = v.on /\ r.serverFull = v.serverFull /\ r.eventFull = v.eventFull
         /\ \/ ~v.serverFull /\ r = v
            \/ \A b \in Children :
                 /\ r.server[b] = IF b \in DOMAIN changed THEN changed[b] ELSE v.server[b]
                 /\ r.event[b] = IF b \in DOMAIN changed /\ w.node[b] = Unwritten THEN changed[b]
                                 ELSE v.event[b]
<1>1. DOMAIN changed \subseteq Children /\ \A c \in DOMAIN changed : changed[c] \in Values
  BY DEF Changed, Values
<1>2. CASE v.server = Empty /\ ~v.serverFull
  BY <1>2 DEF ServerMerge
<1>3. CASE ~(v.server = Empty /\ ~v.serverFull)
  <2>. DEFINE after == [c \in DOMAIN changed |-> ServerOverwriteChild(v, w, c, changed[c])]
              A == [c \in DOMAIN changed |-> after[c].server[c]]
              B == [c \in DOMAIN changed |-> after[c].event[c]]
  <2>. PICK a : a = Onto(A, v.server)
    OBVIOUS
  <2>. PICK b : b = Onto(B, v.event)
    OBVIOUS
  <2>1. r = [v EXCEPT !.server = a, !.event = b]
    BY <1>3 DEF ServerMerge
  <2>2. \A c \in DOMAIN changed :
          A[c] = changed[c] /\ B[c] = IF w.node[c] = Unwritten THEN changed[c] ELSE v.event[c]
    BY <1>1, ServerOverwriteChildIs
  <2>3. v.server \in [Children -> Values] /\ v.event \in [Children -> Values]
    BY DEF Caches, Node
  <2>4. DOMAIN A = DOMAIN changed /\ DOMAIN B = DOMAIN changed
    OBVIOUS
  <2>. HIDE DEF A, B
  <2>5. a \in [Children -> Values]
        /\ \A c \in Children : a[c] = IF c \in DOMAIN changed THEN changed[c] ELSE v.server[c]
    <3>1. \A c \in DOMAIN A : A[c] \in Values
      BY <1>1, <2>2, <2>4
    <3>2. a \in [Children -> Values] /\
          \A c \in Children : a[c] = IF c \in DOMAIN A THEN A[c] ELSE v.server[c]
      <4>. PICK f : f = A
        OBVIOUS
      <4>. PICK node : node = v.server
        OBVIOUS
      <4>1. node \in [Children -> Values] /\ \A c \in DOMAIN f : f[c] \in Values
        BY <2>3, <3>1
      <4>2. Onto(f, node) \in [Children -> Values]
            /\ \A c \in Children : Onto(f, node)[c] = IF c \in DOMAIN f THEN f[c] ELSE node[c]
        BY ONLY <4>1, OntoIs
      <4>. QED
        BY <4>2
    <3>. QED
      BY <2>2, <2>4, <3>2
  <2>6. b \in [Children -> Values]
        /\ \A c \in Children : b[c] = IF c \in DOMAIN changed /\ w.node[c] = Unwritten THEN changed[c]
                                      ELSE v.event[c]
    <3>1. \A c \in DOMAIN B : B[c] \in Values
      BY <1>1, <2>2, <2>3, <2>4
    <3>2. b \in [Children -> Values] /\
          \A c \in Children : b[c] = IF c \in DOMAIN B THEN B[c] ELSE v.event[c]
      <4>. PICK f : f = B
        OBVIOUS
      <4>. PICK node : node = v.event
        OBVIOUS
      <4>1. node \in [Children -> Values] /\ \A c \in DOMAIN f : f[c] \in Values
        BY <2>3, <3>1
      <4>2. Onto(f, node) \in [Children -> Values]
            /\ \A c \in Children : Onto(f, node)[c] = IF c \in DOMAIN f THEN f[c] ELSE node[c]
        BY ONLY <4>1, OntoIs
      <4>. QED
        BY <4>2
    <3>. QED
      BY <2>2, <2>4, <3>2
  <2>7. /\ r \in Caches /\ r.on = v.on /\ r.serverFull = v.serverFull /\ r.eventFull = v.eventFull
        /\ r.server = a /\ r.event = b
    BY <2>1, <2>5, <2>6 DEF Caches, Node
  <2>. QED
    BY <2>5, <2>6, <2>7
<1>. QED
  BY <1>2, <1>3

\* A view of the location whose children are as the server has them, or written.
LEMMA RootShows ==
  ASSUME NEW v \in Caches, v.on, NEW w \in Compounds, v.serverFull \/ w.root => v.eventFull,
         \A c \in Children : v.event[c] = IF w.node[c] # Unwritten THEN w.node[c] ELSE v.server[c]
  PROVE  Shows(v, w, Root)
<1>1. v.server \in Node /\ v.event \in Node /\ Root \in Paths
  BY DEF Caches, Paths
<1>2. /\ WithWrites(w, Root, v.server) \in Node
      /\ \A c \in Children : WithWrites(w, Root, v.server)[c] = v.event[c]
  BY <1>1, WithWritesIs, BelowIs
<1>3. v.event = WithWrites(w, Root, v.server)
  BY <1>1, <1>2 DEF Node
<1>. QED
  BY <1>3 DEF Shows, Shadowing, HasCompleteWriteAt, Below

\* What the cache of the location's view shows under the pending writes.
LEMMA RootShown ==
  ASSUME NEW v \in Caches, v.on, NEW w \in Compounds, Shows(v, w, Root)
  PROVE  /\ v.serverFull \/ w.root => v.eventFull
         /\ \A c \in Children : v.event[c] = IF w.node[c] # Unwritten THEN w.node[c] ELSE v.server[c]
<1>1. v.server \in Node /\ Root \in Paths
  BY DEF Caches, Paths
<1>. QED
  BY <1>1, WithWritesIs, BelowIs DEF Shows, Shadowing, HasCompleteWriteAt

\* The server's data leaves a view showing it under the writes.
LEMMA OverwriteChildShows ==
  ASSUME NEW v \in Caches, v.on, NEW w \in Compounds, Shows(v, w, Root),
         NEW c \in Children, NEW value \in Values, NEW r, r = ServerOverwriteChild(v, w, c, value)
  PROVE  r \in Caches /\ r.on /\ Shows(r, w, Root) /\ r.serverFull = v.serverFull
<1>1. /\ v.serverFull \/ w.root => v.eventFull
      /\ \A b \in Children : v.event[b] = IF w.node[b] # Unwritten THEN w.node[b] ELSE v.server[b]
  BY RootShown
<1>2. /\ r \in Caches /\ r.on /\ r.serverFull = v.serverFull /\ r.eventFull = v.eventFull
      /\ \A b \in Children :
           /\ r.server[b] = IF b = c THEN value ELSE v.server[b]
           /\ r.event[b] = IF b = c /\ w.node[c] = Unwritten THEN value ELSE v.event[b]
  BY ServerOverwriteChildIs
<1>3. \A b \in Children : r.event[b] = IF w.node[b] # Unwritten THEN w.node[b] ELSE r.server[b]
  BY <1>1, <1>2
<1>. QED
  BY <1>1, <1>2, <1>3, RootShows

\* A merge of the server keeps a view equal to the server's data under the pending
\* writes (applyServerMergeTo: in FViewProcessor).
LEMMA MergeShows ==
  ASSUME NEW v \in Caches, v.on, NEW w \in Compounds, Shows(v, w, Root),
         NEW changed \in Changed(Nat), NEW r, r = ServerMerge(v, w, changed)
  PROVE  r \in Caches /\ r.on /\ Shows(r, w, Root) /\ r.serverFull = v.serverFull
<1>1. /\ v.serverFull \/ w.root => v.eventFull
      /\ \A b \in Children : v.event[b] = IF w.node[b] # Unwritten THEN w.node[b] ELSE v.server[b]
  BY RootShown
<1>2. /\ r \in Caches /\ r.on /\ r.serverFull = v.serverFull /\ r.eventFull = v.eventFull
      /\ \/ ~v.serverFull /\ r = v
         \/ \A b \in Children :
              /\ r.server[b] = IF b \in DOMAIN changed THEN changed[b] ELSE v.server[b]
              /\ r.event[b] = IF b \in DOMAIN changed /\ w.node[b] = Unwritten THEN changed[b]
                              ELSE v.event[b]
  BY ServerMergeIs
<1>3. \/ r = v
      \/ \A b \in Children : r.event[b] = IF w.node[b] # Unwritten THEN w.node[b] ELSE r.server[b]
  BY <1>1, <1>2
<1>. QED
  BY <1>1, <1>2, <1>3, RootShows

\* A listen that completes makes the server's cache full and changes no value shown
\* (listenCompleteOldViewCache: in FViewProcessor).
LEMMA ListenCompleteShows ==
  ASSUME NEW v \in Caches, v.on, NEW w \in Compounds, NEW p \in Paths, Shows(v, w, p),
         NEW path \in {p} \cup Below(p), NEW r, r = ListenComplete(v, w, p, path)
  PROVE  /\ r \in Caches /\ r.on /\ Shows(r, w, p)
         /\ r.serverFull = (v.serverFull \/ path = p)
<1>1. CASE path = p
  <2>. PICK u : u = [v EXCEPT !.serverFull = TRUE]
    OBVIOUS
  <2>1. /\ u \in Caches /\ u.on /\ u.server = v.server /\ u.serverFull
        /\ u.event = v.event /\ u.eventFull = v.eventFull
    BY DEF Caches
  <2>2. r = EventAfterAll(u, w, p)
    BY <1>1 DEF ListenComplete
  <2>3. /\ \A c \in Children \ Below(p) : u.server[c] = None
        /\ Shadowing(w, p) => u.eventFull /\ u.event = WithWrites(w, p, u.server)
    BY <2>1 DEF Shows
  <2>4. r \in Caches /\ r.on /\ Shows(r, w, p) /\ r.serverFull = u.serverFull
    BY <2>1, <2>2, <2>3, EventAfterAllIs
  <2>5. r.serverFull = TRUE /\ v.serverFull \in BOOLEAN
    BY <2>1, <2>4 DEF Caches
  <2>. QED
    BY <1>1, <2>4, <2>5
<1>2. CASE path # p
  <2>1. p = Root /\ path \in Children
    BY <1>2, BelowIs
  <2>2. /\ v.serverFull \/ w.root => v.eventFull
        /\ \A c \in Children : v.event[c] = IF w.node[c] # Unwritten THEN w.node[c] ELSE v.server[c]
    BY <2>1, RootShown
  <2>3. r = EventAfterChild(v, w, path)
    BY <1>2 DEF ListenComplete
  <2>4. CASE r = v
    BY <1>2, <2>4 DEF Caches
  <2>5. CASE r # v
    <3>1. w.node[path] = Unwritten /\ r = [v EXCEPT !.event[path] = v.server[path]]
      BY <2>1, <2>3, <2>5, BelowIs DEF EventAfterChild, Shadowing, HasCompleteWriteAt
    <3>2. v.event[path] = v.server[path]
      BY <2>1, <2>2, <3>1
    <3>. PICK e : e = [v.event EXCEPT ![path] = v.server[path]]
      OBVIOUS
    <3>3. e = v.event
      BY <2>1, <3>2 DEF Caches, Node
    <3>4. r = [v EXCEPT !.event = e]
      BY <3>1
    <3>5. r = v
      BY <3>3, <3>4 DEF Caches
    <3>. QED
      BY <2>5, <3>5
  <2>. QED
    BY <2>4, <2>5
<1>. QED
  BY <1>1, <1>2

\* A write that is gone and was not seen leaves a view as it is.
LEMMA KeepsShowing ==
  ASSUME NEW v \in Caches, v.on, NEW w \in Compounds, NEW u \in Compounds, NEW p \in Paths,
         Shows(v, w, p), v.serverFull \/ (p # Root) \/ (u.root => w.root),
         \A c \in Below(p) : u.node[c] = w.node[c]
  PROVE  Shows(v, u, p)
<1>1. /\ v.event = WithWrites(w, p, v.server)
      /\ v.serverFull \/ Shadowing(w, p) => v.eventFull
      /\ \A c \in Children \ Below(p) : v.server[c] = None
  BY DEF Shows
<1>2. v.server \in Node
  BY DEF Caches
<1>3. WithWrites(u, p, v.server) = WithWrites(w, p, v.server)
  BY DEF WithWrites
<1>4. v.serverFull \/ Shadowing(u, p) => v.eventFull
  BY <1>1, BelowIs DEF Shadowing, HasCompleteWriteAt
<1>. QED
  BY <1>1, <1>3, <1>4 DEF Shows

\* A compound whose remaining writes shadow a path shows there what it showed before.
LEMMA ShadowKeeps ==
  ASSUME NEW w, NEW u, RootWhole(u), NEW cs, Shrinks(w, u, cs), NEW p \in Paths, Shadowing(u, p)
  PROVE  \A c \in Below(p) : u.node[c] = w.node[c]
BY BelowIs DEF Shadowing, HasCompleteWriteAt, RootWhole, Shrinks

\* revertUserWrite of what a view shows as a whole.
LEMMA RevertAllShows ==
  ASSUME NEW v \in Caches, v.on, v.serverFull, NEW w \in Compounds, NEW u \in Compounds,
         RootWhole(u), NEW cs, Shrinks(w, u, cs), NEW p \in Paths, Shows(v, w, p),
         NEW r, r = RevertAll(v, u, p)
  PROVE  r \in Caches /\ r.on /\ Shows(r, u, p) /\ r.serverFull
<1>1. CASE Shadowing(u, p)
  <2>1. \A c \in Below(p) : u.node[c] = w.node[c]
    BY <1>1, ShadowKeeps
  <2>2. Shows(v, u, p)
    <3>1. v.serverFull \/ (p # Root) \/ (u.root => w.root)
      OBVIOUS
    <3>. QED
      BY ONLY v \in Caches, v.on, w \in Compounds, u \in Compounds, p \in Paths, Shows(v, w, p),
              <2>1, <3>1, KeepsShowing
  <2>. QED
    BY <1>1, <2>2 DEF RevertAll
<1>2. CASE ~Shadowing(u, p)
  <2>. PICK e : e = WithWrites(u, p, v.server)
    OBVIOUS
  <2>1. e \in Node /\ v.server \in Node
    BY WithWritesIs DEF Caches
  <2>2. r = [v EXCEPT !.event = e, !.eventFull = v.serverFull]
    BY <1>2 DEF RevertAll
  <2>3. r \in Caches /\ r.on /\ r.serverFull /\ r.eventFull /\ r.event = e /\ r.server = v.server
    BY <2>1, <2>2 DEF Caches
  <2>4. \A c \in Children \ Below(p) : r.server[c] = None
    BY <2>3 DEF Shows
  <2>. QED
    BY <2>3, <2>4 DEF Shows
<1>. QED
  BY <1>1, <1>2

\* A refused write of one child leaves the view at the server's value under the
\* remaining writes (revertUserWriteOnViewCache: in FViewProcessor).
LEMMA RevertChildShows ==
  ASSUME NEW v \in Caches, v.on, v.serverFull, NEW w \in Compounds, NEW u \in Compounds,
         RootWhole(u), NEW c \in Children, Shrinks(w, u, {c}), Shows(v, w, Root),
         NEW r, r = RevertChild(v, u, c)
  PROVE  r \in Caches /\ r.on /\ Shows(r, u, Root) /\ r.serverFull
<1>1. /\ v.eventFull
      /\ \A b \in Children : v.event[b] = IF w.node[b] # Unwritten THEN w.node[b] ELSE v.server[b]
  BY RootShown
<1>2. c # Root /\ Root \in Paths /\ c \in Paths
  BY BelowIs DEF Paths
<1>3. CASE u.node[c] # Unwritten
  <2>1. \A b \in Children : u.node[b] = w.node[b]
    BY <1>3 DEF Shrinks
  <2>2. Shows(v, u, Root)
    BY <1>2, <2>1, BelowIs, KeepsShowing
  <2>. QED
    BY <1>2, <1>3, <2>2 DEF RevertChild, Shadowing, HasCompleteWriteAt
<1>4. CASE u.node[c] = Unwritten
  <2>. PICK e : e = [v.event EXCEPT ![c] = v.server[c]]
    OBVIOUS
  <2>1. e \in Node /\ \A b \in Children : e[b] = IF b = c THEN v.server[b] ELSE v.event[b]
    BY DEF Caches, Node
  <2>2. r = [v EXCEPT !.event = e, !.eventFull = TRUE]
    <3>1. r = [v EXCEPT !.event[c] = v.server[c], !.eventFull = TRUE]
      BY <1>2, <1>4 DEF RevertChild, Shadowing, HasCompleteWriteAt, CompleteFor
    <3>. QED
      BY <3>1
  <2>3. r \in Caches /\ r.on /\ r.serverFull /\ r.eventFull /\ r.event = e /\ r.server = v.server
    BY <2>1, <2>2 DEF Caches
  <2>4. \A b \in Children : r.event[b] = IF u.node[b] # Unwritten THEN u.node[b] ELSE r.server[b]
    BY <1>1, <1>4, <2>1, <2>3 DEF Shrinks
  <2>. QED
    BY <2>3, <2>4, RootShows
<1>. QED
  BY <1>3, <1>4

\* ackUserWrite of an overwrite.
LEMMA AckOverwriteShows ==
  ASSUME NEW v \in Caches, v.on, v.serverFull, NEW w \in Compounds, NEW u \in Compounds,
         RootWhole(u), NEW cs, Shrinks(w, u, cs), NEW p \in Paths, Shows(v, w, p),
         NEW path \in Paths, path = p \/ (p = Root /\ cs \subseteq {path}),
         NEW r, r = AckOverwrite(v, u, p, path)
  PROVE  r \in Caches /\ r.on /\ Shows(r, u, p) /\ r.serverFull
<1>0. v.server \in Node /\ \A c \in Children \ Below(p) : v.server[c] = None
  BY DEF Caches, Shows
<1>1. CASE path = p /\ Shadowing(u, p)
  <2>1. Shows(v, u, p)
    BY <1>1, ShadowKeeps, KeepsShowing
  <2>. QED
    BY <1>1, <2>1 DEF AckOverwrite
<1>2. CASE path = p /\ ~Shadowing(u, p)
  <2>1. r = ServerOverwriteAll(v, u, p, v.server)
    BY <1>2 DEF AckOverwrite
  <2>. QED
    BY <1>0, <1>2, <2>1, ServerOverwriteAllIs
<1>3. CASE path # p
  <2>1. p = Root /\ path \in Children /\ path # Root /\ cs \subseteq {path}
    BY <1>3 DEF Paths
  <2>2. /\ v.eventFull
        /\ \A b \in Children : v.event[b] = IF w.node[b] # Unwritten THEN w.node[b] ELSE v.server[b]
    BY <2>1, RootShown
  <2>3. CASE u.node[path] # Unwritten
    <3>1. \A b \in Children : u.node[b] = w.node[b]
      BY <2>1, <2>3 DEF Shrinks
    <3>2. Shows(v, u, p)
      BY <2>1, <3>1, BelowIs, KeepsShowing
    <3>. QED
      BY <2>1, <2>3, <3>2 DEF AckOverwrite, Shadowing, HasCompleteWriteAt
  <2>4. CASE u.node[path] = Unwritten
    <3>1. r = ServerOverwriteChild(v, u, path, v.server[path])
      BY <1>3, <2>1, <2>4 DEF AckOverwrite, Shadowing, HasCompleteWriteAt, CompleteFor
    <3>2. v.server[path] \in Values
      BY <1>0, <2>1 DEF Node
    <3>3. /\ r \in Caches /\ r.on /\ r.serverFull /\ r.eventFull
          /\ \A b \in Children :
               /\ r.server[b] = IF b = path THEN v.server[path] ELSE v.server[b]
               /\ r.event[b] = IF b = path /\ u.node[path] = Unwritten THEN v.server[path] ELSE v.event[b]
      BY <2>1, <2>2, <3>1, <3>2, ServerOverwriteChildIs
    <3>4. \A b \in Children : r.event[b] = IF u.node[b] # Unwritten THEN u.node[b] ELSE r.server[b]
      BY <2>1, <2>2, <2>4, <3>3 DEF Shrinks
    <3>. QED
      BY <2>1, <3>3, <3>4, RootShows
  <2>. QED
    BY <2>3, <2>4
<1>. QED
  BY <1>1, <1>2, <1>3

\* ackUserWrite of a merge, for the view of the location.
LEMMA AckMergeShows ==
  ASSUME NEW v \in Caches, v.on, v.serverFull, NEW w \in Compounds, NEW u \in Compounds,
         RootWhole(u), NEW cs, cs \subseteq Children, Shrinks(w, u, cs), Shows(v, w, Root),
         NEW r, r = AckMerge(v, u, Root, cs)
  PROVE  r \in Caches /\ r.on /\ Shows(r, u, Root) /\ r.serverFull
<1>0. v.server \in Node /\ Root \in Paths
  BY DEF Caches, Paths
<1>1. /\ v.eventFull
      /\ \A b \in Children : v.event[b] = IF w.node[b] # Unwritten THEN w.node[b] ELSE v.server[b]
  BY RootShown
<1>2. CASE Shadowing(u, Root)
  <2>1. Shows(v, u, Root)
    BY <1>0, <1>2, ShadowKeeps, KeepsShowing
  <2>. QED
    BY <1>2, <2>1 DEF AckMerge
<1>3. CASE ~Shadowing(u, Root)
  <2>. PICK changed : changed = [c \in cs |-> v.server[c]]
    OBVIOUS
  <2>1. changed \in Changed(Nat) /\ DOMAIN changed = cs /\ \A c \in cs : changed[c] = v.server[c]
    <3>1. changed \in [cs -> Nat \cup {None}]
      BY <1>0 DEF Node, Values
    <3>. QED
      BY <3>1 DEF Changed
  <2>2. r = ServerMerge(v, u, changed)
    <3>1. {b \in cs : CompleteFor(v.server, v.serverFull, b)} = cs
      BY DEF CompleteFor
    <3>2. r = ServerMerge(v, u, [c \in {b \in cs : CompleteFor(v.server, v.serverFull, b)} |-> v.server[c]])
      BY <1>3 DEF AckMerge
    <3>. QED
      BY <3>1, <3>2
  <2>3. /\ r \in Caches /\ r.on /\ r.serverFull /\ r.eventFull
    BY <1>1, <2>1, <2>2, ServerMergeIs
  <2>4. \A b \in Children :
          /\ r.server[b] = IF b \in DOMAIN changed THEN changed[b] ELSE v.server[b]
          /\ r.event[b] = IF b \in DOMAIN changed /\ u.node[b] = Unwritten THEN changed[b]
                          ELSE v.event[b]
    BY <2>1, <2>2, ServerMergeIs
  <2>5. \A b \in Children : r.event[b] = IF u.node[b] # Unwritten THEN u.node[b] ELSE r.server[b]
    BY <1>1, <2>1, <2>4 DEF Shrinks
  <2>. QED
    BY <2>3, <2>5, RootShows
<1>. QED
  BY <1>2, <1>3

\* A view that is on stays on, and is not less complete.
Goes(v, r) == r \in Caches /\ r.on /\ (v.serverFull => r.serverFull)

\* Recomputing the event node from the server's node keeps a view's form and its
\* cache of the server.
LEMMA EventAfterAllGoes ==
  ASSUME NEW v \in Caches, v.on, NEW w \in Compounds, NEW p \in Paths,
         NEW r, r = EventAfterAll(v, w, p)
  PROVE  Goes(v, r) /\ r.serverFull = v.serverFull
<1>. PICK e : e = WithWrites(w, p, v.server)
  OBVIOUS
<1>1. e \in Node
  BY WithWritesIs DEF Caches
<1>2. r \in {v, [v EXCEPT !.event = e, !.eventFull = TRUE]}
  BY DEF EventAfterAll
<1>3. r \in Caches
  BY <1>1, <1>2 DEF Caches
<1>4. r.serverFull = v.serverFull
  BY <1>2 DEF Caches
<1>5. r.on
  BY <1>2 DEF Caches
<1>. QED
  BY <1>3, <1>4, <1>5 DEF Goes

\* An overwrite of the server keeps a view on and makes its server cache full.
LEMMA ServerOverwriteAllGoes ==
  ASSUME NEW v \in Caches, v.on, NEW w \in Compounds, NEW p \in Paths, NEW node \in Node,
         NEW r, r = ServerOverwriteAll(v, w, p, node)
  PROVE  Goes(v, r) /\ r.serverFull
<1>. PICK x : x = [v EXCEPT !.server = node, !.serverFull = TRUE]
  OBVIOUS
<1>1. x \in Caches /\ x.on /\ x.serverFull
  BY DEF Caches
<1>2. r = EventAfterAll(x, w, p)
  BY DEF ServerOverwriteAll
<1>3. Goes(x, r) /\ r.serverFull = x.serverFull
  BY ONLY <1>1, <1>2, w \in Compounds, p \in Paths, EventAfterAllGoes
<1>. QED
  BY <1>1, <1>3 DEF Goes

\* A merge of the server keeps a view on and its server cache as full as it was.
LEMMA ServerMergeGoes ==
  ASSUME NEW v \in Caches, v.on, NEW w \in Compounds, NEW changed \in Changed(Nat),
         NEW r, r = ServerMerge(v, w, changed)
  PROVE  Goes(v, r)
<1>1. r \in Caches
  BY ServerMergeIs
<1>2. r.on
  BY ServerMergeIs
<1>3. r.serverFull = v.serverFull
  BY ServerMergeIs
<1>. QED
  BY <1>1, <1>2, <1>3 DEF Goes

\* An overwrite of one child by the server keeps a view on.
LEMMA ServerChildGoes ==
  ASSUME NEW v \in Caches, v.on, NEW w \in Compounds, NEW c \in Children, NEW value \in Values,
         NEW r, r = ServerOverwriteChild(v, w, c, value)
  PROVE  Goes(v, r)
<1>1. r \in Caches
  BY ServerOverwriteChildIs
<1>2. r.on
  BY ServerOverwriteChildIs
<1>3. r.serverFull = v.serverFull
  BY ServerOverwriteChildIs
<1>. QED
  BY <1>1, <1>2, <1>3 DEF Goes

\* Part of what a view has, as a merge.
LEMMA PartOf ==
  ASSUME NEW v \in Caches, NEW cs, cs \subseteq Children
  PROVE  [c \in cs |-> v.server[c]] \in Changed(Nat)
<1>1. [c \in cs |-> v.server[c]] \in [cs -> Nat \cup {None}]
  BY DEF Caches, Node, Values
<1>. QED
  BY <1>1 DEF Changed

\* The acknowledgement of an overwrite keeps a view on (ackUserWriteOn: in
\* FViewProcessor).
LEMMA AckOverwriteGoes ==
  ASSUME NEW v \in Caches, v.on, NEW w \in Compounds, NEW p \in Paths, NEW path \in Paths,
         path = p \/ p = Root, NEW r, r = AckOverwrite(v, w, p, path)
  PROVE  Goes(v, r)
<1>0. v.server \in Node
  BY DEF Caches
<1>1. CASE r = v
  BY <1>1 DEF Goes
<1>2. CASE r = ServerOverwriteAll(v, w, p, v.server)
  BY <1>0, <1>2, ServerOverwriteAllGoes
<1>3. CASE r = ServerMerge(v, w, [c \in {b \in Below(p) : v.server[b] # None} |-> v.server[c]])
  <2>. PICK cs : cs = {b \in Below(p) : v.server[b] # None}
    OBVIOUS
  <2>1. cs \subseteq Children
    BY BelowIs
  <2>2. [c \in cs |-> v.server[c]] \in Changed(Nat)
    BY <2>1, PartOf
  <2>. QED
    BY <1>3, <2>2, ServerMergeGoes
<1>4. CASE path # p /\ r = ServerOverwriteChild(v, w, path, v.server[path])
  <2>1. path \in Children
    BY <1>4 DEF Paths
  <2>2. v.server[path] \in Values
    BY <1>0, <2>1 DEF Node
  <2>. QED
    BY <1>4, <2>1, <2>2, ServerChildGoes
<1>. QED
  BY <1>1, <1>2, <1>3, <1>4 DEF AckOverwrite

\* The acknowledgement of a merge keeps a view on.
LEMMA AckMergeGoes ==
  ASSUME NEW v \in Caches, v.on, NEW w \in Compounds, NEW p \in Paths, NEW cs, cs \subseteq Children,
         NEW r, r = AckMerge(v, w, p, cs)
  PROVE  Goes(v, r)
<1>1. CASE r = v
  BY <1>1 DEF Goes
<1>2. CASE r # v
  <2>. PICK bs : bs = {b \in cs : CompleteFor(v.server, v.serverFull, b)}
    OBVIOUS
  <2>1. [c \in bs |-> v.server[c]] \in Changed(Nat)
    BY PartOf
  <2>2. r = ServerMerge(v, w, [c \in bs |-> v.server[c]])
    BY <1>2 DEF AckMerge
  <2>. QED
    BY <2>1, <2>2, ServerMergeGoes
<1>. QED
  BY <1>1, <1>2

\* A refused write of the whole view keeps a view on.
LEMMA RevertAllGoes ==
  ASSUME NEW v \in Caches, v.on, NEW w \in Compounds, NEW p \in Paths, NEW r, r = RevertAll(v, w, p)
  PROVE  Goes(v, r)
<1>. PICK e : e = WithWrites(w, p, v.server)
  OBVIOUS
<1>1. e \in Node
  BY WithWritesIs DEF Caches
<1>2. r = v \/ r = [v EXCEPT !.event = e, !.eventFull = v.serverFull]
  BY DEF RevertAll
<1>3. r \in Caches
  BY <1>1, <1>2 DEF Caches
<1>4. r.serverFull = v.serverFull
  BY <1>2 DEF Caches
<1>5. r.on
  BY <1>2 DEF Caches
<1>. QED
  BY <1>3, <1>4, <1>5 DEF Goes

\* A refused write of a child keeps a view on.
LEMMA RevertChildGoes ==
  ASSUME NEW v \in Caches, v.on, NEW w \in Compounds, NEW c \in Children, NEW r, r = RevertChild(v, w, c)
  PROVE  Goes(v, r)
<1>. PICK x : x = IF CompleteFor(v.server, v.serverFull, c) THEN v.server[c] ELSE None
  OBVIOUS
<1>. PICK e : e = [v.event EXCEPT ![c] = x]
  OBVIOUS
<1>. PICK full : full = (v.serverFull \/ w.root)
  OBVIOUS
<1>1. e \in Node /\ full \in BOOLEAN
  BY DEF Caches, Node, Values, Compounds
<1>2. r = v \/ r = [v EXCEPT !.event = e, !.eventFull = full]
  BY DEF RevertChild
<1>3. r \in Caches
  BY <1>1, <1>2 DEF Caches
<1>4. r.serverFull = v.serverFull
  BY <1>2 DEF Caches
<1>5. r.on
  BY <1>2 DEF Caches
<1>. QED
  BY <1>3, <1>4, <1>5 DEF Goes

\* A listen that completes keeps a view on, and full at its own path.
LEMMA ListenCompleteGoes ==
  ASSUME NEW v \in Caches, v.on, NEW w \in Compounds, NEW p \in Paths, NEW path \in {p} \cup Below(p),
         NEW r, r = ListenComplete(v, w, p, path)
  PROVE  Goes(v, r) /\ (path = p => r.serverFull)
<1>1. CASE path = p
  <2>. PICK x : x = [v EXCEPT !.serverFull = TRUE]
    OBVIOUS
  <2>1. x \in Caches /\ x.on /\ x.serverFull
    BY DEF Caches
  <2>2. r = EventAfterAll(x, w, p)
    BY <1>1 DEF ListenComplete
  <2>3. Goes(x, r) /\ r.serverFull = x.serverFull
    BY ONLY <2>1, <2>2, w \in Compounds, p \in Paths, EventAfterAllGoes
  <2>. QED
    BY <2>1, <2>3 DEF Goes
<1>2. CASE path # p
  <2>. PICK e : e = [v.event EXCEPT ![path] = v.server[path]]
    OBVIOUS
  <2>1. e \in Node
    BY <1>2, BelowIs DEF Caches, Node
  <2>2. r = v \/ r = [v EXCEPT !.event = e]
    BY <1>2 DEF ListenComplete, EventAfterChild
  <2>3. r \in Caches
    BY <2>1, <2>2 DEF Caches
  <2>4. r.serverFull = v.serverFull
    BY <2>2 DEF Caches
  <2>5. r.on
    BY <2>2 DEF Caches
  <2>. QED
    BY <1>2, <2>3, <2>4, <2>5 DEF Goes
<1>. QED
  BY <1>1, <1>2

\* The user's own overwrite or write of children keeps a view on.
LEMMA UserWriteGoes ==
  ASSUME NEW v \in Caches, v.on, NEW node \in Node, NEW f, \A c \in DOMAIN f : f[c] \in Values
  PROVE  Goes(v, UserOverwriteAll(v, node)) /\ Goes(v, UserWriteChildren(v, f))
<1>1. Goes(v, UserOverwriteAll(v, node))
  BY DEF Goes, UserOverwriteAll, Caches
<1>2. Goes(v, UserWriteChildren(v, f))
  <2>. PICK e : e = Onto(f, v.event)
    OBVIOUS
  <2>1. e \in Node
    BY OntoIs DEF Caches, Node
  <2>2. UserWriteChildren(v, f) = [v EXCEPT !.event = e]
    BY DEF UserWriteChildren
  <2>. QED
    BY <2>1, <2>2 DEF Goes, Caches
<1>. QED
  BY <1>1, <1>2

\* What an operation on the views keeps.
Kept(t, r) ==
  /\ Good(r)
  /\ \A p \in Paths : /\ r.view[p].on <=> t.view[p].on
                      /\ t.view[p].serverFull => r.view[p].serverFull

SameWrites(t, r) == r.all = t.all /\ r.visible = t.visible /\ r.last = t.last

\* What the fields of a tree hold.
LEMMA TreeIs ==
  ASSUME NEW t \in Trees
  PROVE  /\ t.all \in Seq(Records) /\ t.visible \in Compounds /\ t.last \in -1 .. MaxWrites
         /\ t.view \in [Paths -> Caches] /\ t.told \in [Paths -> Node] /\ t.rows \in [Children -> Nat]
         /\ Root \in Paths
BY DEF Trees, Paths

\* A view raises a value event unless it shows what it did.
LEMMA Raised ==
  ASSUME NEW p \in Paths, NEW old \in Caches, NEW new \in Caches, new.eventFull,
         ~RaisesValue(p, old, new)
  PROVE  old.eventFull /\ new.event = old.event
<1>1. old.eventFull
  BY DEF RaisesValue
<1>2. CASE p # Root
  BY <1>1, <1>2 DEF RaisesValue
<1>3. CASE p = Root
  <2>1. Changes(p, old, new) = {}
    BY DEF RaisesValue
  <2>2. \A c \in Children : old.event[c] = new.event[c]
    BY <1>3, <2>1 DEF Changes
  <2>3. old.event \in Node /\ new.event \in Node
    BY DEF Caches
  <2>4. old.event = new.event
    BY <2>2, <2>3 DEF Node
  <2>. QED
    BY <1>1, <2>4
<1>. QED
  BY <1>2, <1>3

\* applying an operation to the views keeps them, and tells of what changes.
LEMMA ApplyToViewsIs ==
  ASSUME NEW t, Good(t), NEW after,
         \A p \in Paths : t.view[p].on => Goes(t.view[p], after[p]),
         NEW r, r = ApplyToViews(t, after)
  PROVE  /\ Kept(t, r) /\ SameWrites(t, r)
         /\ \A p \in Paths : t.view[p].on => r.view[p] = after[p]
<1>. DEFINE new == [p \in Paths |-> IF t.view[p].on THEN after[p] ELSE NoView]
            told2 == [p \in Paths |-> IF RaisesValue(p, t.view[p], new[p]) THEN new[p].event ELSE t.told[p]]
            added == Added(t.view[Root], new[Root])
            rows2 == [c \in Children |-> IF c \in added THEN t.rows[c] + 1 ELSE t.rows[c]]
<1>1. /\ t.all \in Seq(Records) /\ t.visible \in Compounds /\ t.last \in -1 .. MaxWrites
      /\ t.view \in [Paths -> Caches] /\ t.told \in [Paths -> Node] /\ t.rows \in [Children -> Nat]
      /\ Root \in Paths
  BY TreeIs DEF Good
<1>2. NoView \in Caches /\ ~NoView.on /\ ~NoView.eventFull /\ ~NoView.serverFull
  BY DEF NoView, Caches, Node, Values, Empty
<1>3. new \in [Paths -> Caches]
  BY <1>1, <1>2 DEF Goes
<1>4. \A p \in Paths : new[p] = IF t.view[p].on THEN after[p] ELSE NoView
  OBVIOUS
<1>5. \A p \in Paths :
        /\ new[p].on <=> t.view[p].on
        /\ ~t.view[p].on => new[p] = NoView /\ t.view[p] = NoView
        /\ t.view[p].serverFull => new[p].serverFull
  BY <1>2, <1>4 DEF Goes, Good, OffIsNothing
<1>6. r = [t EXCEPT !.view = new, !.told = told2, !.rows = rows2]
  BY DEF ApplyToViews
<1>. HIDE DEF new
<1>7. told2 \in [Paths -> Node]
  BY <1>1, <1>3 DEF Caches
<1>8. rows2 \in [Children -> Nat] /\ \A c \in Children : c \in added => rows2[c] >= 1
  BY <1>1
<1>9. \A c \in Children : rows2[c] >= t.rows[c]
  BY <1>1
<1>10. \A p \in Paths : new[p].eventFull => told2[p] = new[p].event
  <2>. SUFFICES ASSUME NEW p \in Paths, new[p].eventFull
                PROVE  told2[p] = new[p].event
    OBVIOUS
  <2>1. CASE RaisesValue(p, t.view[p], new[p])
    BY <2>1
  <2>2. CASE ~RaisesValue(p, t.view[p], new[p])
    <3>1. t.view[p].eventFull /\ new[p].event = t.view[p].event
      BY <1>1, <1>3, <2>2, Raised
    <3>2. t.told[p] = t.view[p].event
      BY <3>1 DEF Good, Told
    <3>. QED
      BY <2>2, <3>1, <3>2
  <2>. QED
    BY <2>1, <2>2
<1>11. \A c \in Children : new[Root].on /\ new[Root].event[c] # None => rows2[c] >= 1
  <2>. SUFFICES ASSUME NEW c \in Children, new[Root].on, new[Root].event[c] # None
                PROVE  rows2[c] >= 1
    OBVIOUS
  <2>1. CASE t.view[Root].event[c] = None
    <3>1. c \in added
      BY <2>1 DEF Added, Changes
    <3>. QED
      BY <1>8, <3>1
  <2>2. CASE t.view[Root].event[c] # None
    <3>1. t.rows[c] >= 1
      BY <1>1, <1>5, <2>2 DEF Good, Told
    <3>2. rows2[c] \in Nat /\ t.rows[c] \in Nat
      BY <1>1, <1>8
    <3>. HIDE DEF rows2
    <3>. QED
      BY <1>9, <3>1, <3>2
  <2>. QED
    BY <2>1, <2>2
<1>. HIDE DEF told2, rows2
<1>12. /\ r \in Trees /\ r.view = new /\ r.told = told2 /\ r.rows = rows2
       /\ r.all = t.all /\ r.visible = t.visible /\ r.last = t.last
  BY <1>1, <1>3, <1>6, <1>7, <1>8 DEF Good, Trees
<1>13. Good(r)
  BY <1>5, <1>10, <1>11, <1>12 DEF Good, Ordered, OffIsNothing, Told
<1>. QED
  BY <1>4, <1>5, <1>12, <1>13 DEF Kept, SameWrites

\* The views of a good tree.
LEMMA ViewIs ==
  ASSUME NEW t, Good(t), NEW p \in Paths
  PROVE  /\ t.view[p] \in Caches /\ t.visible \in Compounds
         /\ ~t.view[p].on => t.view[p] = NoView
BY TreeIs DEF Good, OffIsNothing

\* A node cut down to the children a view shows.
LEMMA OnlyIs ==
  ASSUME NEW p \in Paths, NEW node \in Node
  PROVE  /\ Only(p, node) \in Node
         /\ \A c \in Children : Only(p, node)[c] = IF c \in Below(p) THEN node[c] ELSE None
BY DEF Only, Node, Values

\* The changes of a merge are values of children.
LEMMA ChangedIs ==
  ASSUME NEW changed \in Changed(Nat)
  PROVE  DOMAIN changed \subseteq Children /\ \A c \in DOMAIN changed : changed[c] \in Values
BY DEF Changed, Values

\* A merge's changes put onto the empty node.
LEMMA OntoEmpty ==
  ASSUME NEW changed \in Changed(Nat)
  PROVE  /\ Onto(changed, Empty) \in Node
         /\ \A c \in Children :
              Onto(changed, Empty)[c] = IF c \in DOMAIN changed THEN changed[c] ELSE None
<1>1. Empty \in [Children -> Values] /\ \A c \in Children : Empty[c] = None
  BY DEF Empty, Values
<1>2. \A c \in DOMAIN changed : changed[c] \in Values
  BY ChangedIs
<1>3. /\ Onto(changed, Empty) \in [Children -> Values]
      /\ \A c \in Children :
           Onto(changed, Empty)[c] = IF c \in DOMAIN changed THEN changed[c] ELSE Empty[c]
  BY <1>1, <1>2, OntoIs
<1>. QED
  BY <1>1, <1>3 DEF Node

\* Data of the server.
LEMMA ApplyServerDataKeeps ==
  ASSUME NEW t, Good(t), NEW path \in Paths, NEW node \in Node,
         NEW r, r = ApplyServerData(t, path, node)
  PROVE  /\ Kept(t, r) /\ SameWrites(t, r)
         /\ RootWhole(t.visible) /\ ViewsShow(t) => ViewsShow(r)
<1>. DEFINE one(p) == IF path = Root \/ path = p
                      THEN ServerOverwriteAll(t.view[p], t.visible, p, Only(p, node))
                      ELSE IF p = Root THEN ServerOverwriteChild(t.view[p], t.visible, path, node[path])
                      ELSE t.view[p]
            after == [p \in Paths |-> one(p)]
<1>1. r = ApplyToViews(t, after)
  BY DEF ApplyServerData
<1>2. \A p \in Paths : t.view[p] \in Caches
  BY ViewIs
<1>3. path # Root => path \in Children /\ node[path] \in Values
  BY DEF Paths, Node
<1>4. t.visible \in Compounds /\ Root \in Paths
  BY TreeIs DEF Good
<1>5. \A p \in Paths : Only(p, node) \in Node /\ \A c \in Children \ Below(p) : Only(p, node)[c] = None
  BY OnlyIs
<1>6. ASSUME NEW p \in Paths, t.view[p].on
      PROVE  Goes(t.view[p], one(p))
  <2>1. CASE path = Root \/ path = p
    BY <1>2, <1>4, <1>5, <1>6, <2>1, ServerOverwriteAllGoes
  <2>2. CASE ~(path = Root \/ path = p) /\ p = Root
    BY <1>2, <1>3, <1>4, <1>6, <2>2, ServerChildGoes
  <2>3. CASE ~(path = Root \/ path = p) /\ p # Root
    BY <1>2, <1>6, <2>3 DEF Goes
  <2>. QED
    BY <2>1, <2>2, <2>3
<1>7. ASSUME NEW p \in Paths, t.view[p].on, RootWhole(t.visible), Shows(t.view[p], t.visible, p)
      PROVE  Shows(one(p), t.visible, p)
  <2>1. CASE path = Root \/ path = p
    BY <1>2, <1>4, <1>5, <1>7, <2>1, ServerOverwriteAllIs
  <2>2. CASE ~(path = Root \/ path = p) /\ p = Root
    BY <1>2, <1>3, <1>4, <1>7, <2>2, OverwriteChildShows
  <2>3. CASE ~(path = Root \/ path = p) /\ p # Root
    BY <1>7, <2>3
  <2>. QED
    BY <2>1, <2>2, <2>3
<1>8. \A p \in Paths : after[p] = one(p)
  OBVIOUS
<1>. HIDE DEF one
<1>9. \A p \in Paths : t.view[p].on => Goes(t.view[p], after[p])
  BY <1>6, <1>8
<1>. HIDE DEF after
<1>10. /\ Kept(t, r) /\ SameWrites(t, r)
       /\ \A p \in Paths : t.view[p].on => r.view[p] = after[p]
  BY <1>1, <1>9, ApplyToViewsIs
<1>11. ASSUME RootWhole(t.visible), ViewsShow(t), NEW p \in Paths
       PROVE  Shows(r.view[p], r.visible, p)
  <2>1. CASE t.view[p].on
    BY <1>7, <1>8, <1>10, <1>11, <2>1 DEF ViewsShow, SameWrites
  <2>2. CASE ~t.view[p].on
    BY <1>10, <1>11, <2>2 DEF Kept, Good, OffIsNothing, Shows
  <2>. QED
    BY <2>1, <2>2
<1>. QED
  BY <1>10, <1>11 DEF ViewsShow

\* Views that are exact one by one are exact together.
LEMMA ApplyShows ==
  ASSUME NEW t, NEW r, Kept(t, r), SameWrites(t, r),
         NEW after, \A p \in Paths : t.view[p].on => r.view[p] = after[p],
         \A p \in Paths : t.view[p].on => Shows(after[p], t.visible, p)
  PROVE  ViewsShow(r)
<1>. SUFFICES ASSUME NEW p \in Paths
              PROVE  Shows(r.view[p], r.visible, p)
  BY DEF ViewsShow
<1>1. CASE t.view[p].on
  BY <1>1 DEF SameWrites
<1>2. CASE ~t.view[p].on
  BY <1>2 DEF Kept, Good, OffIsNothing, Shows
<1>. QED
  BY <1>1, <1>2

\* A merge of the server.
LEMMA ApplyServerMergeKeeps ==
  ASSUME NEW t, Good(t), NEW changed \in Changed(Nat), NEW r, r = ApplyServerMerge(t, changed)
  PROVE  /\ Kept(t, r) /\ SameWrites(t, r)
         /\ RootWhole(t.visible) /\ ViewsShow(t) => ViewsShow(r)
<1>. DEFINE one(p) == IF p = Root THEN ServerMerge(t.view[p], t.visible, changed)
                      ELSE IF p \in DOMAIN changed
                      THEN ServerOverwriteAll(t.view[p], t.visible, p, Only(p, Onto(changed, Empty)))
                      ELSE t.view[p]
            after == [p \in Paths |-> one(p)]
<1>1. r = ApplyToViews(t, after)
  BY DEF ApplyServerMerge
<1>2. \A p \in Paths : t.view[p] \in Caches
  BY ViewIs
<1>3. t.visible \in Compounds /\ Root \in Paths
  BY TreeIs DEF Good
<1>4. \A p \in Paths : /\ Only(p, Onto(changed, Empty)) \in Node
                       /\ \A c \in Children \ Below(p) : Only(p, Onto(changed, Empty))[c] = None
  BY OntoEmpty, OnlyIs
<1>5. ASSUME NEW p \in Paths, t.view[p].on
      PROVE  Goes(t.view[p], one(p))
  <2>1. CASE p = Root
    BY <1>2, <1>3, <1>5, <2>1, ServerMergeGoes
  <2>2. CASE p # Root /\ p \in DOMAIN changed
    BY <1>2, <1>3, <1>4, <1>5, <2>2, ServerOverwriteAllGoes
  <2>3. CASE p # Root /\ p \notin DOMAIN changed
    BY <1>2, <1>5, <2>3 DEF Goes
  <2>. QED
    BY <2>1, <2>2, <2>3
<1>6. ASSUME NEW p \in Paths, t.view[p].on, RootWhole(t.visible), Shows(t.view[p], t.visible, p)
      PROVE  Shows(one(p), t.visible, p)
  <2>1. CASE p = Root
    BY <1>2, <1>3, <1>6, <2>1, MergeShows
  <2>2. CASE p # Root /\ p \in DOMAIN changed
    BY <1>2, <1>3, <1>4, <1>6, <2>2, ServerOverwriteAllIs
  <2>3. CASE p # Root /\ p \notin DOMAIN changed
    BY <1>6, <2>3
  <2>. QED
    BY <2>1, <2>2, <2>3
<1>7. \A p \in Paths : after[p] = one(p)
  OBVIOUS
<1>. HIDE DEF one
<1>8. \A p \in Paths : t.view[p].on => Goes(t.view[p], after[p])
  BY <1>5, <1>7
<1>. HIDE DEF after
<1>9. /\ Kept(t, r) /\ SameWrites(t, r)
      /\ \A p \in Paths : t.view[p].on => r.view[p] = after[p]
  BY <1>1, <1>8, ApplyToViewsIs
<1>10. ASSUME RootWhole(t.visible), ViewsShow(t)
       PROVE  ViewsShow(r)
  <2>1. \A p \in Paths : t.view[p].on => Shows(after[p], t.visible, p)
    BY <1>6, <1>7, <1>10 DEF ViewsShow
  <2>. QED
    BY <1>9, <2>1, ApplyShows
<1>. QED
  BY <1>9, <1>10

\* The answer to a listen: it makes the views of its location complete.
LEMMA ApplyListenCompleteKeeps ==
  ASSUME NEW t, Good(t), NEW path \in Paths, NEW r, r = ApplyListenComplete(t, path)
  PROVE  /\ Kept(t, r) /\ SameWrites(t, r)
         /\ RootWhole(t.visible) /\ ViewsShow(t) => ViewsShow(r)
         /\ \A p \in Paths : t.view[p].on /\ path \in {Root, p} => r.view[p].serverFull
<1>. DEFINE one(p) == IF path = Root \/ path = p THEN ListenComplete(t.view[p], t.visible, p, p)
                      ELSE IF p = Root THEN ListenComplete(t.view[p], t.visible, p, path)
                      ELSE t.view[p]
            after == [p \in Paths |-> one(p)]
<1>1. r = ApplyToViews(t, after)
  BY DEF ApplyListenComplete
<1>2. \A p \in Paths : t.view[p] \in Caches
  BY ViewIs
<1>3. t.visible \in Compounds /\ Root \in Paths
  BY TreeIs DEF Good
<1>4. path # Root => path \in Below(Root)
  BY DEF Paths, Below
<1>5. ASSUME NEW p \in Paths, t.view[p].on
      PROVE  Goes(t.view[p], one(p)) /\ (path \in {Root, p} => one(p).serverFull)
  <2>1. CASE path = Root \/ path = p
    BY <1>2, <1>3, <1>5, <2>1, ListenCompleteGoes
  <2>2. CASE ~(path = Root \/ path = p) /\ p = Root
    BY <1>2, <1>3, <1>4, <1>5, <2>2, ListenCompleteGoes
  <2>3. CASE ~(path = Root \/ path = p) /\ p # Root
    BY <1>2, <1>5, <2>3 DEF Goes
  <2>. QED
    BY <2>1, <2>2, <2>3
<1>6. ASSUME NEW p \in Paths, t.view[p].on, Shows(t.view[p], t.visible, p)
      PROVE  Shows(one(p), t.visible, p)
  <2>1. CASE path = Root \/ path = p
    BY <1>2, <1>3, <1>6, <2>1, ListenCompleteShows
  <2>2. CASE ~(path = Root \/ path = p) /\ p = Root
    BY <1>2, <1>3, <1>4, <1>6, <2>2, ListenCompleteShows
  <2>3. CASE ~(path = Root \/ path = p) /\ p # Root
    BY <1>6, <2>3
  <2>. QED
    BY <2>1, <2>2, <2>3
<1>7. \A p \in Paths : after[p] = one(p)
  OBVIOUS
<1>. HIDE DEF one
<1>8. \A p \in Paths : t.view[p].on => Goes(t.view[p], after[p])
  BY <1>5, <1>7
<1>. HIDE DEF after
<1>9. /\ Kept(t, r) /\ SameWrites(t, r)
      /\ \A p \in Paths : t.view[p].on => r.view[p] = after[p]
  BY <1>1, <1>8, ApplyToViewsIs
<1>10. ASSUME ViewsShow(t)
       PROVE  ViewsShow(r)
  <2>1. \A p \in Paths : t.view[p].on => Shows(after[p], t.visible, p)
    BY <1>6, <1>7, <1>10 DEF ViewsShow
  <2>. QED
    BY <1>9, <2>1, ApplyShows
<1>. QED
  BY <1>5, <1>7, <1>9, <1>10

\* The data of a write.
LEMMA RecordDataIs ==
  ASSUME NEW record \in Records
  PROVE  /\ record.data \in Changed(Nat)
         /\ \A c \in DOMAIN record.data : record.data[c] \in Values /\ record.data[c] # Unwritten
<1>1. \A c \in DOMAIN record.data : record.data[c] \in WriteIds \cup {None}
  BY RecordIs DEF Records
<1>2. WriteIds \subseteq Nat
  BY WritesAssumption DEF WriteIds
<1>3. \A c \in DOMAIN record.data : record.data[c] \in Values /\ record.data[c] # Unwritten
  BY <1>1, <1>2, WritesAssumption DEF Values
<1>4. record.data \in Changed(WriteIds)
  BY DEF Records, RecordsWith
<1>5. PICK cs \in SUBSET Children : record.data \in [cs -> WriteIds \cup {None}]
  BY <1>4 DEF Changed
<1>6. record.data \in [cs -> Nat \cup {None}]
  BY <1>2, <1>5
<1>. QED
  BY <1>3, <1>6 DEF Changed

\* What a write makes of a view, and of one that it says nothing of.
LEMMA UserOverwriteShows ==
  ASSUME NEW v \in Caches, v.on, NEW w \in Compounds, NEW record \in Records, NEW p \in Paths,
         Shows(v, w, p), p # Root => p \in DOMAIN record.data, p = Root => IsSet(record),
         NEW r, r = UserOverwriteAll(v, Only(p, Onto(record.data, Empty)))
  PROVE  r \in Caches /\ Shows(r, AddWrite(w, record), p)
<1>. PICK u : u = AddWrite(w, record)
  OBVIOUS
<1>. PICK e : e = Only(p, Onto(record.data, Empty))
  OBVIOUS
<1>1. /\ DOMAIN record.data \subseteq Children
      /\ \A c \in DOMAIN record.data : record.data[c] \in WriteIds \cup {None}
      /\ IsSet(record) => DOMAIN record.data = Children
  BY RecordIs DEF Records
<1>2. record.data \in Changed(Nat) /\
      \A c \in DOMAIN record.data : record.data[c] \in Values /\ record.data[c] # Unwritten
  BY RecordDataIs
<1>3. /\ u.root <=> w.root \/ IsSet(record)
      /\ \A c \in Children : u.node[c] = IF c \in DOMAIN record.data THEN record.data[c] ELSE w.node[c]
      /\ u \in Compounds
  BY AddWriteIs
<1>4. /\ Onto(record.data, Empty) \in Node
      /\ \A c \in Children : Onto(record.data, Empty)[c] = IF c \in DOMAIN record.data THEN record.data[c] ELSE None
  BY <1>2, OntoEmpty
<1>5. /\ e \in Node
      /\ \A c \in Children : e[c] = IF c \in Below(p) THEN Onto(record.data, Empty)[c] ELSE None
  BY <1>4, OnlyIs
<1>6. r = [v EXCEPT !.event = e, !.eventFull = TRUE]
  BY DEF UserOverwriteAll
<1>7. /\ r \in Caches /\ r.event = e /\ r.eventFull /\ r.server = v.server /\ r.serverFull = v.serverFull
  BY <1>5, <1>6 DEF Caches
<1>8. r.on
  BY <1>6 DEF Caches
<1>9. v.server \in Node /\ \A c \in Children \ Below(p) : v.server[c] = None
  BY DEF Caches, Shows
<1>10. Below(p) \subseteq DOMAIN record.data
  BY <1>1, BelowIs
<1>11. WithWrites(u, p, v.server) = e
  <2>1. /\ WithWrites(u, p, v.server) \in Node
        /\ \A c \in Children : WithWrites(u, p, v.server)[c] =
             IF c \in Below(p) /\ u.node[c] # Unwritten THEN u.node[c] ELSE v.server[c]
    BY <1>3, <1>9, WithWritesIs
  <2>2. \A c \in Children : WithWrites(u, p, v.server)[c] = e[c]
    BY <1>2, <1>3, <1>4, <1>5, <1>9, <1>10, <2>1
  <2>. QED
    BY <1>5, <2>1, <2>2 DEF Node
<1>. QED
  BY <1>7, <1>8, <1>9, <1>11 DEF Shows

\* A user's merge shows in the location's view at once, on top of the earlier writes
\* (applyUserMergeTo: in FViewProcessor).
LEMMA UserChildrenShows ==
  ASSUME NEW v \in Caches, v.on, NEW w \in Compounds, NEW record \in Records,
         Shows(v, w, Root), ~IsSet(record), NEW r, r = UserWriteChildren(v, record.data)
  PROVE  r \in Caches /\ Shows(r, AddWrite(w, record), Root)
<1>. PICK u : u = AddWrite(w, record)
  OBVIOUS
<1>. PICK e : e = Onto(record.data, v.event)
  OBVIOUS
<1>2. \A c \in DOMAIN record.data : record.data[c] \in Values /\ record.data[c] # Unwritten
  BY RecordDataIs
<1>3. /\ u.root <=> w.root \/ IsSet(record)
      /\ \A c \in Children : u.node[c] = IF c \in DOMAIN record.data THEN record.data[c] ELSE w.node[c]
      /\ u \in Compounds
  BY AddWriteIs
<1>4. e \in Node /\ \A c \in Children : e[c] = IF c \in DOMAIN record.data THEN record.data[c] ELSE v.event[c]
  <2>1. v.event \in [Children -> Values]
    BY DEF Caches, Node
  <2>. QED
    BY <1>2, <2>1, OntoIs DEF Node
<1>5. /\ v.serverFull \/ w.root => v.eventFull
      /\ \A c \in Children : v.event[c] = IF w.node[c] # Unwritten THEN w.node[c] ELSE v.server[c]
  BY RootShown
<1>6. r = [v EXCEPT !.event = e]
  BY DEF UserWriteChildren
<1>7. r \in Caches /\ r.event = e /\ r.eventFull = v.eventFull /\
      r.server = v.server /\ r.serverFull = v.serverFull
  BY <1>4, <1>6 DEF Caches
<1>8. r.on
  BY <1>6 DEF Caches
<1>9. \A c \in Children : r.event[c] = IF u.node[c] # Unwritten THEN u.node[c] ELSE r.server[c]
  BY <1>2, <1>3, <1>4, <1>5, <1>7
<1>10. r.serverFull \/ u.root => r.eventFull
  BY <1>3, <1>5, <1>7
<1>. QED
  BY <1>3, <1>7, <1>8, <1>9, <1>10, RootShows

\* A write of other children leaves the view of a child as it was.
LEMMA UnwrittenShows ==
  ASSUME NEW v \in Caches, v.on, NEW w \in Compounds, NEW record \in Records, NEW p \in Paths,
         Shows(v, w, p), p # Root, p \notin DOMAIN record.data
  PROVE  Shows(v, AddWrite(w, record), p)
<1>1. AddWrite(w, record) \in Compounds /\ \A c \in Below(p) : AddWrite(w, record).node[c] = w.node[c]
  BY AddWriteIs, BelowIs
<1>. QED
  BY <1>1, KeepsShowing

\* addOverwriteAtPath and addMergeAtPath: the record goes last.
WithRecord(t, record) ==
  [t EXCEPT !.all = Append(@, record), !.visible = AddWrite(@, record), !.last = record.id]

\* A write of the application, newer than the pending ones.
LEMMA UserWriteKeeps ==
  ASSUME NEW s, Good(s), NEW record \in Records, \A i \in DOMAIN s.all : s.all[i].id < record.id,
         NEW r, r = ApplyUserWrite(WithRecord(s, record), record)
  PROVE  /\ Kept(s, r) /\ r.all = Append(s.all, record) /\ r.last = record.id
         /\ TreeExact(s) => TreeExact(r)
<1>. PICK all : all = Append(s.all, record)
  OBVIOUS
<1>. PICK u : u = AddWrite(s.visible, record)
  OBVIOUS
<1>. PICK t : t = [s EXCEPT !.all = all, !.visible = u, !.last = record.id]
  OBVIOUS
<1>0. r = ApplyUserWrite(t, record)
  <2>1. WithRecord(s, record) = t
    BY DEF Good, Trees, WithRecord
  <2>. QED
    BY <2>1
<1>1. /\ s.all \in Seq(Records) /\ s.visible \in Compounds /\ s.last \in -1 .. MaxWrites
      /\ s.view \in [Paths -> Caches] /\ s.told \in [Paths -> Node] /\ s.rows \in [Children -> Nat]
      /\ Root \in Paths
  BY TreeIs DEF Good
<1>2. u \in Compounds
  BY <1>1, AddWriteIs
<1>3. /\ all \in Seq(Records) /\ DOMAIN s.all = 1 .. Len(s.all) /\ Len(s.all) \in Nat
      /\ DOMAIN all = 1 .. (Len(s.all) + 1)
      /\ \A k \in DOMAIN s.all : all[k] = s.all[k]
      /\ all[Len(s.all) + 1] = record
  BY <1>1, AppendAt
<1>4. record.id \in WriteIds /\ record.id \in 1 .. MaxWrites /\ record.id \in -1 .. MaxWrites
  <2>1. record.id \in WriteIds
    BY RecordIs DEF Records
  <2>. QED
    BY <2>1, WritesAssumption DEF WriteIds
<1>5. /\ t \in Trees /\ t.all = all /\ t.visible = u /\ t.last = record.id
      /\ t.view = s.view /\ t.told = s.told /\ t.rows = s.rows
  BY <1>1, <1>2, <1>3, <1>4 DEF Good, Trees
<1>6. Rising(all)
  <2>. SUFFICES ASSUME NEW i \in DOMAIN all, NEW j \in DOMAIN all, i < j
                PROVE  all[i].id < all[j].id
    BY DEF Rising
  <2>1. i \in DOMAIN s.all /\ (j \in DOMAIN s.all \/ j = Len(s.all) + 1)
    BY <1>3
  <2>. QED
    BY <1>3, <2>1 DEF Good, Ordered, Rising
<1>7. \A i \in DOMAIN all : all[i].id <= record.id
  <2>. SUFFICES ASSUME NEW i \in DOMAIN all
                PROVE  all[i].id <= record.id
    OBVIOUS
  <2>1. CASE i \in DOMAIN s.all
    <3>1. s.all[i] \in Records
      BY <1>1, <1>3, <2>1, ElementOfSeq
    <3>2. s.all[i].id \in 1 .. MaxWrites
      BY <3>1, RecordIs DEF Records, WriteIds
    <3>. QED
      BY <1>3, <1>4, <2>1, <3>2
  <2>2. CASE i = Len(s.all) + 1
    BY <1>3, <1>4, <2>2
  <2>. QED
    BY <1>3, <2>1, <2>2
<1>8. Good(t)
  BY <1>5, <1>6, <1>7 DEF Good, Ordered, OffIsNothing, Told
<1>. DEFINE one(p) ==
       IF p # Root /\ p \notin DOMAIN record.data THEN t.view[p]
       ELSE IF p = Root /\ (record.path # Root \/ record.merge) THEN UserWriteChildren(t.view[p], record.data)
       ELSE UserOverwriteAll(t.view[p], Only(p, Onto(record.data, Empty)))
     after == [p \in Paths |-> one(p)]
<1>9. r = ApplyToViews(t, after)
  BY <1>0 DEF ApplyUserWrite
<1>10. \A p \in Paths : t.view[p] \in Caches
  BY <1>1, <1>5
<1>11. ASSUME NEW p \in Paths, t.view[p].on
       PROVE  Goes(t.view[p], one(p))
  <2>1. \A c \in DOMAIN record.data : record.data[c] \in Values
    BY RecordDataIs
  <2>2. Only(p, Onto(record.data, Empty)) \in Node
    BY RecordDataIs, OntoEmpty, OnlyIs
  <2>3. Goes(t.view[p], t.view[p])
    BY <1>10, <1>11 DEF Goes
  <2>4. Goes(t.view[p], UserWriteChildren(t.view[p], record.data))
    BY <1>10, <1>11, <2>1, <2>2, UserWriteGoes
  <2>5. Goes(t.view[p], UserOverwriteAll(t.view[p], Only(p, Onto(record.data, Empty))))
    BY <1>10, <1>11, <2>1, <2>2, UserWriteGoes
  <2>. QED
    BY <2>3, <2>4, <2>5
<1>12. ASSUME NEW p \in Paths, t.view[p].on, Shows(s.view[p], s.visible, p)
       PROVE  Shows(one(p), u, p)
  <2>0. t.view[p] \in Caches /\ t.view[p].on /\ Shows(t.view[p], s.visible, p)
    BY <1>5, <1>10, <1>12
  <2>1. CASE p # Root /\ p \notin DOMAIN record.data
    BY <1>1, <2>0, <2>1, UnwrittenShows
  <2>2. CASE p = Root /\ (record.path # Root \/ record.merge)
    <3>1. ~IsSet(record)
      BY <2>2 DEF IsSet
    <3>2. one(p) = UserWriteChildren(t.view[p], record.data)
      BY <2>2
    <3>. HIDE DEF one
    <3>. QED
      BY <1>1, <2>0, <2>2, <3>1, <3>2, UserChildrenShows
  <2>3. CASE ~(p # Root /\ p \notin DOMAIN record.data) /\ ~(p = Root /\ (record.path # Root \/ record.merge))
    <3>1. (p # Root => p \in DOMAIN record.data) /\ (p = Root => IsSet(record))
      BY <2>3 DEF IsSet
    <3>2. one(p) = UserOverwriteAll(t.view[p], Only(p, Onto(record.data, Empty)))
      BY <2>3
    <3>. HIDE DEF one
    <3>. QED
      BY <1>1, <2>0, <3>1, <3>2, UserOverwriteShows
  <2>. QED
    BY <2>1, <2>2, <2>3
<1>13. \A p \in Paths : after[p] = one(p)
  OBVIOUS
<1>. HIDE DEF one
<1>14. \A p \in Paths : t.view[p].on => Goes(t.view[p], after[p])
  BY <1>11, <1>13
<1>. HIDE DEF after
<1>15. /\ Kept(t, r) /\ SameWrites(t, r)
       /\ \A p \in Paths : t.view[p].on => r.view[p] = after[p]
  BY ONLY <1>8, <1>9, <1>14, ApplyToViewsIs
<1>16. Kept(s, r) /\ r.all = all /\ r.last = record.id
  BY <1>5, <1>15 DEF Kept, SameWrites
<1>17. ASSUME TreeExact(s)
       PROVE  TreeExact(r)
  <2>1. \A p \in Paths : t.view[p].on => Shows(after[p], t.visible, p)
    BY <1>5, <1>12, <1>13, <1>17 DEF TreeExact, ViewsShow
  <2>2. ViewsShow(r)
    BY <1>15, <2>1, ApplyShows
  <2>3. Layered(u, all)
    BY <1>1, <1>17, AppendLayered DEF TreeExact
  <2>. QED
    BY <1>5, <1>15, <2>2, <2>3 DEF TreeExact, SameWrites
<1>. QED
  BY <1>16, <1>17

\* The views after a write was answered, w being the writes before it went.
LEMMA ApplyAckKeeps ==
  ASSUME NEW t, Good(t), NEW record \in Records, NEW revert \in BOOLEAN,
         NEW r, r = ApplyAck(t, record, revert)
  PROVE  /\ Kept(t, r) /\ SameWrites(t, r)
         /\ \A w \in Compounds :
              /\ RootWhole(w) /\ RootWhole(t.visible)
              /\ \A p \in Paths : t.view[p].on =>
                   /\ t.view[p].serverFull /\ Shows(t.view[p], w, p)
                   /\ Shrinks(w, t.visible, DOMAIN record.data)
              => ViewsShow(r)
<1>. DEFINE path(p) == IF p = Root \/ record.path = Root THEN p ELSE record.path
            one(p) ==
              IF p # Root /\ record.path \notin {Root, p} THEN t.view[p]
              ELSE IF revert
              THEN IF p = Root /\ record.path # Root THEN RevertChild(t.view[p], t.visible, record.path)
                   ELSE RevertAll(t.view[p], t.visible, p)
              ELSE IF record.merge
              THEN IF p = Root THEN AckMerge(t.view[p], t.visible, p, DOMAIN record.data)
                   ELSE IF p \in DOMAIN record.data THEN AckOverwrite(t.view[p], t.visible, p, p)
                   ELSE t.view[p]
              ELSE AckOverwrite(t.view[p], t.visible, p, IF p = Root THEN record.path ELSE p)
            after == [p \in Paths |-> one(p)]
<1>1. r = ApplyToViews(t, after)
  BY DEF ApplyAck
<1>2. \A p \in Paths : t.view[p] \in Caches
  BY ViewIs
<1>3. t.visible \in Compounds /\ Root \in Paths
  BY TreeIs DEF Good
<1>4. /\ record.path \in Paths /\ DOMAIN record.data \subseteq Children
      /\ record.merge => record.path = Root
      /\ record.path # Root => DOMAIN record.data = {record.path} /\ record.path \in Children
  BY RecordIs DEF Records
<1>5. ASSUME NEW p \in Paths, t.view[p].on
      PROVE  Goes(t.view[p], one(p))
  <2>1. Goes(t.view[p], t.view[p])
    BY <1>2, <1>5 DEF Goes
  <2>2. Goes(t.view[p], RevertAll(t.view[p], t.visible, p))
    BY <1>2, <1>3, <1>5, RevertAllGoes
  <2>3. record.path # Root => Goes(t.view[p], RevertChild(t.view[p], t.visible, record.path))
    BY <1>2, <1>3, <1>4, <1>5, RevertChildGoes
  <2>4. Goes(t.view[p], AckMerge(t.view[p], t.visible, p, DOMAIN record.data))
    BY <1>2, <1>3, <1>4, <1>5, AckMergeGoes
  <2>5. Goes(t.view[p], AckOverwrite(t.view[p], t.visible, p, p))
    BY <1>2, <1>3, <1>5, AckOverwriteGoes
  <2>6. p = Root => Goes(t.view[p], AckOverwrite(t.view[p], t.visible, p, record.path))
    BY <1>2, <1>3, <1>4, <1>5, AckOverwriteGoes
  <2>. QED
    BY <2>1, <2>2, <2>3, <2>4, <2>5, <2>6
<1>6. ASSUME NEW p \in Paths, t.view[p].on, NEW w \in Compounds, RootWhole(w), RootWhole(t.visible),
             t.view[p].serverFull, Shows(t.view[p], w, p), Shrinks(w, t.visible, DOMAIN record.data)
      PROVE  Shows(one(p), t.visible, p)
  <2>1. CASE p # Root /\ record.path \notin {Root, p}
    <3>1. \A c \in Below(p) : t.visible.node[c] = w.node[c]
      BY <1>4, <1>6, <2>1, BelowIs DEF Shrinks
    <3>. QED
      BY <1>2, <1>3, <1>6, <2>1, <3>1, KeepsShowing
  <2>2. CASE ~(p # Root /\ record.path \notin {Root, p}) /\ revert
    <3>1. CASE p = Root /\ record.path # Root
      <4>1. Shrinks(w, t.visible, {record.path})
        BY <1>4, <1>6, <3>1
      <4>2. one(p) = RevertChild(t.view[Root], t.visible, record.path)
        BY <2>2, <3>1
      <4>. HIDE DEF one
      <4>. QED
        BY <1>2, <1>3, <1>4, <1>6, <3>1, <4>1, <4>2, RevertChildShows
    <3>2. CASE ~(p = Root /\ record.path # Root)
      <4>1. one(p) = RevertAll(t.view[p], t.visible, p)
        BY <2>2, <3>2
      <4>. HIDE DEF one
      <4>. QED
        BY <1>2, <1>3, <1>6, <4>1, RevertAllShows
    <3>. QED
      BY <3>1, <3>2
  <2>3. CASE ~(p # Root /\ record.path \notin {Root, p}) /\ ~revert /\ record.merge
    <3>1. CASE p = Root
      <4>1. one(p) = AckMerge(t.view[Root], t.visible, Root, DOMAIN record.data)
        BY <2>3, <3>1
      <4>. HIDE DEF one
      <4>. QED
        BY <1>2, <1>3, <1>4, <1>6, <3>1, <4>1, AckMergeShows
    <3>2. CASE p # Root /\ p \in DOMAIN record.data
      <4>1. one(p) = AckOverwrite(t.view[p], t.visible, p, p)
        BY <2>3, <3>2
      <4>. HIDE DEF one
      <4>. QED
        BY <1>2, <1>3, <1>6, <4>1, AckOverwriteShows
    <3>3. CASE p # Root /\ p \notin DOMAIN record.data
      <4>1. \A c \in Below(p) : t.visible.node[c] = w.node[c]
        BY <1>6, <3>3, BelowIs DEF Shrinks
      <4>2. Shows(t.view[p], t.visible, p)
        BY <1>2, <1>3, <1>6, <3>3, <4>1, KeepsShowing
      <4>. QED
        BY <2>3, <3>3, <4>2
    <3>. QED
      BY <3>1, <3>2, <3>3
  <2>4. CASE ~(p # Root /\ record.path \notin {Root, p}) /\ ~revert /\ ~record.merge
    <3>. PICK q : q = IF p = Root THEN record.path ELSE p
      OBVIOUS
    <3>1. q \in Paths /\ (q = p \/ (p = Root /\ DOMAIN record.data \subseteq {q}))
      BY <1>3, <1>4
    <3>2. one(p) = AckOverwrite(t.view[p], t.visible, p, q)
      BY <2>4
    <3>. HIDE DEF one
    <3>. QED
      BY <1>2, <1>3, <1>6, <3>1, <3>2, AckOverwriteShows
  <2>. QED
    BY <2>1, <2>2, <2>3, <2>4
<1>7. \A p \in Paths : after[p] = one(p)
  OBVIOUS
<1>. HIDE DEF one
<1>8. \A p \in Paths : t.view[p].on => Goes(t.view[p], after[p])
  BY <1>5, <1>7
<1>. HIDE DEF after
<1>9. /\ Kept(t, r) /\ SameWrites(t, r)
      /\ \A p \in Paths : t.view[p].on => r.view[p] = after[p]
  BY ONLY Good(t), <1>1, <1>8, ApplyToViewsIs
<1>10. ASSUME NEW w \in Compounds, RootWhole(w), RootWhole(t.visible),
              \A p \in Paths : t.view[p].on =>
                   /\ t.view[p].serverFull /\ Shows(t.view[p], w, p)
                   /\ Shrinks(w, t.visible, DOMAIN record.data)
       PROVE  ViewsShow(r)
  <2>1. \A p \in Paths : t.view[p].on => Shows(after[p], t.visible, p)
    BY <1>6, <1>7, <1>10
  <2>. QED
    BY <1>9, <2>1, ApplyShows
<1>. QED
  BY <1>9, <1>10

\* What an operation leaves of the views, view by view.
LEMMA ViewsBecome ==
  ASSUME NEW t \in Trees, NEW after, NEW r, r = ApplyToViews(t, after), NEW p \in Paths, t.view[p].on
  PROVE  r.view[p] = after[p]
<1>. DEFINE new == [q \in Paths |-> IF t.view[q].on THEN after[q] ELSE NoView]
<1>1. r.view = new
  BY DEF ApplyToViews, Trees
<1>. QED
  BY <1>1

\* These operations leave what a view has from the server.
LEMMA ServersKept ==
  ASSUME NEW v \in Caches, NEW w, NEW p
  PROVE  /\ EventAfterAll(v, w, p).server = v.server
         /\ \A c : EventAfterChild(v, w, c).server = v.server
         /\ \A node : UserOverwriteAll(v, node).server = v.server
         /\ \A changed : UserWriteChildren(v, changed).server = v.server
         /\ \A c : RevertChild(v, w, c).server = v.server
         /\ RevertAll(v, w, p).server = v.server
<1>1. ASSUME NEW u \in [server : Node, serverFull : BOOLEAN, event : Node, eventFull : BOOLEAN, on : BOOLEAN]
      PROVE  /\ \A e, f : [u EXCEPT !.event = e, !.eventFull = f].server = u.server
             /\ \A c, e : [u EXCEPT !.event[c] = e].server = u.server
             /\ \A c, e, f : [u EXCEPT !.event[c] = e, !.eventFull = f].server = u.server
             /\ \A e : [u EXCEPT !.event = e].server = u.server
  OBVIOUS
<1>2. v \in [server : Node, serverFull : BOOLEAN, event : Node, eventFull : BOOLEAN, on : BOOLEAN]
  BY DEF Caches
<1>. QED
  BY <1>1, <1>2 DEF EventAfterAll, EventAfterChild, UserOverwriteAll, UserWriteChildren, RevertChild, RevertAll

\* Neither does the answer to a listen.
LEMMA ListenServer ==
  ASSUME NEW v \in Caches, NEW w, NEW p, NEW path
  PROVE  ListenComplete(v, w, p, path).server = v.server
<1>. PICK u : u = [v EXCEPT !.serverFull = TRUE]
  OBVIOUS
<1>1. u \in Caches /\ u.server = v.server
  BY DEF Caches
<1>2. EventAfterAll(u, w, p).server = u.server
  BY <1>1 DEF EventAfterAll, Caches
<1>3. \A c : EventAfterChild(v, w, c).server = v.server
  BY ServersKept
<1>. QED
  BY <1>1, <1>2, <1>3 DEF ListenComplete

\* applyServerOverwrite takes the node that the server sent.
LEMMA OverwriteServer ==
  ASSUME NEW v \in Caches, NEW w, NEW p, NEW node
  PROVE  ServerOverwriteAll(v, w, p, node).server = node
<1>. PICK u : u = [v EXCEPT !.server = node, !.serverFull = TRUE]
  OBVIOUS
<1>1. u.server = node /\ \A e, f : [u EXCEPT !.event = e, !.eventFull = f].server = u.server
  BY DEF Caches
<1>2. EventAfterAll(u, w, p).server = node
  BY <1>1 DEF EventAfterAll
<1>. QED
  BY <1>2 DEF ServerOverwriteAll

\* What is known of the server, applied again, is what it was.
LEMMA AckServersKept ==
  ASSUME NEW v \in Caches, NEW w \in Compounds, NEW p \in Paths
  PROVE  /\ \A path \in Paths : path = p \/ p = Root => AckOverwrite(v, w, p, path).server = v.server
         /\ \A cs \in SUBSET Children : AckMerge(v, w, p, cs).server = v.server
<1>1. ASSUME NEW cs, cs \subseteq Children
      PROVE  ServerMerge(v, w, [c \in cs |-> v.server[c]]).server = v.server
  <2>. PICK changed : changed = [c \in cs |-> v.server[c]]
    OBVIOUS
  <2>. PICK r : r = ServerMerge(v, w, changed)
    OBVIOUS
  <2>1. changed \in Changed(Nat)
    BY <1>1, PartOf
  <2>2. r \in Caches /\ (r = v \/ \A b \in Children :
          r.server[b] = IF b \in DOMAIN changed THEN changed[b] ELSE v.server[b])
    BY <2>1, ServerMergeIs
  <2>3. r.server \in Node /\ v.server \in Node
    BY <2>2 DEF Caches
  <2>4. r = v \/ \A b \in Children : r.server[b] = v.server[b]
    BY <2>2
  <2>. QED
    BY <2>3, <2>4 DEF Node
<1>2. ASSUME NEW c \in Children
      PROVE  ServerOverwriteChild(v, w, c, v.server[c]).server = v.server
  <2>. PICK value : value = v.server[c]
    OBVIOUS
  <2>. PICK r : r = ServerOverwriteChild(v, w, c, value)
    OBVIOUS
  <2>1. value \in Values
    BY DEF Caches, Node
  <2>2. r \in Caches /\ \A b \in Children : r.server[b] = IF b = c THEN value ELSE v.server[b]
    BY <2>1, ServerOverwriteChildIs
  <2>3. r.server \in Node /\ v.server \in Node
    BY <2>2 DEF Caches
  <2>. QED
    BY <2>2, <2>3 DEF Node
<1>3. ASSUME NEW path \in Paths, path = p \/ p = Root
      PROVE  AckOverwrite(v, w, p, path).server = v.server
  <2>1. ServerOverwriteAll(v, w, p, v.server).server = v.server
    <3>. PICK node : node = v.server
      OBVIOUS
    <3>1. ServerOverwriteAll(v, w, p, node).server = node
      BY ONLY v \in Caches, OverwriteServer
    <3>. QED
      BY <3>1
  <2>2. {b \in Below(p) : v.server[b] # None} \subseteq Children
    BY BelowIs
  <2>3. path # p => path \in Children
    BY <1>3 DEF Paths
  <2>. QED
    BY <1>1, <1>2, <2>1, <2>2, <2>3 DEF AckOverwrite
<1>4. ASSUME NEW cs \in SUBSET Children
      PROVE  AckMerge(v, w, p, cs).server = v.server
  <2>1. {b \in cs : CompleteFor(v.server, v.serverFull, b)} \subseteq Children
    OBVIOUS
  <2>. QED
    BY <1>1, <2>1 DEF AckMerge
<1>. QED
  BY <1>3, <1>4

ServersStay(t, r) == \A p \in Paths : t.view[p].on => r.view[p].server = t.view[p].server

\* The answer to a write changes nothing that the views have from the server.
LEMMA ApplyAckServers ==
  ASSUME NEW t, Good(t), NEW record \in Records, NEW revert \in BOOLEAN,
         NEW r, r = ApplyAck(t, record, revert)
  PROVE  ServersStay(t, r)
<1>. DEFINE one(p) ==
              IF p # Root /\ record.path \notin {Root, p} THEN t.view[p]
              ELSE IF revert
              THEN IF p = Root /\ record.path # Root THEN RevertChild(t.view[p], t.visible, record.path)
                   ELSE RevertAll(t.view[p], t.visible, p)
              ELSE IF record.merge
              THEN IF p = Root THEN AckMerge(t.view[p], t.visible, p, DOMAIN record.data)
                   ELSE IF p \in DOMAIN record.data THEN AckOverwrite(t.view[p], t.visible, p, p)
                   ELSE t.view[p]
              ELSE AckOverwrite(t.view[p], t.visible, p, IF p = Root THEN record.path ELSE p)
            after == [p \in Paths |-> one(p)]
<1>1. r = ApplyToViews(t, after)
  BY DEF ApplyAck
<1>2. /\ \A p \in Paths : t.view[p] \in Caches
      /\ t.visible \in Compounds /\ Root \in Paths /\ t \in Trees
  BY ViewIs, TreeIs DEF Good
<1>3. record.path \in Paths /\ DOMAIN record.data \in SUBSET Children
  BY RecordIs DEF Records
<1>4. ASSUME NEW p \in Paths
      PROVE  one(p).server = t.view[p].server
  <2>1. /\ \A c : RevertChild(t.view[p], t.visible, c).server = t.view[p].server
        /\ RevertAll(t.view[p], t.visible, p).server = t.view[p].server
    BY <1>2, ServersKept
  <2>2. /\ \A path \in Paths : path = p \/ p = Root =>
             AckOverwrite(t.view[p], t.visible, p, path).server = t.view[p].server
        /\ \A cs \in SUBSET Children : AckMerge(t.view[p], t.visible, p, cs).server = t.view[p].server
    BY <1>2, AckServersKept
  <2>. QED
    BY <1>3, <2>1, <2>2
<1>5. \A p \in Paths : after[p] = one(p)
  OBVIOUS
<1>. HIDE DEF one
<1>6. \A p \in Paths : after[p].server = t.view[p].server
  BY <1>4, <1>5
<1>. HIDE DEF after
<1>. QED
  BY <1>1, <1>2, <1>6, ViewsBecome DEF ServersStay

\* The answer to write i: it goes, and the views are applied what they have.
AckReady(t, i) ==
  \/ i = 1 /\ \A p \in Paths : t.view[p].on => t.view[p].serverFull
  \/ Whole /\ \A p \in Paths : ~t.view[p].on

\* One answer to the write with record i keeps the tree good and removes that record;
\* if the answer is ready, what was exact stays exact (ackUserWriteWithWriteId: in
\* FSyncTree).
LEMMA AckWriteKeeps ==
  ASSUME NEW t, Good(t), NEW ack \in Acks, NEW i \in DOMAIN t.all, t.all[i].id = ack.id,
         NEW r, r = AckWrite(t, ack)
  PROVE  /\ Kept(t, r) /\ r.all = RemoveAt(t.all, i) /\ r.last <= t.last /\ ServersStay(t, r)
         /\ TreeExact(t) /\ AckReady(t, i) => TreeExact(r)
<1>1. /\ t.all \in Seq(Records) /\ t.visible \in Compounds /\ t.last \in -1 .. MaxWrites
      /\ t.view \in [Paths -> Caches] /\ t.told \in [Paths -> Node] /\ t.rows \in [Children -> Nat]
      /\ Root \in Paths
  BY TreeIs DEF Good
<1>2. Rising(t.all) /\ \A k \in DOMAIN t.all : t.all[k].id <= t.last
  BY DEF Good, Ordered
<1>3. /\ DOMAIN t.all = 1 .. Len(t.all) /\ Len(t.all) \in Nat
      /\ \A k \in DOMAIN t.all : t.all[k] \in Records /\ t.all[k].id \in Int
  <2>1. DOMAIN t.all = 1 .. Len(t.all) /\ Len(t.all) \in Nat
    BY <1>1, LenProperties
  <2>2. \A k \in DOMAIN t.all : t.all[k] \in Records
    BY <1>1, <2>1, ElementOfSeq
  <2>3. \A k \in DOMAIN t.all : t.all[k].id \in WriteIds
    BY <2>2, RecordIs DEF Records
  <2>4. WriteIds \subseteq Int
    BY WritesAssumption DEF WriteIds
  <2>. QED
    BY <2>1, <2>2, <2>3, <2>4
<1>4. (CHOOSE j \in DOMAIN t.all : t.all[j].id = ack.id) = i
  <2>1. ASSUME NEW j \in DOMAIN t.all, t.all[j].id = ack.id
        PROVE  j = i
    <3>1. ~(j < i) /\ ~(i < j)
      BY <1>2, <1>3, <2>1 DEF Rising
    <3>. QED
      BY <1>3, <3>1
  <2>. QED
    BY <2>1
<1>. PICK x : x = WithoutWrite([all |-> t.all, visible |-> t.visible, last |-> t.last], i)
  OBVIOUS
<1>. PICK removed : removed = t.all[i]
  OBVIOUS
<1>. PICK s : s = [t EXCEPT !.all = x.all, !.visible = x.visible, !.last = x.last]
  OBVIOUS
<1>5. /\ x.all = RemoveAt(t.all, i) /\ x.all \in Seq(Records) /\ Rising(x.all)
      /\ x.visible \in Compounds
      /\ Shadowed(t.all[i], After(t.all, i)) => x.visible = t.visible
      /\ x.last \in -1 .. t.last /\ \A k \in DOMAIN x.all : x.all[k].id <= x.last
  BY <1>1, <1>2, WithoutWriteGoes
<1>6. r = IF Shadowed(removed, After(t.all, i)) THEN s ELSE ApplyAck(s, removed, ~ack.ok)
  <2>. DEFINE rest == WithoutWrite([all |-> t.all, visible |-> t.visible, last |-> t.last], i)
  <2>1. r = IF Shadowed(removed, SubSeq(rest.all, i, Len(rest.all)))
            THEN [t EXCEPT !.all = rest.all, !.visible = rest.visible, !.last = rest.last]
            ELSE ApplyAck([t EXCEPT !.all = rest.all, !.visible = rest.visible, !.last = rest.last],
                          removed, ~ack.ok)
    BY <1>4 DEF AckWrite
  <2>2. rest = x
    OBVIOUS
  <2>3. SubSeq(x.all, i, Len(x.all)) = After(t.all, i)
    BY <1>5 DEF After
  <2>. HIDE DEF rest
  <2>. QED
    BY <2>1, <2>2, <2>3
<1>7. x.last \in -1 .. MaxWrites /\ x.last <= t.last
  BY <1>1, <1>5, WritesAssumption
<1>8. /\ s \in Trees /\ s.all = x.all /\ s.visible = x.visible /\ s.last = x.last
      /\ s.view = t.view /\ s.told = t.told /\ s.rows = t.rows
  BY <1>1, <1>5, <1>7 DEF Good, Trees
<1>9. Good(s)
  BY <1>5, <1>8 DEF Good, Ordered, OffIsNothing, Told
<1>10. Kept(t, s)
  BY <1>8, <1>9 DEF Kept
<1>11. removed \in Records /\ (~ack.ok) \in BOOLEAN
  BY <1>3
<1>12. /\ Kept(t, r) /\ SameWrites(s, r) /\ ServersStay(t, r)
  <2>1. CASE Shadowed(removed, After(t.all, i))
    BY <1>6, <1>8, <1>10, <2>1 DEF SameWrites, ServersStay
  <2>2. CASE ~Shadowed(removed, After(t.all, i))
    <3>1. r = ApplyAck(s, removed, ~ack.ok)
      BY <1>6, <2>2
    <3>2. Kept(s, r) /\ SameWrites(s, r) /\ ServersStay(s, r)
      BY ONLY <1>9, <1>11, <3>1, ApplyAckKeeps, ApplyAckServers
    <3>. QED
      BY <1>8, <1>10, <3>2 DEF Kept, ServersStay
  <2>. QED
    BY <2>1, <2>2
<1>13. r.all = RemoveAt(t.all, i) /\ r.last <= t.last
  BY <1>5, <1>7, <1>8, <1>12 DEF SameWrites
<1>14. ASSUME TreeExact(t), AckReady(t, i)
       PROVE  TreeExact(r)
  <2>1. Layered(t.visible, t.all) /\ \A p \in Paths : Shows(t.view[p], t.visible, p)
    BY <1>14 DEF TreeExact, ViewsShow
  <2>2. i = 1 \/ Whole
    BY <1>14 DEF AckReady
  <2>3. Layered(x.visible, x.all)
    BY <1>1, <1>2, <2>1, <2>2, WithoutWriteIs
  <2>4. Layered(r.visible, r.all)
    BY <1>8, <1>12, <2>3 DEF SameWrites
  <2>5. CASE Shadowed(removed, After(t.all, i))
    <3>1. \A p \in Paths : Shows(r.view[p], r.visible, p)
      BY <1>5, <1>6, <1>8, <2>1, <2>5
    <3>. QED
      BY <2>4, <3>1 DEF TreeExact, ViewsShow
  <2>6. CASE ~Shadowed(removed, After(t.all, i))
    <3>1. r = ApplyAck(s, removed, ~ack.ok)
      BY <1>6, <2>6
    <3>2. RootWhole(t.visible) /\ RootWhole(s.visible)
      BY <1>1, <1>5, <1>8, <2>1, <2>3, LayeredWhole
    <3>3. ASSUME NEW p \in Paths, t.view[p].on
          PROVE  t.view[p].serverFull /\ Shrinks(t.visible, s.visible, DOMAIN removed.data)
      <4>1. i = 1 /\ t.view[p].serverFull
        BY <1>14, <3>3 DEF AckReady
      <4>2. Layered(x.visible, RemoveAt(t.all, 1))
        BY <1>5, <2>3, <4>1
      <4>3. 1 \in DOMAIN t.all
        BY <1>3, <4>1
      <4>4. Shrinks(t.visible, x.visible, DOMAIN t.all[1].data)
        BY <1>1, <2>1, <4>2, <4>3, HeadGone
      <4>. QED
        BY <1>8, <4>1, <4>4
    <3>4. \A p \in Paths : s.view[p].on =>
            /\ s.view[p].serverFull /\ Shows(s.view[p], t.visible, p)
            /\ Shrinks(t.visible, s.visible, DOMAIN removed.data)
      BY <1>8, <2>1, <3>3
    <3>5. ViewsShow(r)
      BY ONLY <1>1, <1>9, <1>11, <3>1, <3>2, <3>4, ApplyAckKeeps
    <3>. QED
      BY <2>4, <3>5 DEF TreeExact
  <2>. QED
    BY <2>5, <2>6
<1>. QED
  BY <1>12, <1>13, <1>14

\* What ackPuts has after each acknowledgement.
LEMMA AckSteps ==
  ASSUME NEW t, NEW acks, Len(acks) \in Nat
  PROVE  \E f : /\ AckAll(t, acks) = f[Len(acks)]
                /\ f[0] = t
                /\ \A i \in 1 .. Len(acks) : f[i] = AckWrite(f[i - 1], acks[i])
<1>. DEFINE n == Len(acks)
            G(f, i) == IF i = 0 THEN t ELSE AckWrite(f[i - 1], acks[i])
            C(f, m) == f = [i \in 0 .. m |-> G(f, i)]
            T == {m \in 0 .. n : ~\E f : C(f, m)}
<1>1. T = {}
  <2>. SUFFICES ASSUME T # {}
                PROVE  FALSE
    OBVIOUS
  <2>1. PICK m \in T : \A k \in T : m <= k
    <3>1. T \subseteq Nat
      OBVIOUS
    <3>. HIDE DEF T
    <3>. QED
      BY <3>1, Least
  <2>2. m \in 0 .. n /\ ~\E f : C(f, m)
    OBVIOUS
  <2>3. CASE m = 0
    <3>. DEFINE e == [i \in 0 .. 0 |-> t]
    <3>1. \A i \in 0 .. 0 : G(e, i) = t
      OBVIOUS
    <3>2. C(e, 0)
      BY <3>1
    <3>. QED
      BY <2>2, <2>3, <3>2
  <2>4. CASE m # 0
    <3>1. m - 1 \in 0 .. n /\ m - 1 \notin T
      BY <2>1, <2>2, <2>4
    <3>2. PICK f : C(f, m - 1)
      BY <3>1
    <3>. DEFINE g == [i \in 0 .. m |-> G(f, i)]
    <3>3. ASSUME NEW i \in 0 .. m
          PROVE  G(g, i) = G(f, i)
      <4>1. CASE i = 0
        BY <4>1
      <4>2. CASE i # 0
        <5>1. i - 1 \in 0 .. m - 1 /\ i - 1 \in 0 .. m
          BY <2>2, <4>2
        <5>2. g[i - 1] = G(f, i - 1)
          BY <5>1
        <5>3. f[i - 1] = G(f, i - 1)
          <6>. HIDE DEF G
          <6>. QED
            BY <3>2, <5>1
        <5>4. g[i - 1] = f[i - 1]
          BY <5>2, <5>3
        <5>. HIDE DEF g
        <5>. QED
          BY <5>4
      <4>. QED
        BY <4>1, <4>2
    <3>4. C(g, m)
      <4>. HIDE DEF G
      <4>. QED
        BY <3>3
    <3>. QED
      BY <2>2, <3>4
  <2>. QED
    BY <2>3, <2>4
<1>2. PICK f : C(f, n) /\ AckAll(t, acks) = f[n]
  <2>1. \E f : C(f, n)
    BY <1>1
  <2>2. C(CHOOSE f : C(f, n), n)
    BY <2>1
  <2>3. AckAll(t, acks) = (CHOOSE f : C(f, n))[n]
    BY DEF AckAll
  <2>. QED
    BY <2>2, <2>3
<1>3. \A i \in 0 .. n : f[i] = G(f, i)
  <2>. HIDE DEF G
  <2>. QED
    BY <1>2
<1>. QED
  BY <1>2, <1>3

\* ackPuts: the writes whose acknowledgements were held go, oldest first.
Rest(t, k, x) ==
  /\ Kept(t, x) /\ x.last <= t.last /\ ServersStay(t, x)
  /\ Len(x.all) = Len(t.all) - k
  /\ \A j \in 1 .. (Len(t.all) - k) : x.all[j] = t.all[k + j]
  /\ TreeExact(t) /\ (\A p \in Paths : t.view[p].on => t.view[p].serverFull) => TreeExact(x)

\* The held answers, applied in order when the last listen is answered, each find
\* their record at the head of allWrites (ackPuts in FPersistentConnection).
LEMMA AckAllKeeps ==
  ASSUME NEW t, Good(t), NEW acks \in Seq(Acks), Len(acks) <= Len(t.all),
         \A k \in DOMAIN acks : t.all[k].id = acks[k].id
  PROVE  Rest(t, Len(acks), AckAll(t, acks))
<1>. DEFINE n == Len(acks)
<1>1. /\ n \in Nat /\ DOMAIN acks = 1 .. n /\ Len(t.all) \in Nat /\ DOMAIN t.all = 1 .. Len(t.all)
      /\ \A k \in 1 .. n : acks[k] \in Acks
  <2>1. t.all \in Seq(Records)
    BY TreeIs DEF Good
  <2>. QED
    BY <2>1, LenProperties, ElementOfSeq
<1>2. PICK f : /\ AckAll(t, acks) = f[n]
               /\ f[0] = t
               /\ \A i \in 1 .. n : f[i] = AckWrite(f[i - 1], acks[i])
  <2>1. Len(acks) \in Nat
    BY <1>1
  <2>2. \E f : /\ AckAll(t, acks) = f[Len(acks)]
               /\ f[0] = t
               /\ \A i \in 1 .. Len(acks) : f[i] = AckWrite(f[i - 1], acks[i])
    BY ONLY <2>1, AckSteps
  <2>. QED
    BY <2>2
<1>. DEFINE T == {m \in 0 .. n : ~Rest(t, m, f[m])}
<1>3. T = {}
  <2>. SUFFICES ASSUME T # {}
                PROVE  FALSE
    OBVIOUS
  <2>1. PICK m \in T : \A k \in T : m <= k
    <3>1. T \subseteq Nat
      BY <1>1
    <3>. HIDE DEF T
    <3>. QED
      BY <3>1, Least
  <2>2. m \in 0 .. n /\ ~Rest(t, m, f[m])
    OBVIOUS
  <2>3. CASE m = 0
    <3>1. Kept(t, t) /\ t.last <= t.last /\ ServersStay(t, t)
      BY TreeIs DEF Kept, Good, ServersStay
    <3>2. Rest(t, 0, t)
      BY <1>1, <3>1 DEF Rest
    <3>. QED
      BY <1>2, <2>2, <2>3, <3>2
  <2>4. CASE m # 0
    <3>1. m \in 1 .. n /\ m - 1 \in 0 .. n /\ m - 1 \notin T
      BY <1>1, <2>1, <2>4
    <3>. PICK x : x = f[m - 1]
      OBVIOUS
    <3>. PICK r : r = f[m]
      OBVIOUS
    <3>2. Rest(t, m - 1, x)
      BY <3>1
    <3>3. r = AckWrite(x, acks[m])
      BY <1>2, <3>1
    <3>4. Good(x) /\ x.all \in Seq(Records) /\ x.last \in -1 .. MaxWrites /\ t.last \in -1 .. MaxWrites
      BY <3>2, TreeIs DEF Rest, Kept, Good
    <3>5. /\ DOMAIN x.all = 1 .. (Len(t.all) - (m - 1)) /\ 1 \in DOMAIN x.all
          /\ Len(x.all) = Len(t.all) - (m - 1)
          /\ \A j \in 1 .. (Len(t.all) - (m - 1)) : x.all[j] = t.all[(m - 1) + j]
      <4>1. /\ Len(x.all) = Len(t.all) - (m - 1)
            /\ \A j \in 1 .. (Len(t.all) - (m - 1)) : x.all[j] = t.all[(m - 1) + j]
        BY <3>2 DEF Rest
      <4>2. DOMAIN x.all = 1 .. Len(x.all)
        BY <3>4, LenProperties
      <4>3. 1 \in 1 .. (Len(t.all) - (m - 1))
        BY <1>1, <3>1
      <4>. QED
        BY <4>1, <4>2, <4>3
    <3>6. x.all[1].id = acks[m].id
      <4>1. x.all[1] = t.all[m]
        BY <1>1, <3>1, <3>5
      <4>. QED
        BY <1>1, <3>1, <4>1
    <3>7. acks[m] \in Acks
      BY <1>1, <3>1
    <3>8. /\ Kept(x, r) /\ r.all = RemoveAt(x.all, 1) /\ r.last <= x.last /\ ServersStay(x, r)
          /\ TreeExact(x) /\ AckReady(x, 1) => TreeExact(r)
      BY ONLY <3>3, <3>4, <3>5, <3>6, <3>7, AckWriteKeeps
    <3>9. /\ Len(r.all) = Len(x.all) - 1
          /\ \A j \in 1 .. (Len(x.all) - 1) : r.all[j] = IF j < 1 THEN x.all[j] ELSE x.all[j + 1]
      <4>1. x.all \in Seq(Records) /\ 1 \in DOMAIN x.all
        BY <3>4, <3>5
      <4>2. /\ Len(RemoveAt(x.all, 1)) = Len(x.all) - 1
            /\ \A j \in 1 .. (Len(x.all) - 1) :
                 RemoveAt(x.all, 1)[j] = IF j < 1 THEN x.all[j] ELSE x.all[j + 1]
        BY ONLY <4>1, RemoveAtIs
      <4>. QED
        BY <3>8, <4>2
    <3>10. Len(r.all) = Len(t.all) - m
      BY <1>1, <3>1, <3>5, <3>9
    <3>11. ASSUME NEW j \in 1 .. (Len(t.all) - m)
           PROVE  r.all[j] = t.all[m + j]
      <4>1. j \in 1 .. (Len(x.all) - 1) /\ ~(j < 1) /\ j + 1 \in 1 .. (Len(t.all) - (m - 1))
            /\ (m - 1) + (j + 1) = m + j
        BY <1>1, <3>1, <3>5
      <4>. QED
        BY <3>5, <3>9, <4>1
    <3>12. Kept(t, r) /\ ServersStay(t, r)
      BY <3>2, <3>8 DEF Rest, Kept, ServersStay
    <3>13. r.last <= t.last
      <4>1. r.last \in -1 .. MaxWrites
        BY <3>12, TreeIs DEF Kept, Good
      <4>2. x.last <= t.last
        BY <3>2 DEF Rest
      <4>3. \A y \in -1 .. MaxWrites : y \in Int
        BY WritesAssumption
      <4>. QED
        BY <3>4, <3>8, <4>1, <4>2, <4>3
    <3>14. TreeExact(t) /\ (\A p \in Paths : t.view[p].on => t.view[p].serverFull) => TreeExact(r)
      BY <3>2, <3>8 DEF Rest, Kept, AckReady
    <3>15. Rest(t, m, r)
      BY <3>10, <3>11, <3>12, <3>13, <3>14 DEF Rest
    <3>. QED
      BY <2>2, <3>15
  <2>. QED
    BY <2>3, <2>4
<1>. QED
  BY <1>1, <1>2, <1>3

\* The empty queue has no message and no listen.
LEMMA NoneSent ==
  ASSUME NEW S
  PROVE  /\ <<>> \in Seq(S) /\ Len(<<>>) = 0 /\ DOMAIN <<>> = {}
         /\ ListensIn(<<>>) = {} /\ Cardinality(ListensIn(<<>>)) = 0
         /\ \A m : ~Has(<<>>, m) /\ \A n : ~Before(<<>>, m, n)
BY FS_EmptySet DEF ListensIn, Has, Before

\* At first there is nothing.
LEMMA InitEstablishes == Init => Inv /\ TreeExact(Tree)
<1>. SUFFICES ASSUME Init
              PROVE  Inv /\ TreeExact(Tree)
  OBVIOUS
<1>. USE DEF Init, WriteInit
<1>1. NoView \in Caches /\ ~NoView.on /\ ~NoView.eventFull /\ ~NoView.serverFull /\ Empty \in Node
  BY DEF NoView, Caches, Node, Values, Empty
<1>2. Root \in Paths
  BY DEF Paths
<1>3. emptyWrite \in Compounds /\ Layered(emptyWrite, <<>>)
  BY EmptyLayered DEF Layered
<1>4. Tree \in Trees
  <2>1. -1 \in -1 .. MaxWrites
    BY WritesAssumption
  <2>2. view \in [Paths -> Caches] /\ told \in [Paths -> Node] /\ rows \in [Children -> Nat]
    BY <1>1
  <2>3. <<>> \in Seq(Records)
    BY NoneSent
  <2>. QED
    BY <1>3, <2>1, <2>2, <2>3 DEF Tree, Trees
<1>5. Types
  <2>1. <<>> \in Seq(Records) /\ <<>> \in Seq(Acks) /\ <<>> \in Seq(Requests) /\ <<>> \in Seq(Messages)
    BY NoneSent
  <2>. QED
    BY <1>1, <1>4, <2>1, WritesAssumption DEF Types
<1>6. \A p \in Paths : view[p] = NoView /\ listens[p] = 0 /\ specs = 0
  OBVIOUS
<1>7. Good(Tree) /\ TreeExact(Tree)
  <2>1. Ordered(Tree)
    BY DEF Ordered, Rising, Tree
  <2>2. OffIsNothing(Tree)
    BY <1>6 DEF OffIsNothing, Tree
  <2>3. Told(Tree)
    BY <1>1, <1>2, <1>6 DEF Told, Tree
  <2>4. TreeExact(Tree)
    BY <1>1, <1>3, <1>6 DEF TreeExact, ViewsShow, Shows, Tree
  <2>. QED
    BY <1>4, <2>1, <2>2, <2>3, <2>4 DEF Good
<1>8. ListenInv
  BY <1>1, <1>2, <1>5, <1>6, <1>7 DEF ListenInv, ListensCover, On
<1>9. NetInv
  <2>1. Lost /\ Counted /\ InFlight
    <3>1. Lost /\ Counted
      BY NoneSent DEF Lost, Counted
    <3>2. Flight(<<>>, <<>>, <<>>, TRUE)
      BY NoneSent DEF Flight
    <3>. QED
      BY <3>1, <3>2 DEF InFlight
  <2>2. Sourced
    BY <1>1, <1>6 DEF Sourced, On
  <2>3. Queued /\ HeldAlone /\ NeverLost
    BY NoneSent DEF Queued, HeldAlone, NeverLost
  <2>. QED
    BY <2>1, <2>2, <2>3 DEF NetInv
<1>. QED
  BY <1>7, <1>8, <1>9 DEF Inv

\* A step that makes the tree's variables those of t makes the tree t.
LEMMA BecomesIs ==
  ASSUME NEW t \in Trees, Becomes(t)
  PROVE  Tree' = t
BY DEF Becomes, Tree, Trees

\* The tree is made of its variables.
LEMMA TreeFields ==
  /\ Tree.all = allWrites /\ Tree.visible = visibleWrites /\ Tree.last = lastWriteId
  /\ Tree.view = view /\ Tree.told = told /\ Tree.rows = rows
BY DEF Tree

\* A step that leaves the tree's variables leaves the tree.
LEMMA TreeStays ==
  ASSUME UNCHANGED tree
  PROVE  Tree' = Tree
BY DEF tree, Tree

-----------------------------------------------------------------------------
\* The requests that listen and stop listening.
LEMMA StartIs ==
  ASSUME NEW ps, ps \subseteq Paths, view \in [Paths -> Caches], specs \in Nat
  PROVE  /\ Start(ps) \in Seq(Requests) /\ \A m : Has(Start(ps), m) => m.kind = "listen"
         /\ Cardinality(ListensIn(Start(ps))) = Cardinality(ps)
         /\ Cardinality(ps) \in Nat
         /\ \A q \in ps : \E m \in Requests : Has(Start(ps), m) /\ IsListen(m, q, specs + 1)
<1>1. IsFiniteSet(ps)
  BY ChildrenAssumption, FS_AddElement, FS_Subset DEF Paths
<1>2. /\ Cardinality(ps) \in Nat
      /\ SetToSeq(ps) \in [1 .. Cardinality(ps) -> ps]
      /\ \A x \in ps : \E i \in 1 .. Cardinality(ps) : SetToSeq(ps)[i] = x
  BY <1>1, Listing
<1>. PICK n : n = Cardinality(ps)
  OBVIOUS
<1>. PICK s : s = SetToSeq(ps)
  OBVIOUS
<1>. PICK r : r = Start(ps)
  OBVIOUS
<1>3. r = [i \in 1 .. n |-> ListenRequest(s[i], specs + 1, view[s[i]].server)]
  BY DEF Start
<1>4. \A i \in 1 .. n : r[i] =
      [kind |-> "listen", path |-> s[i], spec |-> specs + 1, node |-> view[s[i]].server]
  BY <1>3 DEF ListenRequest
<1>5. ASSUME NEW i \in 1 .. n
      PROVE  r[i] \in Requests
  <2>1. s[i] \in Paths /\ view[s[i]].server \in Node
    <3>1. s[i] \in ps
      BY <1>2
    <3>2. view[s[i]] \in Caches
      BY <3>1
    <3>. QED
      BY <3>1, <3>2 DEF Caches
  <2>2. [kind |-> "listen", path |-> s[i], spec |-> specs + 1, node |-> view[s[i]].server]
          \in [kind : {"listen"}, path : Paths, spec : Nat, node : Node]
    BY <2>1
  <2>. QED
    BY <1>4, <2>2 DEF Requests
<1>6. DOMAIN r = 1 .. n /\ n \in Nat
  BY <1>2, <1>3
<1>7. r \in Seq(Requests)
  <2>1. r \in [1 .. n -> Requests]
    BY <1>3, <1>5
  <2>. QED
    BY <1>6, <2>1, SeqDef
<1>8. ListensIn(r) = 1 .. n /\ \A m : Has(r, m) => m.kind = "listen"
  BY <1>4, <1>6 DEF ListensIn, Has
<1>9. Cardinality(1 .. n) = n
  BY <1>6, FS_Interval
<1>10. ASSUME NEW q \in ps
       PROVE  \E m \in Requests : Has(r, m) /\ IsListen(m, q, specs + 1)
  <2>1. PICK i \in 1 .. n : s[i] = q
    BY <1>2
  <2>. PICK m : m = r[i]
    OBVIOUS
  <2>2. m = [kind |-> "listen", path |-> q, spec |-> specs + 1, node |-> view[q].server]
    BY <1>4, <2>1
  <2>3. IsListen(m, q, specs + 1)
    BY ONLY <2>2 DEF IsListen
  <2>4. m \in Requests /\ Has(r, m)
    BY <1>5, <1>6 DEF Has
  <2>. QED
    BY <2>3, <2>4
<1>. QED
  BY <1>2, <1>7, <1>8, <1>9, <1>10

\* What is sent to stop listening holds no listen.
LEMMA StopIs ==
  ASSUME NEW ps, ps \subseteq Paths
  PROVE  /\ Stop(ps) \in Seq(Requests) /\ ListensIn(Stop(ps)) = {}
         /\ \A m : Has(Stop(ps), m) => m.kind = "unlisten"
<1>1. IsFiniteSet(ps)
  BY ChildrenAssumption, FS_AddElement, FS_Subset DEF Paths
<1>2. Cardinality(ps) \in Nat /\ SetToSeq(ps) \in [1 .. Cardinality(ps) -> ps]
  BY <1>1, Listing
<1>. PICK n : n = Cardinality(ps)
  OBVIOUS
<1>. PICK s : s = SetToSeq(ps)
  OBVIOUS
<1>. PICK r : r = Stop(ps)
  OBVIOUS
<1>3. r = [i \in 1 .. n |-> [kind |-> "unlisten", path |-> s[i]]]
  BY DEF Stop, Unlisten
<1>4. \A i \in 1 .. n : r[i] \in Requests /\ r[i].kind = "unlisten"
  BY <1>2, <1>3 DEF Requests
<1>5. DOMAIN r = 1 .. n /\ n \in Nat
  BY <1>2, <1>3
<1>6. r \in Seq(Requests)
  <2>1. r \in [1 .. n -> Requests]
    BY <1>3, <1>4
  <2>. QED
    BY <1>5, <2>1, SeqDef
<1>7. ListensIn(r) = {} /\ \A m : Has(r, m) => m.kind = "unlisten"
  BY <1>4, <1>5 DEF ListensIn, Has
<1>. QED
  BY <1>6, <1>7

\* A message of two queues in one is a message of either.
LEMMA HasConcat ==
  ASSUME NEW S, NEW s \in Seq(S), NEW t \in Seq(S), NEW m
  PROVE  Has(s \o t, m) <=> Has(s, m) \/ Has(t, m)
<1>. PICK u : u = s \o t
  OBVIOUS
<1>1. /\ Len(s) \in Nat /\ Len(t) \in Nat /\ DOMAIN s = 1 .. Len(s) /\ DOMAIN t = 1 .. Len(t)
      /\ DOMAIN u = 1 .. (Len(s) + Len(t))
      /\ \A k \in DOMAIN s : u[k] = s[k]
      /\ \A k \in DOMAIN t : u[Len(s) + k] = t[k]
  BY ConcatAt
<1>2. ASSUME Has(u, m)
      PROVE  Has(s, m) \/ Has(t, m)
  <2>1. PICK i \in DOMAIN u : u[i] = m
    BY <1>2 DEF Has
  <2>2. CASE i <= Len(s)
    BY <1>1, <2>1, <2>2 DEF Has
  <2>3. CASE i > Len(s)
    <3>1. i - Len(s) \in DOMAIN t /\ Len(s) + (i - Len(s)) = i
      BY <1>1, <2>1, <2>3
    <3>2. t[i - Len(s)] = m
      BY <1>1, <2>1, <3>1
    <3>. QED
      BY <3>1, <3>2 DEF Has
  <2>. QED
    BY <1>1, <2>1, <2>2, <2>3
<1>3. ASSUME Has(s, m)
      PROVE  Has(u, m)
  BY <1>1, <1>3 DEF Has
<1>4. ASSUME Has(t, m)
      PROVE  Has(u, m)
  <2>1. PICK i \in DOMAIN t : t[i] = m
    BY <1>4 DEF Has
  <2>2. Len(s) + i \in DOMAIN u /\ u[Len(s) + i] = m
    BY <1>1, <2>1
  <2>. QED
    BY <2>2 DEF Has
<1>. QED
  BY <1>2, <1>3, <1>4

\* The order of two messages in two queues put in one.
LEMMA BeforeConcat ==
  ASSUME NEW S, NEW s \in Seq(S), NEW t \in Seq(S), NEW m, NEW n, Before(s \o t, m, n)
  PROVE  Before(s, m, n) \/ Before(t, m, n) \/ (Has(s, m) /\ Has(t, n))
<1>. PICK u : u = s \o t
  OBVIOUS
<1>1. /\ Len(s) \in Nat /\ Len(t) \in Nat /\ DOMAIN s = 1 .. Len(s) /\ DOMAIN t = 1 .. Len(t)
      /\ DOMAIN u = 1 .. (Len(s) + Len(t))
      /\ \A k \in DOMAIN s : u[k] = s[k]
      /\ \A k \in DOMAIN t : u[Len(s) + k] = t[k]
  BY ConcatAt
<1>2. PICK i \in DOMAIN u, j \in DOMAIN u : i < j /\ u[i] = m /\ u[j] = n
  BY DEF Before
<1>3. \A k \in DOMAIN u : k > Len(s) => k - Len(s) \in DOMAIN t /\ t[k - Len(s)] = u[k]
  <2>1. \A k \in DOMAIN u : k > Len(s) => k - Len(s) \in DOMAIN t /\ Len(s) + (k - Len(s)) = k
    BY <1>1
  <2>. QED
    BY <1>1, <2>1
<1>4. CASE j <= Len(s)
  BY <1>1, <1>2, <1>4 DEF Before
<1>5. CASE i <= Len(s) /\ j > Len(s)
  <2>1. Has(s, m)
    BY <1>1, <1>2, <1>5 DEF Has
  <2>2. Has(t, n)
    BY <1>2, <1>3, <1>5 DEF Has
  <2>. QED
    BY <2>1, <2>2
<1>6. CASE i > Len(s)
  <2>1. j > Len(s) /\ i - Len(s) < j - Len(s)
    BY <1>1, <1>2, <1>6
  <2>. QED
    BY <1>2, <1>3, <1>6, <2>1 DEF Before
<1>. QED
  BY <1>1, <1>2, <1>4, <1>5, <1>6

\* The messages and their order after the head is taken.
LEMMA HasTail ==
  ASSUME NEW S, NEW s \in Seq(S), s # <<>>, NEW m
  PROVE  /\ Has(s, m) <=> m = s[1] \/ Has(Tail(s), m)
         /\ Has(Tail(s), m) => Before(s, s[1], m)
         /\ \A n : Before(Tail(s), m, n) => Before(s, m, n)
<1>. PICK t : t = Tail(s)
  OBVIOUS
<1>1. /\ Len(s) \in Nat \ {0} /\ DOMAIN s = 1 .. Len(s) /\ DOMAIN t = 1 .. (Len(s) - 1)
      /\ \A k \in DOMAIN t : k + 1 \in DOMAIN s /\ t[k] = s[k + 1]
  BY TailAt
<1>2. \A k \in DOMAIN s : k # 1 => k - 1 \in DOMAIN t /\ t[k - 1] = s[k]
  <2>1. \A k \in DOMAIN s : k # 1 => k - 1 \in DOMAIN t /\ (k - 1) + 1 = k
    BY <1>1
  <2>. QED
    BY <1>1, <2>1
<1>3. Has(s, m) => m = s[1] \/ Has(t, m)
  BY <1>2 DEF Has
<1>4. s[1] = m => Has(s, m)
  BY <1>1 DEF Has
<1>5. ASSUME Has(t, m)
      PROVE  Has(s, m) /\ Before(s, s[1], m)
  <2>1. PICK i \in DOMAIN t : t[i] = m
    BY <1>5 DEF Has
  <2>2. 1 \in DOMAIN s /\ i + 1 \in DOMAIN s /\ 1 < i + 1 /\ s[i + 1] = m
    BY <1>1, <2>1
  <2>. QED
    BY <2>2 DEF Has, Before
<1>6. ASSUME NEW n, Before(t, m, n)
      PROVE  Before(s, m, n)
  <2>1. PICK i \in DOMAIN t, j \in DOMAIN t : i < j /\ t[i] = m /\ t[j] = n
    BY <1>6 DEF Before
  <2>2. i + 1 \in DOMAIN s /\ j + 1 \in DOMAIN s /\ i + 1 < j + 1 /\ s[i + 1] = m /\ s[j + 1] = n
    BY <1>1, <2>1
  <2>. QED
    BY <2>2 DEF Before
<1>. QED
  BY <1>3, <1>4, <1>5, <1>6

\* A queue of one message.
LEMMA HasOne ==
  ASSUME NEW m, NEW n
  PROVE  /\ Has(<<m>>, n) <=> n = m
         /\ \A x : ~Before(<<m>>, n, x)
<1>1. DOMAIN <<m>> = {1} /\ <<m>>[1] = m
  OBVIOUS
<1>. QED
  BY <1>1 DEF Has, Before

\* The messages and their order when one is sent.
LEMMA HasAppend ==
  ASSUME NEW S, NEW s \in Seq(S), NEW e \in S, NEW m
  PROVE  /\ Has(Append(s, e), m) <=> Has(s, m) \/ m = e
         /\ \A n : Before(Append(s, e), m, n) => Before(s, m, n) \/ (Has(s, m) /\ n = e)
<1>1. Append(s, e) = s \o <<e>> /\ <<e>> \in Seq(S)
  BY AppendIsConcat
<1>2. Has(s \o <<e>>, m) <=> Has(s, m) \/ m = e
  BY <1>1, HasConcat, HasOne
<1>3. ASSUME NEW n, Before(s \o <<e>>, m, n)
      PROVE  Before(s, m, n) \/ (Has(s, m) /\ n = e)
  <2>1. Before(s, m, n) \/ Before(<<e>>, m, n) \/ (Has(s, m) /\ Has(<<e>>, n))
    BY <1>1, <1>3, BeforeConcat
  <2>. QED
    BY <2>1, HasOne
<1>. QED
  BY <1>1, <1>2, <1>3

\* A queue without listens counts none.
LEMMA HasListens ==
  ASSUME NEW s
  PROVE  ListensIn(s) = {} <=> \A m : Has(s, m) => m.kind # "listen"
BY DEF ListensIn, Has

\* A listen stays asked for while its request or answer is on its way.
LEMMA AskedGrows ==
  ASSUME NEW s \in Seq(Requests), NEW r \in Seq(Requests), NEW c \in Seq(Messages), NEW m \in Seq(Messages),
         NEW q, NEW spec, Asked(s, c, q, spec)
  PROVE  Asked(s \o r, c \o m, q, spec)
<1>1. \A x : Has(s, x) => Has(s \o r, x)
  BY HasConcat
<1>2. \A x : Has(c, x) => Has(c \o m, x)
  BY HasConcat
<1>. QED
  BY <1>1, <1>2 DEF Asked

\* A listen just sent asks for its path.
LEMMA AskedNow ==
  ASSUME NEW s \in Seq(Requests), NEW r \in Seq(Requests), NEW c, NEW q, NEW spec,
         NEW m \in Requests, Has(r, m), IsListen(m, q, spec)
  PROVE  Asked(s \o r, c, q, spec)
<1>1. Has(s \o r, m)
  BY HasConcat
<1>. QED
  BY <1>1 DEF Asked

\* A listen the server takes is still asked for: its answer is on its way.
LEMMA AskedServed ==
  ASSUME NEW s \in Seq(Requests), s # <<>>, NEW c, NEW d, \A x : Has(c, x) => Has(d, x),
         s[1].kind = "listen" => \E x \in Messages : Has(d, x) /\ IsListen(x, s[1].path, s[1].spec),
         NEW q, NEW spec, Asked(s, c, q, spec)
  PROVE  Asked(Tail(s), d, q, spec)
<1>1. CASE \E x \in Messages : Has(c, x) /\ IsListen(x, q, spec)
  BY <1>1 DEF Asked
<1>2. CASE \E x \in Requests : Has(s, x) /\ IsListen(x, q, spec)
  <2>1. PICK x \in Requests : Has(s, x) /\ IsListen(x, q, spec)
    BY <1>2
  <2>2. x = s[1] \/ Has(Tail(s), x)
    BY <2>1, HasTail
  <2>3. CASE x = s[1]
    <3>1. s[1].kind = "listen" /\ s[1].path = q /\ s[1].spec = spec
      BY <2>1, <2>3 DEF IsListen
    <3>. QED
      BY <3>1 DEF Asked
  <2>4. CASE Has(Tail(s), x)
    BY <2>1, <2>4 DEF Asked
  <2>. QED
    BY <2>2, <2>3, <2>4
<1>. QED
  BY <1>1, <1>2 DEF Asked

\* What the client takes, if it is not the answer to a listen, leaves that listen
\* asked for.
LEMMA AskedTaken ==
  ASSUME NEW s, NEW c \in Seq(Messages), c # <<>>, NEW q, NEW spec, Asked(s, c, q, spec),
         ~IsListen(c[1], q, spec)
  PROVE  Asked(s, Tail(c), q, spec)
<1>1. \A x : Has(c, x) => x = c[1] \/ Has(Tail(c), x)
  BY HasTail
<1>. QED
  BY <1>1 DEF Asked

\* When no listen is on its way, none is asked for.
LEMMA NotAsked ==
  ASSUME NEW s, NEW c, ListensIn(s) = {}, ListensIn(c) = {}, NEW q, NEW spec
  PROVE  ~Asked(s, c, q, spec)
BY HasListens DEF Asked, IsListen

-----------------------------------------------------------------------------
\* The puts stay in order as they are sent, served and acknowledged.
LEMMA FlightListens ==
  ASSUME NEW s \in Seq(Requests), NEW c, NEW ps, NEW on, Flight(s, c, ps, on),
         NEW r \in Seq(Requests), \A m : Has(r, m) => ~IsPut(m)
  PROVE  Flight(s \o r, c, ps, on)
<1>1. \A m : Has(s \o r, m) <=> Has(s, m) \/ Has(r, m)
  BY HasConcat
<1>2. ASSUME NEW m, NEW n, Before(s \o r, m, n), IsPut(m), IsPut(n)
      PROVE  Before(s, m, n)
  <2>1. Before(s, m, n) \/ Before(r, m, n) \/ (Has(s, m) /\ Has(r, n))
    BY <1>2, BeforeConcat
  <2>2. Before(r, m, n) => Has(r, n)
    BY DEF Before, Has
  <2>. QED
    BY <1>2, <2>1, <2>2
<1>. QED
  BY <1>1, <1>2 DEF Flight

\* Notices of the server leave the pending writes and their answers in order.
LEMMA FlightNotices ==
  ASSUME NEW s, NEW c \in Seq(Messages), NEW ps, NEW on, Flight(s, c, ps, on),
         NEW x \in Seq(Messages), \A m : Has(x, m) => ~IsAck(m)
  PROVE  Flight(s, c \o x, ps, on)
<1>1. \A m : Has(c \o x, m) <=> Has(c, m) \/ Has(x, m)
  BY HasConcat
<1>2. ASSUME NEW m, NEW n, Before(c \o x, m, n), IsAck(m), IsAck(n)
      PROVE  Before(c, m, n)
  <2>1. Before(c, m, n) \/ Before(x, m, n) \/ (Has(c, m) /\ Has(x, n))
    BY <1>2, BeforeConcat
  <2>2. Before(x, m, n) => Has(x, n)
    BY DEF Before, Has
  <2>. QED
    BY <1>2, <2>1, <2>2
<1>. QED
  BY <1>1, <1>2 DEF Flight

\* A request that is no put leaves the pending writes and their answers in order.
LEMMA FlightServedOther ==
  ASSUME NEW s \in Seq(Requests), s # <<>>, ~IsPut(s[1]), NEW c, NEW ps, NEW on, Flight(s, c, ps, on)
  PROVE  Flight(Tail(s), c, ps, on)
<1>1. \A m : IsPut(m) => (Has(s, m) <=> Has(Tail(s), m))
  BY HasTail
<1>2. \A m, n : Before(Tail(s), m, n) => Before(s, m, n)
  BY HasTail
<1>. QED
  BY <1>1, <1>2 DEF Flight

\* A message that is no answer to a put leaves them in order.
LEMMA FlightTakenOther ==
  ASSUME NEW s, NEW c \in Seq(Messages), c # <<>>, ~IsAck(c[1]), NEW ps, NEW on, Flight(s, c, ps, on)
  PROVE  Flight(s, Tail(c), ps, on)
<1>1. \A m : IsAck(m) => (Has(c, m) <=> Has(Tail(c), m))
  BY HasTail
<1>2. \A m, n : Before(Tail(c), m, n) => Before(c, m, n)
  BY HasTail
<1>. QED
  BY <1>1, <1>2 DEF Flight

\* An answer to a put is a message.
LEMMA AckIs ==
  ASSUME NEW id \in WriteIds, NEW ok \in BOOLEAN
  PROVE  /\ Ack(id, ok) \in Acks /\ Ack(id, ok) \in Messages /\ IsAck(Ack(id, ok))
         /\ Ack(id, ok).id = id
BY DEF Ack, Acks, Messages, IsAck

\* A put is a request with the record of its write.
LEMMA PutIs ==
  ASSUME NEW record \in Records
  PROVE  /\ PutRequest(record) \in Requests /\ IsPut(PutRequest(record))
         /\ PutRequest(record).record = record
BY DEF PutRequest, Requests, IsPut

\* A put request is the put of its record.
LEMMA PutRecordIs ==
  ASSUME NEW m \in Requests, IsPut(m)
  PROVE  m.record \in Records /\ m.record.id \in WriteIds /\ m = PutRequest(m.record)
<1>1. m \in [kind : {"put"}, record : Records]
  BY DEF Requests, IsPut
<1>. QED
  BY <1>1, RecordIs DEF Records, PutRequest

\* What an answer to a put holds.
LEMMA AckIdIs ==
  ASSUME NEW m \in Messages, IsAck(m)
  PROVE  m \in Acks /\ m.id \in WriteIds /\ m.ok \in BOOLEAN
<1>1. m \in Acks
  BY DEF Messages, IsAck
<1>. QED
  BY <1>1 DEF Acks

\* The server answers puts in the order it takes them, so answers on their way stay
\* ahead of the puts on theirs.
LEMMA FlightServed ==
  ASSUME NEW s \in Seq(Requests), s # <<>>, IsPut(s[1]), NEW c \in Seq(Messages), NEW ps, NEW on,
         Flight(s, c, ps, on), NEW ack \in Messages, IsAck(ack), ack.id = s[1].record.id
  PROVE  Flight(Tail(s), Append(c, ack), ps, on)
<1>. PICK h : h = s[1]
  OBVIOUS
<1>. PICK t : t = Tail(s)
  OBVIOUS
<1>. PICK d : d = Append(c, ack)
  OBVIOUS
<1>0. h \in Requests /\ Has(s, h) /\ h.record \in Records /\ IsPut(h) /\ ack.id = h.record.id
  BY TailAt, HasTail, PutRecordIs
<1>1. \A m : Has(s, m) <=> m = h \/ Has(t, m)
  BY HasTail
<1>2. /\ \A m, n : Before(t, m, n) => Before(s, m, n)
      /\ \A m : Has(t, m) => Before(s, h, m)
  BY HasTail
<1>3. \A m : Has(d, m) <=> Has(c, m) \/ m = ack
  BY HasAppend
<1>4. \A m, n : Before(d, m, n) => Before(c, m, n) \/ (Has(c, m) /\ n = ack)
  BY HasAppend
<1>. HIDE DEF Flight
<1>5. \A m, n \in Messages : Before(d, m, n) /\ IsAck(m) /\ IsAck(n) => m.id < n.id
  BY <1>0, <1>4 DEF Flight
<1>6. \A m, n \in Requests : Before(t, m, n) /\ IsPut(m) /\ IsPut(n) => m.record.id < n.record.id
  BY <1>2 DEF Flight
<1>7. \A m \in Messages, n \in Requests :
        Has(d, m) /\ IsAck(m) /\ Has(t, n) /\ IsPut(n) => m.id < n.record.id
  BY <1>0, <1>1, <1>2, <1>3 DEF Flight
<1>8. \A m \in Messages : Has(d, m) /\ IsAck(m) => \E r \in Records : Has(ps, r) /\ r.id = m.id
  BY <1>0, <1>3 DEF Flight
<1>9. \A m \in Requests : Has(t, m) /\ IsPut(m) => Has(ps, m.record)
  BY <1>1 DEF Flight
<1>10. on => \A r \in Records : Has(ps, r) =>
         \/ \E m \in Messages : Has(d, m) /\ IsAck(m) /\ m.id = r.id
         \/ \E m \in Requests : Has(t, m) /\ IsPut(m) /\ m.record = r
  BY <1>0, <1>1, <1>3 DEF Flight
<1>. QED
  BY <1>5, <1>6, <1>7, <1>8, <1>9, <1>10 DEF Flight

\* A put sent last has the greatest id, so the order stays.
LEMMA FlightPut ==
  ASSUME NEW s \in Seq(Requests), NEW c, NEW ps \in Seq(Records), NEW on, Flight(s, c, ps, on),
         NEW record \in Records, \A r \in Records : Has(ps, r) => r.id < record.id
  PROVE  Flight(s \o <<PutRequest(record)>>, c, Append(ps, record), on)
<1>. PICK h : h = PutRequest(record)
  OBVIOUS
<1>. PICK t : t = s \o <<h>>
  OBVIOUS
<1>. PICK qs : qs = Append(ps, record)
  OBVIOUS
<1>1. h \in Requests /\ IsPut(h) /\ h.record = record
  BY PutIs
<1>2. <<h>> \in Seq(Requests)
  BY <1>1
<1>3. \A m : Has(t, m) <=> Has(s, m) \/ m = h
  BY <1>2, HasConcat, HasOne
<1>4. ASSUME NEW m, NEW n, Before(t, m, n)
      PROVE  Before(s, m, n) \/ (Has(s, m) /\ n = h)
  <2>1. Before(s, m, n) \/ Before(<<h>>, m, n) \/ (Has(s, m) /\ Has(<<h>>, n))
    BY <1>2, <1>4, BeforeConcat
  <2>. QED
    BY <2>1, HasOne
<1>5. \A r : Has(qs, r) <=> Has(ps, r) \/ r = record
  BY HasAppend
<1>6. \A m \in Requests : IsPut(m) => m.record \in Records
  BY PutRecordIs
<1>7. \A m, n \in Requests : Before(t, m, n) /\ IsPut(m) /\ IsPut(n) => m.record.id < n.record.id
  BY <1>1, <1>4, <1>6 DEF Flight
<1>8. \A m \in Messages, n \in Requests :
        Has(c, m) /\ IsAck(m) /\ Has(t, n) /\ IsPut(n) => m.id < n.record.id
  BY <1>1, <1>3 DEF Flight
<1>9. \A m \in Messages : Has(c, m) /\ IsAck(m) => \E r \in Records : Has(qs, r) /\ r.id = m.id
  BY <1>5 DEF Flight
<1>10. \A m \in Requests : Has(t, m) /\ IsPut(m) => Has(qs, m.record)
  BY <1>1, <1>3, <1>5 DEF Flight
<1>11. on => \A r \in Records : Has(qs, r) =>
         \/ \E m \in Messages : Has(c, m) /\ IsAck(m) /\ m.id = r.id
         \/ \E m \in Requests : Has(t, m) /\ IsPut(m) /\ m.record = r
  BY <1>1, <1>3, <1>5 DEF Flight
<1>12. \A m, n \in Messages : Before(c, m, n) /\ IsAck(m) /\ IsAck(n) => m.id < n.id
  BY DEF Flight
<1>. QED
  BY <1>7, <1>8, <1>9, <1>10, <1>11, <1>12 DEF Flight

\* With nothing on its way there is nothing to say.
LEMMA FlightNone ==
  ASSUME NEW ps
  PROVE  Flight(<<>>, <<>>, ps, FALSE)
BY NoneSent DEF Flight

\* The first acknowledgement is that of the first put.
LEMMA FlightAck ==
  ASSUME NEW s \in Seq(Requests), NEW c \in Seq(Messages), c # <<>>, IsAck(c[1]),
         NEW ps \in Seq(Records), Rising(ps), Flight(s, c, ps, TRUE)
  PROVE  ps # <<>> /\ ps[1].id = c[1].id /\ Flight(s, Tail(c), Tail(ps), TRUE)
<1>. PICK h : h = c[1]
  OBVIOUS
<1>. PICK d : d = Tail(c)
  OBVIOUS
<1>. PICK qs : qs = Tail(ps)
  OBVIOUS
<1>1. h \in Messages /\ IsAck(h) /\ h.id \in WriteIds
  BY TailAt, AckIdIs
<1>2. \A m : Has(c, m) <=> m = h \/ Has(d, m)
  BY HasTail
<1>3. /\ \A m, n : Before(d, m, n) => Before(c, m, n)
      /\ \A m : Has(d, m) => Before(c, h, m)
  BY HasTail
<1>4. WriteIds \subseteq Int
  BY WritesAssumption DEF WriteIds
<1>5. PICK r \in Records : Has(ps, r) /\ r.id = h.id
  BY <1>1, <1>2 DEF Flight
<1>6. ps # <<>>
  BY <1>5, NoneSent
<1>7. /\ DOMAIN ps = 1 .. Len(ps) /\ 1 \in DOMAIN ps /\ ps[1] \in Records
      /\ qs \in Seq(Records)
      /\ DOMAIN qs = 1 .. (Len(ps) - 1)
      /\ \A k \in DOMAIN qs : k + 1 \in DOMAIN ps /\ qs[k] = ps[k + 1]
  BY <1>6, TailAt
<1>8. \A x : Has(ps, x) <=> x = ps[1] \/ Has(qs, x)
  BY <1>6, HasTail
<1>9. \A x : Has(qs, x) => ps[1].id < x.id
  <2>. SUFFICES ASSUME NEW x, Has(qs, x)
                PROVE  ps[1].id < x.id
    OBVIOUS
  <2>1. PICK k \in DOMAIN qs : qs[k] = x
    BY DEF Has
  <2>2. k + 1 \in DOMAIN ps /\ ps[k + 1] = x /\ 1 < k + 1
    BY <1>7, <2>1
  <2>. QED
    BY <1>7, <2>2 DEF Rising
<1>10. ps[1].id \in WriteIds /\ r.id \in WriteIds
  BY <1>7, RecordIs DEF Records
<1>0. h.id \in Int /\ ps[1].id \in Int /\ ~(h.id < h.id)
  <2>1. h.id \in Int /\ ps[1].id \in Int
    BY <1>1, <1>4, <1>10
  <2>. QED
    BY <2>1
<1>11. ~(h.id < ps[1].id)
  <2>1. CASE r = ps[1]
    BY <1>0, <1>5, <2>1
  <2>2. CASE Has(qs, r)
    <3>1. ps[1].id < h.id
      BY <1>5, <1>9, <2>2
    <3>. QED
      BY <1>0, <3>1
  <2>. QED
    BY <1>5, <1>8, <2>1, <2>2
<1>12. ps[1].id = h.id
  <2>1. CASE \E m \in Messages : Has(c, m) /\ IsAck(m) /\ m.id = ps[1].id
    <3>1. PICK m \in Messages : Has(c, m) /\ IsAck(m) /\ m.id = ps[1].id
      BY <2>1
    <3>2. m = h \/ h.id < m.id
      BY <1>1, <1>2, <1>3, <3>1 DEF Flight
    <3>3. ~(h.id < m.id)
      BY <1>11, <3>1
    <3>. QED
      BY <3>1, <3>2, <3>3
  <2>2. CASE \E m \in Requests : Has(s, m) /\ IsPut(m) /\ m.record = ps[1]
    <3>1. h.id < ps[1].id
      BY <1>1, <1>2, <2>2 DEF Flight
    <3>. QED
      BY <1>11, <3>1
  <2>. QED
    BY <1>7, <1>8, <2>1, <2>2 DEF Flight
<1>13. \A m, n \in Messages : Before(d, m, n) /\ IsAck(m) /\ IsAck(n) => m.id < n.id
  BY <1>3 DEF Flight
<1>14. \A m \in Messages : Has(d, m) /\ IsAck(m) => \E x \in Records : Has(qs, x) /\ x.id = m.id
  <2>. SUFFICES ASSUME NEW m \in Messages, Has(d, m), IsAck(m)
                PROVE  \E x \in Records : Has(qs, x) /\ x.id = m.id
    OBVIOUS
  <2>1. PICK x \in Records : Has(ps, x) /\ x.id = m.id
    BY <1>2 DEF Flight
  <2>2. h.id < m.id
    BY <1>1, <1>3 DEF Flight
  <2>3. x # ps[1]
    BY <1>0, <1>12, <2>1, <2>2
  <2>. QED
    BY <1>8, <2>1, <2>3
<1>15. \A m \in Requests : Has(s, m) /\ IsPut(m) => Has(qs, m.record)
  <2>. SUFFICES ASSUME NEW m \in Requests, Has(s, m), IsPut(m)
                PROVE  Has(qs, m.record)
    OBVIOUS
  <2>1. Has(ps, m.record) /\ h.id < m.record.id
    BY <1>1, <1>2 DEF Flight
  <2>2. m.record # ps[1]
    BY <1>0, <1>12, <2>1
  <2>. QED
    BY <1>8, <2>1, <2>2
<1>16. \A x \in Records : Has(qs, x) =>
         \/ \E m \in Messages : Has(d, m) /\ IsAck(m) /\ m.id = x.id
         \/ \E m \in Requests : Has(s, m) /\ IsPut(m) /\ m.record = x
  <2>. SUFFICES ASSUME NEW x \in Records, Has(qs, x)
                PROVE  \/ \E m \in Messages : Has(d, m) /\ IsAck(m) /\ m.id = x.id
                       \/ \E m \in Requests : Has(s, m) /\ IsPut(m) /\ m.record = x
    OBVIOUS
  <2>1. Has(ps, x) /\ x.id # h.id
    <3>1. ps[1].id < x.id /\ x.id \in WriteIds
      BY <1>9, RecordIs DEF Records
    <3>. QED
      BY <1>0, <1>8, <1>12, <3>1
  <2>. QED
    BY <1>2, <2>1 DEF Flight
<1>17. \A m \in Messages, n \in Requests :
         Has(d, m) /\ IsAck(m) /\ Has(s, n) /\ IsPut(n) => m.id < n.record.id
  BY <1>2 DEF Flight
<1>18. \A m, n \in Requests : Before(s, m, n) /\ IsPut(m) /\ IsPut(n) => m.record.id < n.record.id
  BY DEF Flight
<1>19. Flight(s, d, qs, TRUE)
  BY <1>13, <1>14, <1>15, <1>16, <1>17, <1>18 DEF Flight
<1>. QED
  BY <1>6, <1>12, <1>19

\* The puts that a new connection sends again.
Replayed(ps) == [i \in DOMAIN ps |-> PutRequest(ps[i])]

\* On reconnection the outstanding puts are sent again in the order of their ids
\* (restoreState in FPersistentConnection): nothing else is on its way.
LEMMA FlightRestored ==
  ASSUME NEW s \in Seq(Requests), \A m : Has(s, m) => ~IsPut(m),
         NEW ps \in Seq(Records), Rising(ps)
  PROVE  /\ Replayed(ps) \in Seq(Requests) /\ ListensIn(Replayed(ps)) = {}
         /\ Flight(s \o Replayed(ps), <<>>, ps, TRUE)
<1>. PICK t : t = Replayed(ps)
  OBVIOUS
<1>0. DOMAIN t = DOMAIN ps /\ \A i \in DOMAIN ps : t[i] = PutRequest(ps[i])
  BY DEF Replayed
<1>1. DOMAIN t = 1 .. Len(ps) /\ Len(ps) \in Nat /\ DOMAIN ps = 1 .. Len(ps)
  BY <1>0, LenProperties
<1>2. \A i \in DOMAIN ps : ps[i] \in Records /\ t[i] \in Requests /\ IsPut(t[i]) /\ t[i].record = ps[i]
  BY <1>0, <1>1, ElementOfSeq, PutIs
<1>3. t \in Seq(Requests)
  <2>1. t \in [1 .. Len(ps) -> Requests]
    BY <1>1, <1>2 DEF Replayed
  <2>. QED
    BY <1>1, <2>1, SeqDef
<1>4. ListensIn(t) = {}
  BY <1>1, <1>2 DEF ListensIn, IsPut
<1>5. \A m : Has(t, m) => IsPut(m) /\ Has(ps, m.record)
  BY <1>1, <1>2 DEF Has
<1>6. \A r : Has(ps, r) => r \in Records /\ \E m \in Requests : Has(t, m) /\ IsPut(m) /\ m.record = r
  BY <1>1, <1>2 DEF Has
<1>7. \A m, n : Before(t, m, n) => m.record.id < n.record.id
  <2>. SUFFICES ASSUME NEW m, NEW n, Before(t, m, n)
                PROVE  m.record.id < n.record.id
    OBVIOUS
  <2>1. PICK i \in DOMAIN t, j \in DOMAIN t : i < j /\ t[i] = m /\ t[j] = n
    BY DEF Before
  <2>2. m.record = ps[i] /\ n.record = ps[j] /\ i \in DOMAIN ps /\ j \in DOMAIN ps
    BY <1>1, <1>2, <2>1
  <2>. QED
    BY <2>1, <2>2 DEF Rising
<1>. PICK u : u = s \o t
  OBVIOUS
<1>8. \A m : Has(u, m) <=> Has(s, m) \/ Has(t, m)
  BY <1>3, HasConcat
<1>9. ASSUME NEW m, NEW n, Before(u, m, n), IsPut(m), IsPut(n)
      PROVE  Before(t, m, n)
  <2>1. Before(s, m, n) \/ Before(t, m, n) \/ (Has(s, m) /\ Has(t, n))
    BY <1>3, <1>9, BeforeConcat
  <2>2. Before(s, m, n) => Has(s, m)
    BY DEF Before, Has
  <2>. QED
    BY <1>9, <2>1, <2>2
<1>10. Flight(u, <<>>, ps, TRUE)
  BY <1>5, <1>6, <1>7, <1>8, <1>9, NoneSent DEF Flight
<1>. QED
  BY <1>3, <1>4, <1>10

\* What the invariant says of each variable.
LEMMA TypesAre ==
  ASSUME ListenInv
  PROVE  /\ Good(Tree) /\ Tree \in Trees /\ Root \in Paths
         /\ allWrites \in Seq(Records) /\ visibleWrites \in Compounds /\ lastWriteId \in -1 .. MaxWrites
         /\ view \in [Paths -> Caches] /\ told \in [Paths -> Node] /\ rows \in [Children -> Nat]
         /\ Rising(allWrites) /\ \A i \in DOMAIN allWrites : allWrites[i].id <= lastWriteId
<1>1. Good(Tree) /\ Tree \in Trees
  BY DEF ListenInv, Types
<1>2. /\ Tree.all = allWrites /\ Tree.visible = visibleWrites /\ Tree.last = lastWriteId
      /\ Tree.view = view /\ Tree.told = told /\ Tree.rows = rows
  BY TreeFields
<1>3. /\ Tree.all \in Seq(Records) /\ Tree.visible \in Compounds /\ Tree.last \in -1 .. MaxWrites
      /\ Tree.view \in [Paths -> Caches] /\ Tree.told \in [Paths -> Node] /\ Tree.rows \in [Children -> Nat]
      /\ Root \in Paths
  BY <1>1, TreeIs
<1>4. Rising(Tree.all) /\ \A i \in DOMAIN Tree.all : Tree.all[i].id <= Tree.last
  BY <1>1 DEF Good, Ordered
<1>. HIDE DEF Tree
<1>. QED
  BY <1>1, <1>2, <1>3, <1>4

\* The tree after a step is made of its variables after the step.
LEMMA TreeFieldsNext ==
  /\ Tree'.all = allWrites' /\ Tree'.visible = visibleWrites' /\ Tree'.last = lastWriteId'
  /\ Tree'.view = view' /\ Tree'.told = told' /\ Tree'.rows = rows'
BY DEF Tree

\* Listens stay where no view comes on or goes off.
LEMMA ListensStay ==
  ASSUME ListenInv, Kept(Tree, Tree'), UNCHANGED <<listens, specs>>
  PROVE  ListensCover' /\ (\A p \in Paths : listens'[p] <= specs') /\ Good(Tree')
<1>1. \A p \in Paths : view'[p].on <=> view[p].on
  BY TreeFields, TreeFieldsNext DEF Kept
<1>2. Root \in Paths
  BY DEF Paths
<1>. QED
  BY <1>1, <1>2 DEF ListenInv, ListensCover, On, Kept

\* A step of the tree that keeps its views keeps their sources, if no listen is
\* lost.
LEMMA SourcedStays ==
  ASSUME Sourced, Kept(Tree, Tree'), UNCHANGED <<listens, connected>>,
         \A q, spec : Asked(toServer, toClient, q, spec) => Asked(toServer', toClient', q, spec)
  PROVE  Sourced'
<1>1. \A p \in Paths : /\ view'[p].on <=> view[p].on
                       /\ view[p].serverFull => view'[p].serverFull
  BY TreeFields, TreeFieldsNext DEF Kept
<1>2. Root \in Paths
  BY DEF Paths
<1>. QED
  BY <1>1, <1>2 DEF Sourced, Source, On

\* A step that leaves the tree keeps it.
LEMMA KeptSame ==
  ASSUME ListenInv, UNCHANGED tree
  PROVE  Kept(Tree, Tree') /\ Tree' = Tree
BY TreeStays, TypesAre DEF Kept

-----------------------------------------------------------------------------
\* The messages that tell of a write are no answers.
IsNotice(m) == m.kind \in {"data", "merge"}

\* What the server tells its listeners of a write: notices only, and data that stay
\* a node.
LEMMA NoticesAre ==
  ASSUME NEW ids, ids \subseteq Nat, NEW record \in RecordsWith(ids), data \in Node
  PROVE  /\ Notices(record) \in Seq(Messages) /\ \A m : Has(Notices(record), m) => IsNotice(m)
         /\ Onto(record.data, data) \in Node
<1>1. /\ record.path \in Paths /\ DOMAIN record.data \subseteq Children
      /\ \A c \in DOMAIN record.data : record.data[c] \in ids \cup {None}
  BY RecordIs
<1>2. record.data \in Changed(Nat)
  <2>1. record.data \in Changed(ids)
    BY DEF RecordsWith
  <2>2. PICK cs \in SUBSET Children : record.data \in [cs -> ids \cup {None}]
    BY <2>1 DEF Changed
  <2>3. record.data \in [cs -> Nat \cup {None}]
    BY <2>2
  <2>. QED
    BY <2>3 DEF Changed
<1>3. Onto(record.data, data) \in Node
  <2>1. \A c \in DOMAIN record.data : record.data[c] \in Values
    BY <1>1 DEF Values
  <2>2. data \in [Children -> Values]
    BY DEF Node
  <2>3. Onto(record.data, data) \in [Children -> Values]
    BY <2>1, <2>2, OntoIs
  <2>. QED
    BY <2>3 DEF Node
<1>. PICK new : new = Onto(record.data, data)
  OBVIOUS
<1>4. MergeMessage(record.data) \in Messages /\ IsNotice(MergeMessage(record.data))
  BY <1>2 DEF MergeMessage, Messages, IsNotice
<1>5. \A p \in Paths : DataMessage(p, Only(p, new)) \in Messages /\ IsNotice(DataMessage(p, Only(p, new)))
  <2>1. \A p \in Paths : Only(p, new) \in Node
    BY <1>3, OnlyIs
  <2>. QED
    BY <2>1 DEF DataMessage, Messages, IsNotice
<1>6. \A m \in Messages : IsNotice(m) =>
        <<m>> \in Seq(Messages) /\ \A x : Has(<<m>>, x) => IsNotice(x)
  <2>. SUFFICES ASSUME NEW m \in Messages, IsNotice(m)
                PROVE  <<m>> \in Seq(Messages) /\ \A x : Has(<<m>>, x) => IsNotice(x)
    OBVIOUS
  <2>1. \A x : Has(<<m>>, x) => x = m
    BY HasOne
  <2>. QED
    BY <2>1
<1>7. CASE Root \in serving
  <2>1. Notices(record) = <<MergeMessage(record.data)>>
        \/ Notices(record) = <<DataMessage(record.path, Only(record.path, new))>>
    BY <1>7 DEF Notices
  <2>. QED
    BY <1>1, <1>3, <1>4, <1>5, <1>6, <2>1
<1>8. CASE Root \notin serving
  <2>. PICK cs : cs = {c \in DOMAIN record.data : c \in serving}
    OBVIOUS
  <2>1. cs \subseteq Children /\ cs \subseteq Paths /\ IsFiniteSet(cs)
    <3>1. cs \subseteq Children
      BY <1>1
    <3>. QED
      BY <3>1, ChildrenAssumption, FS_Subset DEF Paths
  <2>. PICK n : n = Cardinality(cs)
    OBVIOUS
  <2>. PICK s : s = SetToSeq(cs)
    OBVIOUS
  <2>2. n \in Nat /\ s \in [1 .. n -> cs]
    BY <2>1, Listing
  <2>. PICK r : r = Notices(record)
    OBVIOUS
  <2>3. r = [i \in 1 .. n |-> DataMessage(s[i], Only(s[i], new))]
    BY <1>8 DEF Notices
  <2>4. \A i \in 1 .. n : r[i] \in Messages /\ IsNotice(r[i])
    BY <1>5, <2>1, <2>2, <2>3
  <2>5. DOMAIN r = 1 .. n /\ r \in [1 .. n -> Messages]
    BY <2>3, <2>4
  <2>6. r \in Seq(Messages)
    <3>1. n \in Nat
      BY <2>2
    <3>. QED
      BY <2>5, <3>1, SeqDef
  <2>7. \A m : Has(r, m) => IsNotice(m)
    BY <2>4, <2>5 DEF Has
  <2>. QED
    BY <1>3, <2>6, <2>7
<1>. QED
  BY <1>7, <1>8

\* Notices are no answers, to listens or to puts.
LEMMA NoticesSilent ==
  ASSUME NEW x \in Seq(Messages), \A m : Has(x, m) => IsNotice(m)
  PROVE  /\ ListensIn(x) = {} /\ Cardinality(ListensIn(x)) = 0
         /\ \A m : Has(x, m) => ~IsAck(m)
<1>1. \A m : Has(x, m) => m.kind # "listen" /\ m.kind # "ack"
  BY DEF IsNotice
<1>2. ListensIn(x) = {}
  BY <1>1, HasListens
<1>. QED
  BY <1>1, <1>2, FS_EmptySet DEF IsAck

\* What the server makes of a request.
LEMMA ServeIs ==
  ASSUME NEW request \in Requests, NEW ok \in BOOLEAN, Serve(request, ok),
         toClient \in Seq(Messages), data \in Node, serving \in SUBSET Paths
  PROVE  /\ data' \in Node /\ serving' \in SUBSET Paths
         /\ \E n \in Seq(Messages) :
              /\ \A m : Has(n, m) => IsNotice(m)
              /\ request.kind = "listen" =>
                   toClient' = Append(toClient \o n, Answer(request.path, request.spec, ok))
              /\ request.kind = "put" =>
                   toClient' = Append(toClient \o n, Ack(request.record.id, ok))
              /\ request.kind = "unlisten" => toClient' = toClient
<1>0. <<>> \in Seq(Messages) /\ \A m : ~Has(<<>>, m)
  BY NoneSent
<1>1. CASE request.kind = "listen"
  <2>1. request.path \in Paths /\ request.spec \in Nat
    BY <1>1 DEF Requests
  <2>. PICK a : a = Answer(request.path, request.spec, ok)
    OBVIOUS
  <2>2. a \in Messages /\ <<a>> \in Seq(Messages)
    BY <2>1 DEF Answer, Messages
  <2>3. CASE ok
    <3>1. DataMessage(request.path, Only(request.path, data)) \in Messages
          /\ IsNotice(DataMessage(request.path, Only(request.path, data)))
      BY <2>1, OnlyIs DEF DataMessage, Messages, IsNotice
    <3>. PICK d : d = DataMessage(request.path, Only(request.path, data))
      OBVIOUS
    <3>. PICK n : n = IF HashMatches(request) THEN <<>> ELSE <<d>>
      OBVIOUS
    <3>2. \A m : Has(<<d>>, m) => m = d
      BY HasOne
    <3>3. n \in Seq(Messages) /\ \A m : Has(n, m) => IsNotice(m)
      BY <1>0, <3>1, <3>2
    <3>4. /\ serving' = serving \cup {request.path} /\ data' = data
          /\ toClient' = (toClient \o n) \o <<Answer(request.path, request.spec, TRUE)>>
      BY <1>1, <2>3 DEF Serve
    <3>5. ok = TRUE
      BY <2>3
    <3>6. toClient' = (toClient \o n) \o <<a>>
      BY <3>4, <3>5
    <3>7. toClient \o n \in Seq(Messages)
      BY <3>3, ConcatProperties
    <3>8. toClient' = Append(toClient \o n, a)
      BY <2>2, <3>6, <3>7, AppendIsConcat
    <3>. QED
      BY <1>1, <2>1, <3>3, <3>4, <3>8
  <2>4. CASE ~ok
    <3>1. ok = FALSE
      BY <2>4
    <3>2. /\ serving' = serving /\ data' = data
          /\ toClient' = Append(toClient, Answer(request.path, request.spec, FALSE))
      BY <1>1, <2>4 DEF Serve
    <3>3. toClient' = Append(toClient, a)
      BY <3>1, <3>2
    <3>4. toClient \o <<>> = toClient
      BY ConcatEmptySeq
    <3>5. toClient' = Append(toClient \o <<>>, a)
      BY <3>3, <3>4
    <3>. QED
      BY <1>0, <1>1, <3>2, <3>5
  <2>. QED
    BY <2>3, <2>4
<1>2. CASE request.kind = "unlisten"
  <2>1. serving' = serving \ {request.path} /\ toClient' = toClient /\ data' = data
    BY <1>2 DEF Serve
  <2>. QED
    BY <1>0, <1>2, <2>1
<1>3. CASE request.kind = "put"
  <2>1. request.record \in Records
    BY <1>3, PutRecordIs DEF IsPut
  <2>2. CASE ok
    <3>1. ok = TRUE
      BY <2>2
    <3>2. WriteIds \subseteq Nat
      BY WritesAssumption DEF WriteIds
    <3>. PICK n : n = Notices(request.record)
      OBVIOUS
    <3>3. /\ n \in Seq(Messages) /\ \A m : Has(n, m) => IsNotice(m)
          /\ Onto(request.record.data, data) \in Node
      BY <2>1, <3>2, NoticesAre DEF Records
    <3>. PICK a : a = Ack(request.record.id, ok)
      OBVIOUS
    <3>4. /\ data' = Onto(request.record.data, data) /\ serving' = serving
          /\ toClient' = (toClient \o n) \o <<Ack(request.record.id, TRUE)>>
      BY <1>3, <2>2 DEF Serve
    <3>5. toClient' = (toClient \o n) \o <<a>>
      BY <3>1, <3>4
    <3>6. a \in Messages
      BY <2>1, AckIs, RecordIs DEF Records
    <3>7. toClient \o n \in Seq(Messages)
      BY <3>3, ConcatProperties
    <3>8. toClient' = Append(toClient \o n, a)
      BY <3>5, <3>6, <3>7, AppendIsConcat
    <3>. QED
      BY <1>3, <3>3, <3>4, <3>8
  <2>3. CASE ~ok
    <3>1. ok = FALSE
      BY <2>3
    <3>2. /\ data' = data /\ serving' = serving
          /\ toClient' = Append(toClient, Ack(request.record.id, FALSE))
      BY <1>3, <2>3 DEF Serve
    <3>3. toClient \o <<>> = toClient
      BY ConcatEmptySeq
    <3>4. toClient' = Append(toClient \o <<>>, Ack(request.record.id, ok))
      BY <3>1, <3>2, <3>3
    <3>. QED
      BY <1>0, <1>3, <3>2, <3>4
  <2>. QED
    BY <2>2, <2>3
<1>. QED
  BY <1>1, <1>2, <1>3 DEF Requests

\* A step of the server or of another client keeps the client's state.
LEMMA ClientStays ==
  ASSUME Inv, UNCHANGED <<tree, written, listens, unacked, puts, heldAcks, connected, specs, drops>>
  PROVE  /\ Kept(Tree, Tree') /\ Tree' = Tree
         /\ ListensCover' /\ (\A p \in Paths : listens'[p] <= specs') /\ Good(Tree')
         /\ Queued' /\ HeldAlone' /\ NeverLost'
<1>1. Kept(Tree, Tree') /\ Tree' = Tree
  BY KeptSame DEF Inv
<1>2. ListensCover' /\ (\A p \in Paths : listens'[p] <= specs') /\ Good(Tree')
  BY <1>1, ListensStay DEF Inv
<1>3. Queued' /\ HeldAlone' /\ NeverLost'
  BY DEF Inv, NetInv, Queued, HeldAlone, NeverLost, tree
<1>. QED
  BY <1>1, <1>2, <1>3

\* The server takes one request: a listen is answered with the data, a put is applied
\* and answered, an unlisten is obeyed.
LEMMA ServerTurnKeeps ==
  ASSUME Inv, ServerTurn
  PROVE  Inv' /\ Tree' = Tree
<1>1. /\ Kept(Tree, Tree') /\ Tree' = Tree
      /\ ListensCover' /\ (\A p \in Paths : listens'[p] <= specs') /\ Good(Tree')
      /\ Queued' /\ HeldAlone' /\ NeverLost'
  BY ClientStays DEF ServerTurn
<1>2. /\ toServer \in Seq(Requests) /\ toClient \in Seq(Messages) /\ data \in Node
      /\ serving \in SUBSET Paths
  BY DEF Inv, ListenInv, Types
<1>3. toServer # <<>> /\ toServer' = Tail(toServer)
  BY DEF ServerTurn
<1>. PICK h : h = toServer[1]
  OBVIOUS
<1>4. h \in Requests /\ Head(toServer) = h /\ toServer' \in Seq(Requests)
  BY <1>2, <1>3, TailAt
<1>5. PICK ok \in BOOLEAN : Serve(h, ok)
  BY <1>4 DEF ServerTurn
<1>6. /\ data' \in Node /\ serving' \in SUBSET Paths
      /\ \E n \in Seq(Messages) :
           /\ \A m : Has(n, m) => IsNotice(m)
           /\ h.kind = "listen" => toClient' = Append(toClient \o n, Answer(h.path, h.spec, ok))
           /\ h.kind = "put" => toClient' = Append(toClient \o n, Ack(h.record.id, ok))
           /\ h.kind = "unlisten" => toClient' = toClient
  BY <1>2, <1>4, <1>5, ServeIs
<1>7. PICK n \in Seq(Messages) :
        /\ \A m : Has(n, m) => IsNotice(m)
        /\ h.kind = "listen" => toClient' = Append(toClient \o n, Answer(h.path, h.spec, ok))
        /\ h.kind = "put" => toClient' = Append(toClient \o n, Ack(h.record.id, ok))
        /\ h.kind = "unlisten" => toClient' = toClient
  BY <1>6
<1>. PICK c : c = toClient \o n
  OBVIOUS
<1>8. /\ c \in Seq(Messages) /\ Cardinality(ListensIn(c)) = Cardinality(ListensIn(toClient))
      /\ \A x : Has(toClient, x) => Has(c, x)
      /\ Flight(toServer, c, puts, connected)
  <2>1. c \in Seq(Messages) /\ \A x : Has(toClient, x) => Has(c, x)
    BY <1>2, HasConcat, ConcatProperties
  <2>2. Cardinality(ListensIn(n)) = 0 /\ \A m : Has(n, m) => ~IsAck(m)
    BY <1>7, NoticesSilent
  <2>3. Cardinality(ListensIn(c)) = Cardinality(ListensIn(toClient))
    <3>1. Cardinality(ListensIn(c)) = Cardinality(ListensIn(toClient)) + Cardinality(ListensIn(n))
      BY <1>2, CountConcat
    <3>2. Cardinality(ListensIn(toClient)) \in Nat
      BY <1>2, CountIs
    <3>. QED
      BY <2>2, <3>1, <3>2
  <2>4. Flight(toServer, c, puts, connected)
    <3>1. Flight(toServer, toClient, puts, connected)
      BY DEF Inv, NetInv, InFlight
    <3>. QED
      BY <1>2, <2>2, <3>1, FlightNotices
  <2>. QED
    BY <2>1, <2>3, <2>4
<1>9. /\ unacked = Cardinality(ListensIn(toServer)) + Cardinality(ListensIn(toClient))
      /\ Cardinality(ListensIn(toServer)) = Cardinality(ListensIn(toServer')) +
             (IF h.kind = "listen" THEN 1 ELSE 0)
      /\ Cardinality(ListensIn(toServer')) \in Nat /\ Cardinality(ListensIn(toClient)) \in Nat
  <2>1. unacked = Cardinality(ListensIn(toServer)) + Cardinality(ListensIn(toClient))
    BY DEF Inv, NetInv, Counted
  <2>2. Cardinality(ListensIn(toClient)) \in Nat
    BY <1>2, CountIs
  <2>3. /\ Cardinality(ListensIn(toServer)) =
             Cardinality(ListensIn(Tail(toServer))) + (IF toServer[1].kind = "listen" THEN 1 ELSE 0)
        /\ Cardinality(ListensIn(Tail(toServer))) \in Nat
    BY ONLY <1>2, <1>3, CountTail
  <2>. QED
    BY <1>3, <2>1, <2>2, <2>3
<1>13. /\ toClient' \in Seq(Messages) /\ Counted'
       /\ \A q, spec : Asked(toServer, toClient, q, spec) => Asked(toServer', toClient', q, spec)
       /\ Flight(toServer', toClient', puts, connected)
  <2>10. CASE h.kind = "listen"
    <3>. PICK a : a = Answer(h.path, h.spec, ok)
      OBVIOUS
    <3>1. h.path \in Paths /\ h.spec \in Nat
      BY <1>4, <2>10 DEF Requests
    <3>2. a \in Messages /\ a.kind = "listen" /\ IsListen(a, h.path, h.spec) /\
          ~IsAck(a) /\ toClient' = Append(c, a)
      BY <1>7, <2>10, <3>1 DEF Answer, Messages, IsListen, IsAck
    <3>3. toClient' \in Seq(Messages) /\ \A x : Has(toClient', x) <=> Has(c, x) \/ x = a
      <4>1. Append(c, a) \in Seq(Messages)
        BY <1>8, <3>2, AppendAt
      <4>2. c \in Seq(Messages) /\ a \in Messages
        BY <1>8, <3>2
      <4>3. \A x : Has(Append(c, a), x) <=> Has(c, x) \/ x = a
        BY ONLY <4>2, HasAppend
      <4>. QED
        BY <3>2, <4>1, <4>3
    <3>4. Cardinality(ListensIn(toClient')) = Cardinality(ListensIn(c)) + 1
      BY <1>8, <3>2, CountAppend
    <3>5. Counted'
      BY <1>8, <1>9, <2>10, <3>4 DEF Counted, ServerTurn
    <3>6. \A q, spec : Asked(toServer, toClient, q, spec) => Asked(toServer', toClient', q, spec)
      <4>1. \A x : Has(toClient, x) => Has(toClient', x)
        BY <1>8, <3>3
      <4>2. \E x \in Messages : Has(toClient', x) /\ IsListen(x, toServer[1].path, toServer[1].spec)
        BY <3>2, <3>3
      <4>. QED
        BY <1>2, <1>3, <4>1, <4>2, AskedServed
    <3>7. Flight(toServer', toClient', puts, connected)
      <4>1. Flight(Tail(toServer), c, puts, connected)
        <5>1. ~IsPut(toServer[1])
          BY <2>10 DEF IsPut
        <5>. QED
          BY <1>2, <1>3, <1>8, <5>1, FlightServedOther
      <4>2. toClient' = c \o <<a>> /\ <<a>> \in Seq(Messages) /\ \A m : Has(<<a>>, m) => ~IsAck(m)
        <5>1. \A m : Has(<<a>>, m) => m = a
          BY HasOne
        <5>2. \A m : Has(<<a>>, m) => ~IsAck(m)
          BY <3>2, <5>1
        <5>3. a \in Messages /\ c \in Seq(Messages) /\ toClient' = Append(c, a)
          BY <1>8, <3>2
        <5>4. toClient' = c \o <<a>>
          BY ONLY <5>3, AppendIsConcat
        <5>5. <<a>> \in Seq(Messages)
          BY <5>3, CountOne
        <5>. QED
          BY <5>2, <5>4, <5>5
      <4>3. Flight(Tail(toServer), c \o <<a>>, puts, connected)
        BY <1>8, <4>1, <4>2, FlightNotices
      <4>. QED
        BY <1>3, <4>2, <4>3
    <3>. QED
      BY <3>3, <3>5, <3>6, <3>7
  <2>11. CASE h.kind = "put"
    <3>. PICK a : a = Ack(h.record.id, ok)
      OBVIOUS
    <3>1. IsPut(h) /\ h.record.id \in WriteIds
      BY <1>4, <2>11, PutRecordIs DEF IsPut
    <3>2. a \in Messages /\ IsAck(a) /\ a.id = h.record.id /\ a.kind # "listen" /\ toClient' = Append(c, a)
      BY <1>7, <2>11, <3>1, AckIs DEF IsAck
    <3>3. toClient' \in Seq(Messages) /\ \A x : Has(toClient', x) <=> Has(c, x) \/ x = a
      <4>1. Append(c, a) \in Seq(Messages)
        BY <1>8, <3>2, AppendAt
      <4>2. c \in Seq(Messages) /\ a \in Messages
        BY <1>8, <3>2
      <4>3. \A x : Has(Append(c, a), x) <=> Has(c, x) \/ x = a
        BY ONLY <4>2, HasAppend
      <4>. QED
        BY <3>2, <4>1, <4>3
    <3>4. Cardinality(ListensIn(toClient')) = Cardinality(ListensIn(c)) + 0
      BY <1>8, <3>2, CountAppend
    <3>5. Counted'
      BY <1>8, <1>9, <2>11, <3>4 DEF Counted, ServerTurn
    <3>6. \A q, spec : Asked(toServer, toClient, q, spec) => Asked(toServer', toClient', q, spec)
      <4>1. \A x : Has(toClient, x) => Has(toClient', x)
        BY <1>8, <3>3
      <4>2. toServer[1].kind # "listen"
        BY <2>11
      <4>. QED
        BY <1>2, <1>3, <4>1, <4>2, AskedServed
    <3>7. Flight(toServer', toClient', puts, connected)
      <4>1. Flight(Tail(toServer), Append(c, a), puts, connected)
        BY <1>2, <1>3, <1>8, <3>1, <3>2, FlightServed
      <4>. QED
        BY <1>3, <3>2, <4>1
    <3>. QED
      BY <3>3, <3>5, <3>6, <3>7
  <2>12. CASE h.kind = "unlisten"
    <3>1. toClient' = toClient
      BY <1>7, <2>12
    <3>5. Counted'
      BY <1>9, <2>12, <3>1 DEF Counted, ServerTurn
    <3>6. \A q, spec : Asked(toServer, toClient, q, spec) => Asked(toServer', toClient', q, spec)
      <4>2. toServer[1].kind # "listen"
        BY <2>12
      <4>. QED
        BY <1>2, <1>3, <3>1, <4>2, AskedServed
    <3>7. Flight(toServer', toClient', puts, connected)
      <4>1. ~IsPut(toServer[1])
        BY <2>12 DEF IsPut
      <4>2. Flight(toServer, toClient, puts, connected)
        BY DEF Inv, NetInv, InFlight
      <4>3. Flight(Tail(toServer), toClient, puts, connected)
        BY <1>2, <1>3, <4>1, <4>2, FlightServedOther
      <4>. QED
        BY <1>3, <3>1, <4>3
    <3>. QED
      BY <1>2, <3>1, <3>5, <3>6, <3>7
  <2>13. h.kind = "listen" \/ h.kind = "put" \/ h.kind = "unlisten"
    BY <1>4 DEF Requests
  <2>. QED
    BY <2>10, <2>11, <2>12, <2>13
<1>14. Lost' /\ InFlight'
  <2>1. connected
    BY <1>3 DEF Inv, ListenInv, Types, NetInv, Lost
  <2>. QED
    BY <1>13, <2>1 DEF Lost, InFlight, ServerTurn
<1>15. Sourced'
  BY <1>1, <1>13, SourcedStays DEF Inv, NetInv, ServerTurn
<1>16. Types'
  <2>1. Tree' \in Trees
    BY <1>1 DEF Good
  <2>. QED
    BY <1>4, <1>6, <1>13, <2>1 DEF Inv, ListenInv, Types, ServerTurn
<1>. QED
  BY <1>1, <1>13, <1>14, <1>15, <1>16 DEF Inv, ListenInv, NetInv

\* A change by another client only adds notices to what is on its way.
LEMMA OtherClientWritesKeeps ==
  ASSUME Inv, OtherClientWrites
  PROVE  Inv' /\ Tree' = Tree
<1>1. /\ Kept(Tree, Tree') /\ Tree' = Tree
      /\ ListensCover' /\ (\A p \in Paths : listens'[p] <= specs') /\ Good(Tree')
      /\ Queued' /\ HeldAlone' /\ NeverLost'
  BY ClientStays DEF OtherClientWrites
<1>2. /\ toServer \in Seq(Requests) /\ toClient \in Seq(Messages) /\ data \in Node
      /\ serving \in SUBSET Paths /\ remote \in Nat
  BY DEF Inv, ListenInv, Types
<1>3. PICK record \in RecordsOf(MaxWrites + remote + 1) :
        data' = Onto(record.data, data) /\ toClient' = toClient \o Notices(record)
  BY DEF OtherClientWrites
<1>4. record \in RecordsWith(Nat)
  <2>1. MaxWrites + remote + 1 \in Nat
    BY <1>2, WritesAssumption
  <2>. QED
    BY <2>1, RecordsOfIs
<1>. PICK n : n = Notices(record)
  OBVIOUS
<1>5. n \in Seq(Messages) /\ (\A m : Has(n, m) => IsNotice(m)) /\ data' \in Node
  BY <1>2, <1>3, <1>4, NoticesAre
<1>6. toClient' = toClient \o n
  BY <1>3
<1>. PICK c : c = toClient \o n
  OBVIOUS
<1>7. c \in Seq(Messages) /\ \A x : Has(toClient, x) => Has(c, x)
  BY <1>2, <1>5, HasConcat, ConcatProperties
<1>8. Cardinality(ListensIn(n)) = 0 /\ \A m : Has(n, m) => ~IsAck(m)
  BY <1>5, NoticesSilent
<1>9. Counted'
  <2>1. Cardinality(ListensIn(c)) = Cardinality(ListensIn(toClient)) + Cardinality(ListensIn(n))
    BY <1>2, <1>5, CountConcat
  <2>2. Cardinality(ListensIn(toClient)) \in Nat
    BY <1>2, CountIs
  <2>3. Cardinality(ListensIn(c)) = Cardinality(ListensIn(toClient))
    BY <1>8, <2>1, <2>2
  <2>. QED
    BY <1>6, <2>3 DEF Inv, NetInv, Counted, OtherClientWrites
<1>10. InFlight'
  <2>1. Flight(toServer, toClient, puts, connected)
    BY DEF Inv, NetInv, InFlight
  <2>2. Flight(toServer, c, puts, connected)
    BY <1>2, <1>5, <1>8, <2>1, FlightNotices
  <2>. QED
    BY <1>6, <2>2 DEF InFlight, OtherClientWrites
<1>11. Lost'
  <2>1. Lost
    BY DEF Inv, NetInv
  <2>. SUFFICES ASSUME ~connected
                PROVE  toClient' = <<>>
    BY <2>1 DEF Lost, OtherClientWrites
  <2>2. toClient = <<>> /\ serving = {}
    BY <2>1 DEF Lost
  <2>3. {c2 \in DOMAIN record.data : c2 \in serving} = {} /\ Root \notin serving
    BY <2>2
  <2>4. n = <<>>
    <3>. PICK e : e = {c2 \in DOMAIN record.data : c2 \in serving}
      OBVIOUS
    <3>1. n = [i \in 1 .. Cardinality(e) |->
                LET c2 == SetToSeq(e)[i]
                IN DataMessage(c2, Only(c2, Onto(record.data, data)))]
      BY <2>3 DEF Notices
    <3>2. Cardinality(e) = 0
      BY <2>3, FS_EmptySet
    <3>3. DOMAIN n = {}
      <4>1. DOMAIN n = 1 .. Cardinality(e)
        BY ONLY <3>1
      <4>2. 1 .. 0 = {}
        OBVIOUS
      <4>. QED
        BY <3>2, <4>1, <4>2
    <3>. QED
      BY <1>5, <3>3, EmptySeq, LenProperties
  <2>. QED
    BY <1>6, <2>2, <2>4, ConcatEmptySeq
<1>12. Sourced'
  <2>1. \A q, spec : Asked(toServer, toClient, q, spec) => Asked(toServer, c, q, spec)
    BY <1>7 DEF Asked
  <2>2. \A q, spec : Asked(toServer, toClient, q, spec) => Asked(toServer', toClient', q, spec)
    BY <1>6, <2>1 DEF OtherClientWrites
  <2>. QED
    BY <1>1, <2>2, SourcedStays DEF Inv, NetInv, OtherClientWrites
<1>13. Types'
  <2>1. Tree' \in Trees
    BY <1>1 DEF Good
  <2>2. toClient' \in Seq(Messages) /\ remote' \in Nat
    BY <1>2, <1>6, <1>7 DEF OtherClientWrites
  <2>. QED
    BY <1>5, <2>1, <2>2 DEF Inv, ListenInv, Types, OtherClientWrites
<1>. QED
  BY <1>1, <1>9, <1>10, <1>11, <1>12, <1>13 DEF Inv, ListenInv, NetInv

-----------------------------------------------------------------------------
\* What the client keeps when it takes a message that is no answer.
LEMMA TakeNoticeKeeps ==
  ASSUME Inv, toClient # <<>>, IsNotice(toClient[1]), toClient' = Tail(toClient),
         Kept(Tree, Tree'), SameWrites(Tree, Tree'),
         UNCHANGED <<written, listens, unacked, puts, heldAcks, connected, toServer, data, serving,
                     specs, remote, drops>>
  PROVE  Inv'
<1>1. /\ toServer \in Seq(Requests) /\ toClient \in Seq(Messages)
  BY DEF Inv, ListenInv, Types
<1>2. ListensCover' /\ (\A p \in Paths : listens'[p] <= specs') /\ Good(Tree')
  BY ListensStay DEF Inv
<1>3. Tail(toClient) \in Seq(Messages)
  BY <1>1, TailAt
<1>4. ~IsAck(toClient[1]) /\ \A q, spec : ~IsListen(toClient[1], q, spec)
  BY DEF IsAck, IsListen, IsNotice
<1>5. Counted'
  <2>1. Cardinality(ListensIn(toClient)) =
          Cardinality(ListensIn(Tail(toClient))) + (IF toClient[1].kind = "listen" THEN 1 ELSE 0)
        /\ Cardinality(ListensIn(Tail(toClient))) \in Nat
    BY ONLY <1>1, toClient # <<>>, CountTail
  <2>2. toClient[1].kind # "listen"
    BY DEF IsNotice
  <2>3. Cardinality(ListensIn(toClient)) = Cardinality(ListensIn(Tail(toClient)))
    BY <2>1, <2>2
  <2>. QED
    BY <2>3 DEF Inv, NetInv, Counted
<1>6. InFlight'
  <2>1. Flight(toServer, toClient, puts, connected)
    BY DEF Inv, NetInv, InFlight
  <2>2. Flight(toServer, Tail(toClient), puts, connected)
    BY <1>1, <1>4, <2>1, FlightTakenOther
  <2>. QED
    BY <2>2 DEF InFlight
<1>7. Lost'
  BY DEF Inv, NetInv, Lost
<1>8. Sourced'
  <2>1. \A q, spec : Asked(toServer, toClient, q, spec) => Asked(toServer, Tail(toClient), q, spec)
    BY <1>1, <1>4, AskedTaken
  <2>. QED
    BY <2>1, SourcedStays DEF Inv, NetInv
<1>9. Queued' /\ HeldAlone' /\ NeverLost'
  <2>1. allWrites' = allWrites /\ lastWriteId' = lastWriteId
    BY TreeFields, TreeFieldsNext DEF SameWrites
  <2>. QED
    BY <2>1 DEF Inv, NetInv, Queued, HeldAlone, NeverLost
<1>10. Types'
  <2>1. Tree' \in Trees
    BY <1>2 DEF Good
  <2>. QED
    BY <1>3, <2>1 DEF Inv, ListenInv, Types
<1>. QED
  BY <1>2, <1>5, <1>6, <1>7, <1>8, <1>9, <1>10 DEF Inv, ListenInv, NetInv

\* The client takes a data update of the server (onDataUpdate: in
\* FPersistentConnection).
LEMMA TakeDataKeeps ==
  ASSUME Inv, TakeData
  PROVE  Inv' /\ (TreeExact(Tree) => TreeExact(Tree'))
<1>1. toClient \in Seq(Messages) /\ Good(Tree) /\ toClient # <<>>
  BY DEF Inv, ListenInv, Types, TakeData, Take
<1>. PICK h : h = toClient[1]
  OBVIOUS
<1>2. h \in Messages /\ Head(toClient) = h
  BY <1>1, TailAt
<1>3. h.kind = "data" /\ h.path \in Paths /\ h.node \in Node
  BY <1>2 DEF TakeData, Take, Messages, Acks
<1>. PICK r : r = ApplyServerData(Tree, h.path, h.node)
  OBVIOUS
<1>4. /\ Kept(Tree, r) /\ SameWrites(Tree, r)
      /\ RootWhole(Tree.visible) /\ ViewsShow(Tree) => ViewsShow(r)
  BY <1>1, <1>3, ApplyServerDataKeeps
<1>5. Tree' = r
  <2>1. Becomes(r)
    BY <1>2 DEF TakeData
  <2>2. r \in Trees
    BY <1>4 DEF Kept, Good
  <2>. QED
    BY <2>1, <2>2, BecomesIs
<1>6. Inv'
  <2>1. Kept(Tree, Tree') /\ SameWrites(Tree, Tree') /\ IsNotice(toClient[1])
    BY <1>3, <1>4, <1>5 DEF IsNotice
  <2>. QED
    BY <1>1, <2>1, TakeNoticeKeeps DEF TakeData, Take
<1>7. TreeExact(Tree) => TreeExact(r)
  BY <1>1, <1>4, LayeredWhole, TreeIs DEF TreeExact, SameWrites, Good
<1>. QED
  BY <1>5, <1>6, <1>7

\* The client takes a merge of the server.
LEMMA TakeMergeKeeps ==
  ASSUME Inv, TakeMerge
  PROVE  Inv' /\ (TreeExact(Tree) => TreeExact(Tree'))
<1>1. toClient \in Seq(Messages) /\ Good(Tree) /\ toClient # <<>>
  BY DEF Inv, ListenInv, Types, TakeMerge, Take
<1>. PICK h : h = toClient[1]
  OBVIOUS
<1>2. h \in Messages /\ Head(toClient) = h
  BY <1>1, TailAt
<1>3. h.kind = "merge" /\ h.changed \in Changed(Nat)
  BY <1>2 DEF TakeMerge, Take, Messages, Acks
<1>. PICK r : r = ApplyServerMerge(Tree, h.changed)
  OBVIOUS
<1>4. /\ Kept(Tree, r) /\ SameWrites(Tree, r)
      /\ RootWhole(Tree.visible) /\ ViewsShow(Tree) => ViewsShow(r)
  BY <1>1, <1>3, ApplyServerMergeKeeps
<1>5. Tree' = r
  <2>1. Becomes(r)
    BY <1>2 DEF TakeMerge
  <2>2. r \in Trees
    BY <1>4 DEF Kept, Good
  <2>. QED
    BY <2>1, <2>2, BecomesIs
<1>6. Inv'
  <2>1. Kept(Tree, Tree') /\ SameWrites(Tree, Tree') /\ IsNotice(toClient[1])
    BY <1>3, <1>4, <1>5 DEF IsNotice
  <2>. QED
    BY <1>1, <2>1, TakeNoticeKeeps DEF TakeMerge, Take
<1>7. TreeExact(Tree) => TreeExact(r)
  BY <1>1, <1>4, LayeredWhole, TreeIs DEF TreeExact, SameWrites, Good
<1>. QED
  BY <1>5, <1>6, <1>7

\* Removing the first element of a sequence leaves its tail.
LEMMA HeadGoes ==
  ASSUME NEW S, NEW s \in Seq(S), s # <<>>
  PROVE  RemoveAt(s, 1) = Tail(s)
<1>1. /\ Len(s) \in Nat /\ RemoveAt(s, 1) \in Seq(S) /\ Len(RemoveAt(s, 1)) = Len(s) - 1
      /\ \A j \in 1 .. (Len(s) - 1) : RemoveAt(s, 1)[j] = s[j + 1]
  <2>1. 1 \in DOMAIN s
    BY TailAt
  <2>2. /\ Len(s) \in Nat /\ RemoveAt(s, 1) \in Seq(S) /\ Len(RemoveAt(s, 1)) = Len(s) - 1
        /\ \A j \in 1 .. (Len(s) - 1) : RemoveAt(s, 1)[j] = IF j < 1 THEN s[j] ELSE s[j + 1]
    BY ONLY <2>1, s \in Seq(S), RemoveAtIs
  <2>. QED
    BY <2>2
<1>2. /\ Tail(s) \in Seq(S) /\ Len(Tail(s)) = Len(s) - 1
      /\ \A j \in 1 .. (Len(s) - 1) : Tail(s)[j] = s[j + 1]
  <2>1. /\ Tail(s) \in Seq(S) /\ Len(Tail(s)) = Len(s) - 1 /\ DOMAIN Tail(s) = 1 .. (Len(s) - 1)
        /\ \A k \in DOMAIN Tail(s) : Tail(s)[k] = s[k + 1]
    BY ONLY s \in Seq(S), s # <<>>, TailAt
  <2>. QED
    BY <2>1
<1>3. ASSUME NEW a \in Seq(S), NEW b \in Seq(S), NEW n, Len(a) = n, Len(b) = n,
             \A j \in 1 .. n : a[j] = b[j]
      PROVE  a = b
  BY ONLY <1>3, SeqEqual
<1>4. \A j \in 1 .. (Len(s) - 1) : RemoveAt(s, 1)[j] = Tail(s)[j]
  BY <1>1, <1>2
<1>. QED
  BY <1>1, <1>2, <1>3, <1>4, Zenon

-----------------------------------------------------------------------------
\* The writes whose answer is held come before those without one.
LEMMA PutsRise ==
  ASSUME Inv
  PROVE  /\ Rising(puts) /\ puts \in Seq(Records) /\ heldAcks \in Seq(Acks)
         /\ DOMAIN puts = 1 .. Len(puts) /\ DOMAIN heldAcks = 1 .. Len(heldAcks)
         /\ DOMAIN allWrites = 1 .. Len(allWrites) /\ Len(puts) \in Nat /\ Len(heldAcks) \in Nat
         /\ Len(allWrites) = Len(heldAcks) + Len(puts)
         /\ \A k \in DOMAIN heldAcks : allWrites[k].id = heldAcks[k].id
         /\ \A k \in DOMAIN puts : allWrites[Len(heldAcks) + k] = puts[k]
<1>1. puts \in Seq(Records) /\ heldAcks \in Seq(Acks)
  BY DEF Inv, ListenInv, Types
<1>2. allWrites \in Seq(Records) /\ Rising(allWrites)
  BY TypesAre DEF Inv
<1>3. /\ Len(puts) \in Nat /\ DOMAIN puts = 1 .. Len(puts)
      /\ Len(heldAcks) \in Nat /\ DOMAIN heldAcks = 1 .. Len(heldAcks)
      /\ DOMAIN allWrites = 1 .. Len(allWrites)
  BY <1>1, <1>2, LenProperties
<1>4. /\ Len(allWrites) = Len(heldAcks) + Len(puts)
      /\ \A k \in DOMAIN heldAcks : allWrites[k].id = heldAcks[k].id
      /\ \A k \in DOMAIN puts : allWrites[Len(heldAcks) + k] = puts[k]
  BY DEF Inv, NetInv, Queued
<1>5. Rising(puts)
  <2>. SUFFICES ASSUME NEW i \in DOMAIN puts, NEW j \in DOMAIN puts, i < j
                PROVE  puts[i].id < puts[j].id
    BY DEF Rising
  <2>. PICK n : n = Len(heldAcks)
    OBVIOUS
  <2>1. n + i \in DOMAIN allWrites /\ n + j \in DOMAIN allWrites /\ n + i < n + j
    BY <1>3, <1>4
  <2>2. allWrites[n + i].id < allWrites[n + j].id
    BY <1>2, <2>1 DEF Rising
  <2>3. allWrites[n + i] = puts[i] /\ allWrites[n + j] = puts[j]
    BY <1>4
  <2>. QED
    BY <2>2, <2>3
<1>. QED
  BY <1>1, <1>3, <1>4, <1>5

\* With no listen unanswered, every view that is on has the server's data.
LEMMA AnsweredFull ==
  ASSUME Inv, connected, unacked = 0, NEW p \in Paths, view[p].on
  PROVE  view[p].serverFull
<1>1. toServer \in Seq(Requests) /\ toClient \in Seq(Messages)
  BY DEF Inv, ListenInv, Types
<1>2. ListensIn(toServer) = {} /\ ListensIn(toClient) = {}
  <2>1. Cardinality(ListensIn(toServer)) \in Nat /\ Cardinality(ListensIn(toClient)) \in Nat
    BY <1>1, CountIs
  <2>2. Cardinality(ListensIn(toServer)) = 0 /\ Cardinality(ListensIn(toClient)) = 0
    BY <2>1 DEF Inv, NetInv, Counted
  <2>. QED
    BY <1>1, <2>2, CountIs
<1>3. ~Asked(toServer, toClient, Source(p), listens[Source(p)])
  BY <1>2, NotAsked
<1>. QED
  BY <1>3 DEF Inv, NetInv, Sourced, On

\* What a client makes of an acknowledgement when it does not hold it.
LEMMA ReadyNow ==
  ASSUME Inv, connected, unacked = 0, Timely
  PROVE  AckReady(Tree, Len(heldAcks) + 1)
<1>1. \A p \in Paths : Tree.view[p].on => Tree.view[p].serverFull
  BY AnsweredFull, TreeFields
<1>2. CASE heldAcks = <<>>
  <2>1. Len(heldAcks) + 1 = 1
    BY <1>2, PutsRise, EmptySeq
  <2>. QED
    BY <1>1, <2>1 DEF AckReady
<1>3. CASE heldAcks # <<>>
  <2>1. \A p \in Paths : listens[p] = 0
    BY <1>3 DEF Inv, NetInv, HeldAlone
  <2>2. Whole
    BY <1>3 DEF Inv, NetInv, NeverLost, Timely
  <2>3. Root \in Paths /\ \A p \in Paths : ~view[p].on
    BY <2>1 DEF Paths, Inv, ListenInv, ListensCover, On
  <2>4. \A p \in Paths : ~Tree.view[p].on
    BY <2>3, TreeFields
  <2>. QED
    BY <2>2, <2>4 DEF AckReady
<1>. QED
  BY <1>2, <1>3

\* The answer to the first write without one is held.
LEMMA QueuedHeld ==
  ASSUME Inv, puts # <<>>, NEW ack \in Acks, puts[1].id = ack.id,
         UNCHANGED <<allWrites, lastWriteId, written>>,
         heldAcks' = Append(heldAcks, ack), puts' = Tail(puts)
  PROVE  Queued'
<1>. PICK n : n = Len(heldAcks)
  OBVIOUS
<1>. PICK m : m = Len(puts)
  OBVIOUS
<1>1. /\ n \in Nat /\ m \in Nat \ {0} /\ DOMAIN puts = 1 .. m /\ DOMAIN heldAcks = 1 .. n
      /\ Len(allWrites) = n + m
      /\ \A k \in 1 .. n : allWrites[k].id = heldAcks[k].id
      /\ \A k \in 1 .. m : allWrites[n + k] = puts[k]
      /\ puts \in Seq(Records) /\ heldAcks \in Seq(Acks)
  BY PutsRise, EmptySeq
<1>2. /\ Len(Tail(puts)) = m - 1 /\ DOMAIN Tail(puts) = 1 .. (m - 1)
      /\ \A k \in 1 .. (m - 1) : Tail(puts)[k] = puts[k + 1]
  BY <1>1, TailAt
<1>3. /\ Len(Append(heldAcks, ack)) = n + 1 /\ DOMAIN Append(heldAcks, ack) = 1 .. (n + 1)
      /\ \A k \in 1 .. n : Append(heldAcks, ack)[k] = heldAcks[k]
      /\ Append(heldAcks, ack)[n + 1] = ack
  BY <1>1, AppendAt
<1>4. \A k \in 1 .. (n + 1) : allWrites[k].id = Append(heldAcks, ack)[k].id
  <2>. SUFFICES ASSUME NEW k \in 1 .. (n + 1)
                PROVE  allWrites[k].id = Append(heldAcks, ack)[k].id
    OBVIOUS
  <2>1. CASE k \in 1 .. n
    BY <1>1, <1>3, <2>1
  <2>2. CASE k = n + 1
    <3>1. allWrites[n + 1] = puts[1]
      BY <1>1
    <3>. QED
      BY <1>3, <2>2, <3>1
  <2>. QED
    BY <1>1, <2>1, <2>2
<1>5. \A k \in 1 .. (m - 1) : allWrites[n + 1 + k] = Tail(puts)[k]
  <2>. SUFFICES ASSUME NEW k \in 1 .. (m - 1)
                PROVE  allWrites[n + 1 + k] = Tail(puts)[k]
    OBVIOUS
  <2>1. k + 1 \in 1 .. m /\ n + (k + 1) = n + 1 + k
    BY <1>1
  <2>. QED
    BY <1>1, <1>2, <2>1
<1>6. lastWriteId' <= written'
  BY DEF Inv, NetInv, Queued
<1>7. Len(allWrites) = (n + 1) + (m - 1)
  BY <1>1
<1>. QED
  BY <1>2, <1>3, <1>4, <1>5, <1>6, <1>7 DEF Queued

\* The first write without an answer is removed.
LEMMA QueuedRemoved ==
  ASSUME Inv, puts # <<>>, allWrites' = RemoveAt(allWrites, Len(heldAcks) + 1),
         lastWriteId' \in Int, lastWriteId' <= lastWriteId,
         UNCHANGED <<heldAcks, written>>, puts' = Tail(puts)
  PROVE  Queued'
<1>. PICK n : n = Len(heldAcks)
  OBVIOUS
<1>. PICK m : m = Len(puts)
  OBVIOUS
<1>1. /\ n \in Nat /\ m \in Nat \ {0} /\ DOMAIN puts = 1 .. m /\ DOMAIN heldAcks = 1 .. n
      /\ Len(allWrites) = n + m /\ DOMAIN allWrites = 1 .. (n + m)
      /\ \A k \in 1 .. n : allWrites[k].id = heldAcks[k].id
      /\ \A k \in 1 .. m : allWrites[n + k] = puts[k]
      /\ puts \in Seq(Records)
  BY PutsRise, EmptySeq
<1>2. /\ Len(Tail(puts)) = m - 1 /\ DOMAIN Tail(puts) = 1 .. (m - 1)
      /\ \A k \in 1 .. (m - 1) : Tail(puts)[k] = puts[k + 1]
  BY <1>1, TailAt
<1>. PICK rest : rest = RemoveAt(allWrites, n + 1)
  OBVIOUS
<1>3. /\ Len(rest) = n + m - 1
      /\ \A j \in 1 .. (n + m - 1) : rest[j] = IF j < n + 1 THEN allWrites[j] ELSE allWrites[j + 1]
  <2>1. n + 1 \in DOMAIN allWrites /\ allWrites \in Seq(Records)
    BY <1>1, TypesAre DEF Inv
  <2>. PICK i : i = n + 1
    OBVIOUS
  <2>2. /\ Len(RemoveAt(allWrites, i)) = Len(allWrites) - 1
        /\ \A j \in 1 .. (Len(allWrites) - 1) :
             RemoveAt(allWrites, i)[j] = IF j < i THEN allWrites[j] ELSE allWrites[j + 1]
    BY <2>1, RemoveAtIs
  <2>. QED
    BY <1>1, <2>2
<1>4. \A k \in 1 .. n : rest[k].id = heldAcks[k].id
  <2>. SUFFICES ASSUME NEW k \in 1 .. n
                PROVE  rest[k].id = heldAcks[k].id
    OBVIOUS
  <2>1. rest[k] = allWrites[k]
    <3>1. k \in 1 .. (n + m - 1) /\ k < n + 1
      BY <1>1
    <3>. QED
      BY <1>3, <3>1
  <2>. QED
    BY <1>1, <2>1
<1>5. \A k \in 1 .. (m - 1) : rest[n + k] = Tail(puts)[k]
  <2>. SUFFICES ASSUME NEW k \in 1 .. (m - 1)
                PROVE  rest[n + k] = Tail(puts)[k]
    OBVIOUS
  <2>1. rest[n + k] = allWrites[n + k + 1]
    BY <1>1, <1>3
  <2>2. k + 1 \in 1 .. m /\ n + (k + 1) = n + k + 1
    BY <1>1
  <2>. QED
    BY <1>1, <1>2, <2>1, <2>2
<1>6. lastWriteId' <= written'
  BY TypesAre DEF Inv, NetInv, Queued, ListenInv, Types
<1>7. Len(rest) = n + (m - 1)
  BY <1>1, <1>3
<1>8. allWrites' = rest
  OBVIOUS
<1>. QED
  BY <1>1, <1>2, <1>4, <1>5, <1>6, <1>7, <1>8 DEF Queued

-----------------------------------------------------------------------------
\* The client takes the answer to a put: applies it, or holds it while a listen is
\* unanswered (putToAck: in FPersistentConnection). Exactness needs Timely: an answer
\* applied before a held one removes a write that is not the oldest.
LEMMA TakeAckKeeps ==
  ASSUME Inv, TakeAck
  PROVE  Inv' /\ (Timely /\ TreeExact(Tree) => TreeExact(Tree'))
<1>1. /\ toClient \in Seq(Messages) /\ toServer \in Seq(Requests) /\ Good(Tree)
      /\ toClient # <<>> /\ toClient' = Tail(toClient) /\ connected \in BOOLEAN
      /\ unacked \in Nat /\ heldAcks \in Seq(Acks)
  BY DEF Inv, ListenInv, Types, TakeAck, Take
<1>. PICK h : h = toClient[1]
  OBVIOUS
<1>2. h \in Messages /\ Head(toClient) = h /\ Tail(toClient) \in Seq(Messages)
  BY <1>1, TailAt
<1>3. IsAck(h) /\ h.kind = "ack"
  BY <1>2 DEF TakeAck, Take, IsAck
<1>4. h \in Acks
  BY <1>2, <1>3, AckIdIs
<1>5. connected
  BY <1>1 DEF Inv, NetInv, Lost
<1>6. puts \in Seq(Records) /\ puts # <<>> /\ puts[1].id = h.id
      /\ Flight(toServer, Tail(toClient), Tail(puts), TRUE)
  <2>1. Flight(toServer, toClient, puts, connected)
    BY DEF Inv, NetInv, InFlight
  <2>2. connected = TRUE
    BY <1>1, <1>5
  <2>3. Flight(toServer, toClient, puts, TRUE)
    BY <2>1, <2>2
  <2>4. puts \in Seq(Records) /\ Rising(puts)
    BY PutsRise
  <2>. QED
    BY <1>1, <1>3, <2>3, <2>4, FlightAck
<1>7. puts' = Tail(puts) /\ Tail(puts) \in Seq(Records)
  <2>1. 1 \in DOMAIN puts /\ \A i \in DOMAIN puts : puts[i].id = h.id => i = 1
    <3>1. 1 \in DOMAIN puts /\ DOMAIN puts = 1 .. Len(puts) /\ Len(puts) \in Nat
      BY <1>6, TailAt
    <3>2. \A i \in DOMAIN puts : i # 1 => puts[1].id < puts[i].id
      BY <3>1, PutsRise DEF Rising
    <3>3. h.id \in Int
      <4>1. h.id \in WriteIds
        BY <1>4 DEF Acks
      <4>. QED
        BY <4>1 DEF WriteIds
    <3>. QED
      BY <1>6, <3>1, <3>2, <3>3
  <2>2. (CHOOSE i \in DOMAIN puts : puts[i].id = h.id) = 1
    BY <1>6, <2>1
  <2>3. puts' = RemoveAt(puts, 1)
    BY <1>2, <2>2 DEF TakeAck
  <2>4. RemoveAt(puts, 1) = Tail(puts)
    BY <1>6, HeadGoes
  <2>5. Tail(puts) \in Seq(Records)
    BY <1>6, TailAt
  <2>. QED
    BY <2>3, <2>4, <2>5
<1>8. UNCHANGED <<written, listens, unacked, connected, toServer, data, serving, specs, remote, drops>>
  BY DEF TakeAck
<1>9. /\ Kept(Tree, Tree') /\ Queued' /\ heldAcks' \in Seq(Acks)
      /\ unacked = 0 => heldAcks' = heldAcks
      /\ Timely /\ TreeExact(Tree) => TreeExact(Tree')
  <2>1. CASE Holds
    <3>1. heldAcks' = Append(heldAcks, h) /\ UNCHANGED tree /\ unacked > 0
      BY <1>2, <2>1 DEF TakeAck, Holds
    <3>2. Kept(Tree, Tree') /\ Tree' = Tree
      BY <3>1, KeptSame DEF Inv
    <3>3. Queued'
      BY <1>4, <1>6, <1>7, <1>8, <3>1, QueuedHeld DEF tree
    <3>4. heldAcks' \in Seq(Acks)
      BY <1>1, <1>4, <3>1, AppendAt
    <3>5. unacked # 0
      BY <1>1, <3>1
    <3>. QED
      BY <3>2, <3>3, <3>4, <3>5
  <2>2. CASE ~Holds
    <3>1. Becomes(AckWrite(Tree, h)) /\ heldAcks' = heldAcks /\ unacked = 0
      BY <1>1, <1>2, <2>2 DEF TakeAck, Holds
    <3>. PICK r : r = AckWrite(Tree, h)
      OBVIOUS
    <3>. PICK i : i = Len(heldAcks) + 1
      OBVIOUS
    <3>2. i \in DOMAIN Tree.all /\ Tree.all[i].id = h.id
      <4>1. 1 \in DOMAIN puts
        BY <1>6, TailAt
      <4>2. i \in DOMAIN allWrites /\ allWrites[i] = puts[1]
        BY <4>1, PutsRise
      <4>. QED
        BY <1>6, <4>2, TreeFields
    <3>3. /\ Kept(Tree, r) /\ r.all = RemoveAt(Tree.all, i) /\ r.last <= Tree.last
          /\ TreeExact(Tree) /\ AckReady(Tree, i) => TreeExact(r)
      BY <1>1, <1>4, <3>2, AckWriteKeeps
    <3>4. r \in Trees /\ r.last \in Int
      <4>1. r \in Trees
        BY <3>3 DEF Kept, Good
      <4>2. r.last \in -1 .. MaxWrites
        BY <4>1, TreeIs
      <4>. QED
        BY <4>1, <4>2, WritesAssumption
    <3>5. Tree' = r
      BY <3>1, <3>4, BecomesIs
    <3>6. Queued'
      <4>1. /\ allWrites' = RemoveAt(allWrites, Len(heldAcks) + 1)
            /\ lastWriteId' \in Int /\ lastWriteId' <= lastWriteId
        BY <3>3, <3>4, <3>5, TreeFields, TreeFieldsNext
      <4>. QED
        BY <1>6, <1>7, <1>8, <3>1, <4>1, QueuedRemoved
    <3>7. Timely => AckReady(Tree, i)
      BY <1>5, <3>1, ReadyNow
    <3>. QED
      BY <1>1, <3>1, <3>3, <3>5, <3>6, <3>7
  <2>. QED
    BY <2>1, <2>2
<1>10. ListensCover' /\ (\A p \in Paths : listens'[p] <= specs') /\ Good(Tree')
  BY <1>8, <1>9, ListensStay DEF Inv
<1>11. Counted'
  <2>1. Cardinality(ListensIn(toClient)) =
          Cardinality(ListensIn(Tail(toClient))) + (IF toClient[1].kind = "listen" THEN 1 ELSE 0)
        /\ Cardinality(ListensIn(Tail(toClient))) \in Nat
    BY ONLY <1>1, CountTail
  <2>2. Cardinality(ListensIn(toClient)) = Cardinality(ListensIn(Tail(toClient)))
    BY <1>3, <2>1
  <2>. QED
    BY <1>1, <1>8, <2>2 DEF Inv, NetInv, Counted
<1>12. InFlight'
  <2>1. connected' = TRUE
    BY <1>1, <1>5, <1>8
  <2>. QED
    BY <1>1, <1>6, <1>7, <1>8, <2>1 DEF InFlight
<1>13. Lost'
  BY <1>5, <1>8 DEF Lost
<1>14. Sourced'
  <2>1. \A q, spec : ~IsListen(toClient[1], q, spec)
    BY <1>3 DEF IsListen
  <2>2. \A q, spec : Asked(toServer, toClient, q, spec) => Asked(toServer, Tail(toClient), q, spec)
    BY <1>1, <2>1, AskedTaken
  <2>. QED
    BY <1>1, <1>8, <1>9, <2>2, SourcedStays DEF Inv, NetInv
<1>15. HeldAlone' /\ NeverLost'
  BY <1>8, <1>9 DEF Inv, NetInv, HeldAlone, NeverLost
<1>16. Types'
  <2>1. Tree' \in Trees
    BY <1>10 DEF Good
  <2>. QED
    BY <1>1, <1>2, <1>7, <1>8, <1>9, <2>1 DEF Inv, ListenInv, Types
<1>. QED
  BY <1>9, <1>10, <1>11, <1>12, <1>13, <1>14, <1>15, <1>16 DEF Inv, ListenInv, NetInv

\* ListensCover and Sourced of listens l and views v.
Covers(l, v) == \A p \in Paths : l[p] # 0 <=> v[p].on /\ (p = Root \/ ~v[Root].on)
From(v, p) == IF v[Root].on THEN Root ELSE p
Sources(s, c, l, v) ==
  \A p \in Paths : v[p].on /\ ~v[p].serverFull => Asked(s, c, From(v, p), l[From(v, p)])

\* ListensCover and Sourced, of the variables' values: in the form the lemmas about
\* one changed view use.
LEMMA CoversIs ==
  /\ ListensCover <=> Covers(listens, view)
  /\ Sourced <=> (connected => Sources(toServer, toClient, listens, view))
<1>1. \A p \in Paths : Source(p) = From(view, p)
  BY DEF Source, From, On
<1>. QED
  BY <1>1 DEF ListensCover, Covers, Sourced, Sources, On

\* The same of the values after the step.
LEMMA CoversNext ==
  /\ ListensCover' <=> Covers(listens', view')
  /\ Sourced' <=> (connected' => Sources(toServer', toClient', listens', view'))
<1>1. \A p \in Paths : Source(p)' = From(view', p)
  BY DEF Source, From, On
<1>. QED
  BY <1>1 DEF ListensCover, Covers, Sourced, Sources, On

\* A step that keeps which views are on and full keeps what covers them.
LEMMA KeptCovers ==
  ASSUME NEW t, NEW r, Kept(t, r), NEW l, NEW s, NEW c
  PROVE  /\ Covers(l, t.view) => Covers(l, r.view)
         /\ Sources(s, c, l, t.view) => Sources(s, c, l, r.view)
<1>1. Root \in Paths /\ \A p \in Paths : /\ r.view[p].on <=> t.view[p].on
                                         /\ t.view[p].serverFull => r.view[p].serverFull
  BY DEF Kept, Paths
<1>2. \A p \in Paths : From(r.view, p) = From(t.view, p)
  BY <1>1 DEF From
<1>. QED
  BY <1>1, <1>2 DEF Covers, Sources

\* The view of a path goes off.
Off(t, p) == [t EXCEPT !.view[p] = NoView, !.told[p] = Empty]

\* A view removed leaves the others as they were.
LEMMA OffKeeps ==
  ASSUME NEW t, Good(t), NEW p \in Paths, NEW r, r = Off(t, p)
  PROVE  /\ Good(r) /\ SameWrites(t, r) /\ r.view = [t.view EXCEPT ![p] = NoView]
         /\ TreeExact(t) => TreeExact(r)
<1>1. t \in Trees
  BY DEF Good
<1>2. t.view \in [Paths -> Caches] /\ t.told \in [Paths -> Node] /\ t.rows \in [Children -> Nat]
  BY <1>1, TreeIs
<1>3. /\ r.view = [t.view EXCEPT ![p] = NoView] /\ r.told = [t.told EXCEPT ![p] = Empty]
      /\ r.rows = t.rows /\ r.all = t.all /\ r.visible = t.visible /\ r.last = t.last
  BY <1>1 DEF Off, Trees
<1>4. NoView \in Caches /\ ~NoView.on /\ ~NoView.eventFull /\ Empty \in Node
  BY DEF NoView, Caches, Node, Values, Empty
<1>5. r \in Trees
  <2>1. r.view \in [Paths -> Caches] /\ r.told \in [Paths -> Node]
    BY <1>2, <1>3, <1>4
  <2>. QED
    BY <1>1, <1>3, <2>1 DEF Off, Trees
<1>6. \A q \in Paths : /\ q = p => r.view[q] = NoView
                       /\ q # p => r.view[q] = t.view[q] /\ r.told[q] = t.told[q]
  BY <1>2, <1>3
<1>. HIDE DEF Off
<1>7. Ordered(r)
  BY <1>3 DEF Good, Ordered
<1>8. OffIsNothing(r)
  BY <1>6 DEF Good, OffIsNothing
<1>9. Told(r)
  <2>1. \A q \in Paths : r.view[q].eventFull => r.told[q] = r.view[q].event
    BY <1>4, <1>6 DEF Good, Told
  <2>2. \A c \in Children : r.view[Root].on /\ r.view[Root].event[c] # None => r.rows[c] >= 1
    <3>1. Root \in Paths
      BY DEF Paths
    <3>. QED
      BY <1>3, <1>4, <1>6, <3>1 DEF Good, Told
  <2>. QED
    BY <2>1, <2>2 DEF Told
<1>10. TreeExact(t) => TreeExact(r)
  <2>1. \A q \in Paths : Shows(t.view[q], t.visible, q) => Shows(r.view[q], r.visible, q)
    BY <1>3, <1>4, <1>6 DEF Shows
  <2>. QED
    BY <1>3, <2>1 DEF TreeExact, ViewsShow
<1>. QED
  BY <1>3, <1>5, <1>7, <1>8, <1>9, <1>10 DEF Good, SameWrites

\* When a view is removed: below a listened one nothing else changes; otherwise its
\* listen goes, and the child views it covered are listened to themselves
\* (removeEventRegistration: in FSyncTree).
LEMMA OffCovers ==
  ASSUME Inv, NEW p \in Paths, NEW x, x = [view EXCEPT ![p] = NoView], NEW s, NEW c
  PROVE  /\ p # Root /\ view[Root].on =>
              /\ Covers(listens, x)
              /\ Sources(s, c, listens, view) => Sources(s, c, listens, x)
         /\ Covers(ListensWithout(p), x)
         /\ (/\ \A q \in Paths : view[q].on /\ ~view[q].serverFull /\ From(view, q) # p =>
                  Asked(s, c, From(view, q), listens[From(view, q)])
             /\ \A q \in Restarts(p) : Asked(s, c, q, specs + 1))
            => Sources(s, c, ListensWithout(p), x)
<1>1. /\ view \in [Paths -> Caches] /\ Root \in Paths /\ ~NoView.on
      /\ listens \in [Paths -> Nat] /\ specs \in Nat
  BY TypesAre DEF Inv, ListenInv, Types, NoView
<1>2. \A q \in Paths : /\ q = p => ~x[q].on
                       /\ q # p => x[q] = view[q]
  BY <1>1
<1>3. \A q \in Paths : listens[q] # 0 <=> view[q].on /\ (q = Root \/ ~view[Root].on)
  BY DEF Inv, ListenInv, ListensCover, On
<1>4. ASSUME p # Root, view[Root].on
      PROVE  /\ Covers(listens, x)
             /\ Sources(s, c, listens, view) => Sources(s, c, listens, x)
  BY <1>1, <1>2, <1>3, <1>4 DEF Covers, Sources, From
<1>5. \A q \in Paths : ListensWithout(p)[q] = IF q = p THEN 0
                                              ELSE IF p = Root /\ q \in Children /\ view[q].on THEN specs + 1
                                              ELSE listens[q]
  BY DEF ListensWithout, Restarts, ChildrenOn, On
<1>6. Covers(ListensWithout(p), x)
  <2>1. CASE p = Root
    BY <1>1, <1>2, <1>3, <1>5, <2>1 DEF Covers, Paths
  <2>2. CASE p # Root
    BY <1>1, <1>2, <1>3, <1>5, <2>2 DEF Covers
  <2>. QED
    BY <2>1, <2>2
<1>7. ASSUME \A q \in Paths : view[q].on /\ ~view[q].serverFull /\ From(view, q) # p =>
               Asked(s, c, From(view, q), listens[From(view, q)]),
             \A q \in Restarts(p) : Asked(s, c, q, specs + 1)
      PROVE  Sources(s, c, ListensWithout(p), x)
  <2>. SUFFICES ASSUME NEW q \in Paths, x[q].on, ~x[q].serverFull
                PROVE  Asked(s, c, From(x, q), ListensWithout(p)[From(x, q)])
    BY DEF Sources
  <2>1. q # p /\ view[q].on /\ ~view[q].serverFull
    BY <1>2
  <2>2. CASE p = Root
    <3>1. q \in Children /\ q \in Restarts(p) /\ From(x, q) = q
      BY <1>1, <1>2, <2>1, <2>2 DEF Paths, Restarts, ChildrenOn, On, From
    <3>2. ListensWithout(p)[q] = specs + 1
      BY <1>5, <2>1, <2>2, <3>1
    <3>. QED
      BY <1>7, <3>1, <3>2
  <2>3. CASE p # Root
    <3>1. From(x, q) = From(view, q) /\ From(view, q) # p /\ From(view, q) \in Paths
      BY <1>1, <1>2, <2>1, <2>3 DEF From
    <3>2. ListensWithout(p)[From(view, q)] = listens[From(view, q)]
      BY <1>5, <2>3, <3>1
    <3>. QED
      BY <1>7, <2>1, <3>1, <3>2
  <2>. QED
    BY <2>2, <2>3
<1>. QED
  BY <1>4, <1>6, <1>7

\* The listens after one is removed and those below it are restarted.
LEMMA WithoutIs ==
  ASSUME Inv, NEW p \in Paths
  PROVE  /\ ListensWithout(p) \in [Paths -> Nat] /\ specs + 1 \in Nat
         /\ \A q \in Paths : ListensWithout(p)[q] <= specs + 1
         /\ Restarts(p) \subseteq Paths /\ IsFiniteSet(Restarts(p))
         /\ (\A q \in Paths : listens[q] = 0) => \A q \in Paths : ListensWithout(p)[q] = 0
<1>1. listens \in [Paths -> Nat] /\ specs \in Nat /\ \A q \in Paths : listens[q] <= specs
  BY DEF Inv, ListenInv, Types
<1>2. Restarts(p) \subseteq Children /\ Children \subseteq Paths
  BY DEF Restarts, ChildrenOn, Paths
<1>3. IsFiniteSet(Restarts(p))
  BY <1>2, ChildrenAssumption, FS_Subset
<1>4. ASSUME \A q \in Paths : listens[q] = 0
      PROVE  Restarts(p) = {}
  <2>1. \A c \in Children : ~view[c].on \/ view[Root].on
    BY <1>2, <1>4 DEF Inv, ListenInv, ListensCover, On
  <2>2. Root \in Paths /\ ~view[Root].on
    BY <1>4 DEF Paths, Inv, ListenInv, ListensCover, On
  <2>. QED
    BY <2>1, <2>2 DEF Restarts, ChildrenOn, On
<1>. QED
  BY <1>1, <1>2, <1>3, <1>4 DEF ListensWithout

\* What the answer to a listen makes of views and listens, before ackPuts.
LEMMA AnswerSettles ==
  ASSUME Inv, connected, toClient # <<>>, NEW h \in Messages, h = toClient[1], h.kind = "listen",
         NEW current, current = (listens[h.path] = h.spec), NEW failed, failed = (current /\ ~h.ok),
         NEW t, t = IF failed THEN Off(Tree, h.path)
                    ELSE IF current THEN ApplyListenComplete(Tree, h.path) ELSE Tree,
         NEW l, l = IF failed THEN ListensWithout(h.path) ELSE listens,
         NEW restarts, restarts = IF failed THEN Restarts(h.path) ELSE {}
  PROVE  /\ Good(t) /\ SameWrites(Tree, t) /\ (TreeExact(Tree) => TreeExact(t))
         /\ Covers(l, t.view) /\ Sources(toServer \o Start(restarts), Tail(toClient), l, t.view)
<1>1. /\ toServer \in Seq(Requests) /\ toClient \in Seq(Messages) /\ specs \in Nat
      /\ view \in [Paths -> Caches] /\ Good(Tree) /\ Root \in Paths
  BY TypesAre DEF Inv, ListenInv, Types
<1>2. h.path \in Paths
  BY DEF Messages, Acks
<1>. PICK q : q = h.path
  OBVIOUS
<1>3. /\ Covers(listens, view) /\ Sources(toServer, toClient, listens, view)
      /\ Tree.view = view
  BY CoversIs, TreeFields DEF Inv, ListenInv, NetInv
<1>. PICK next : next = Tail(toClient)
  OBVIOUS
<1>4. next \in Seq(Messages)
  BY <1>1, TailAt
<1>5. \A spec : IsListen(h, q, spec) => spec = h.spec
  BY DEF IsListen
<1>6. \A p, spec : p # q \/ spec # h.spec => ~IsListen(h, p, spec)
  BY DEF IsListen
<1>7. \A p, spec : Asked(toServer, toClient, p, spec) /\ (p # q \/ spec # h.spec) =>
                     Asked(toServer, next, p, spec)
  BY <1>1, <1>6, AskedTaken
<1>8. restarts \subseteq Paths
  BY <1>2, WithoutIs
<1>. PICK started : started = Start(restarts)
  OBVIOUS
<1>9. /\ started \in Seq(Requests)
      /\ \A p \in restarts : \E m \in Requests : Has(started, m) /\ IsListen(m, p, specs + 1)
  BY <1>1, <1>8, StartIs
<1>. PICK asked : asked = toServer \o started
  OBVIOUS
<1>10. \A p, spec : Asked(toServer, next, p, spec) => Asked(asked, next, p, spec)
  <2>. SUFFICES ASSUME NEW p, NEW spec, Asked(toServer, next, p, spec)
                PROVE  Asked(asked, next, p, spec)
    OBVIOUS
  <2>1. <<>> \in Seq(Messages) /\ next \o <<>> = next
    BY <1>4, NoneSent, ConcatEmptySeq
  <2>2. Asked(toServer \o started, next \o <<>>, p, spec)
    BY <1>1, <1>4, <1>9, <2>1, AskedGrows
  <2>. QED
    BY <2>1, <2>2
<1>11. \A p \in restarts : Asked(asked, next, p, specs + 1)
  <2>. SUFFICES ASSUME NEW p \in restarts
                PROVE  Asked(asked, next, p, specs + 1)
    OBVIOUS
  <2>1. PICK m \in Requests : Has(started, m) /\ IsListen(m, p, specs + 1)
    BY <1>9
  <2>2. Asked(toServer \o started, next, p, specs + 1)
    BY <1>1, <1>9, <2>1, AskedNow
  <2>. QED
    BY <2>2
<1>12. CASE failed
  <2>1. t = Off(Tree, q) /\ l = ListensWithout(q) /\ restarts = Restarts(q)
    BY <1>12
  <2>2. /\ Good(t) /\ SameWrites(Tree, t) /\ t.view = [view EXCEPT ![q] = NoView]
        /\ TreeExact(Tree) => TreeExact(t)
    BY <1>1, <1>2, <1>3, <2>1, OffKeeps
  <2>. PICK x : x = [view EXCEPT ![q] = NoView]
    OBVIOUS
  <2>3. \A p \in Paths : view[p].on /\ ~view[p].serverFull /\ From(view, p) # q =>
          Asked(asked, next, From(view, p), listens[From(view, p)])
    <3>1. \A p \in Paths : view[p].on /\ ~view[p].serverFull =>
            Asked(toServer, toClient, From(view, p), listens[From(view, p)])
      BY <1>3 DEF Sources
    <3>. QED
      BY <1>7, <1>10, <3>1
  <2>4. \A p \in Restarts(q) : Asked(asked, next, p, specs + 1)
    BY <1>11, <2>1
  <2>5. Covers(ListensWithout(q), x) /\ Sources(asked, next, ListensWithout(q), x)
    BY <1>2, <2>3, <2>4, OffCovers
  <2>. QED
    BY <2>1, <2>2, <2>5
<1>13. CASE ~failed
  <2>0. l = listens
    BY <1>13
  <2>1. CASE current
    <3>1. t = ApplyListenComplete(Tree, q)
      BY <1>13, <2>1
    <3>2. /\ Kept(Tree, t) /\ SameWrites(Tree, t)
          /\ RootWhole(Tree.visible) /\ ViewsShow(Tree) => ViewsShow(t)
          /\ \A p \in Paths : Tree.view[p].on /\ q \in {Root, p} => t.view[p].serverFull
      BY <1>1, <1>2, <3>1, ApplyListenCompleteKeeps
    <3>3. TreeExact(Tree) => TreeExact(t)
      BY <1>1, <3>2, LayeredWhole, TreeIs DEF TreeExact, SameWrites, Good
    <3>4. Covers(listens, t.view)
      BY <1>3, <3>2, KeptCovers
    <3>5. \A p \in Paths : /\ t.view[p].on <=> view[p].on
                           /\ view[p].serverFull => t.view[p].serverFull
                           /\ From(t.view, p) = From(view, p)
      BY <1>1, <1>3, <3>2 DEF Kept, From
    <3>6. \A p \in Paths : t.view[p].on /\ ~t.view[p].serverFull =>
            Asked(asked, next, From(t.view, p), listens[From(t.view, p)])
      <4>. SUFFICES ASSUME NEW p \in Paths, t.view[p].on, ~t.view[p].serverFull
                    PROVE  Asked(asked, next, From(t.view, p), listens[From(t.view, p)])
        OBVIOUS
      <4>1. view[p].on /\ ~view[p].serverFull /\ From(t.view, p) = From(view, p)
        BY <3>5
      <4>2. q # Root /\ q # p
        BY <1>3, <3>2, <4>1
      <4>3. From(view, p) # q
        BY <4>2 DEF From
      <4>4. Asked(toServer, toClient, From(view, p), listens[From(view, p)])
        BY <1>3, <4>1 DEF Sources
      <4>. QED
        BY <1>7, <1>10, <4>1, <4>3, <4>4
    <3>. QED
      BY <2>0, <3>2, <3>3, <3>4, <3>6 DEF Kept, Sources
  <2>2. CASE ~current
    <3>1. t = Tree /\ SameWrites(Tree, t)
      BY <1>13, <2>2 DEF SameWrites
    <3>2. \A p \in Paths : view[p].on /\ ~view[p].serverFull =>
            Asked(asked, next, From(view, p), listens[From(view, p)])
      <4>1. \A p \in Paths : From(view, p) # q \/ listens[From(view, p)] # h.spec
        BY <2>2
      <4>. QED
        BY <1>3, <1>7, <1>10, <4>1 DEF Sources
    <3>. QED
      BY <1>1, <1>3, <2>0, <3>1, <3>2 DEF Sources
  <2>. QED
    BY <2>1, <2>2
<1>. QED
  BY <1>12, <1>13

\* ackPuts leaves the writes without an answer.
LEMMA AckPutsKeeps ==
  ASSUME Inv, NEW t, Good(t), SameWrites(Tree, t), NEW r, r = AckAll(t, heldAcks)
  PROVE  /\ Kept(t, r) /\ r.last <= lastWriteId /\ ServersStay(t, r)
         /\ Len(r.all) = Len(puts) /\ \A k \in DOMAIN puts : r.all[k] = puts[k]
         /\ TreeExact(t) /\ (\A p \in Paths : t.view[p].on => t.view[p].serverFull) => TreeExact(r)
<1>1. /\ heldAcks \in Seq(Acks) /\ DOMAIN puts = 1 .. Len(puts) /\ DOMAIN heldAcks = 1 .. Len(heldAcks)
      /\ Len(puts) \in Nat /\ Len(heldAcks) \in Nat
      /\ Len(allWrites) = Len(heldAcks) + Len(puts)
      /\ \A k \in DOMAIN heldAcks : allWrites[k].id = heldAcks[k].id
      /\ \A k \in DOMAIN puts : allWrites[Len(heldAcks) + k] = puts[k]
  BY PutsRise
<1>2. t.all = allWrites /\ t.last = lastWriteId
  BY TreeFields DEF SameWrites
<1>3. Len(heldAcks) <= Len(t.all) /\ \A k \in DOMAIN heldAcks : t.all[k].id = heldAcks[k].id
  BY <1>1, <1>2
<1>4. Rest(t, Len(heldAcks), AckAll(t, heldAcks))
  BY <1>1, <1>3, AckAllKeeps
<1>5. Rest(t, Len(heldAcks), r)
  BY <1>4
<1>. PICK n : n = Len(heldAcks)
  OBVIOUS
<1>. PICK m : m = Len(puts)
  OBVIOUS
<1>6. /\ n \in Nat /\ m \in Nat /\ Len(t.all) - n = m
      /\ \A k \in 1 .. m : t.all[n + k] = puts[k]
  <2>1. n \in Nat /\ m \in Nat /\ Len(t.all) = n + m
    BY <1>1, <1>2
  <2>2. \A k \in 1 .. m : t.all[n + k] = puts[k]
    BY <1>1, <1>2
  <2>. QED
    BY <2>1, <2>2
<1>7. Len(r.all) = m /\ \A k \in 1 .. m : r.all[k] = t.all[n + k]
  BY <1>5, <1>6 DEF Rest
<1>. QED
  BY <1>1, <1>2, <1>5, <1>6, <1>7 DEF Rest

\* The client takes the answer to a listen: the view becomes full, and the last such
\* answer lets the held acknowledgements through.
LEMMA TakeAnswerKeeps ==
  ASSUME Inv, TakeAnswer
  PROVE  Inv' /\ (TreeExact(Tree) => TreeExact(Tree'))
<1>1. /\ toClient \in Seq(Messages) /\ toServer \in Seq(Requests) /\ Good(Tree)
      /\ toClient # <<>> /\ toClient' = Tail(toClient) /\ connected \in BOOLEAN
      /\ unacked \in Nat /\ specs \in Nat /\ heldAcks \in Seq(Acks) /\ view \in [Paths -> Caches]
      /\ listens \in [Paths -> Nat] /\ \A p \in Paths : listens[p] <= specs
  BY TypesAre DEF Inv, ListenInv, Types, TakeAnswer, Take
<1>. PICK h : h = toClient[1]
  OBVIOUS
<1>2. h \in Messages /\ Head(toClient) = h /\ Tail(toClient) \in Seq(Messages)
  BY <1>1, TailAt
<1>3. h.kind = "listen" /\ h.path \in Paths
  BY <1>2 DEF TakeAnswer, Take, Messages, Acks
<1>4. connected
  BY <1>1 DEF Inv, NetInv, Lost
<1>. PICK current : current = (listens[h.path] = h.spec)
  OBVIOUS
<1>. PICK failed : failed = (current /\ ~h.ok)
  OBVIOUS
<1>. PICK t : t = IF failed THEN Off(Tree, h.path)
                  ELSE IF current THEN ApplyListenComplete(Tree, h.path) ELSE Tree
  OBVIOUS
<1>. PICK l : l = IF failed THEN ListensWithout(h.path) ELSE listens
  OBVIOUS
<1>. PICK restarts : restarts = IF failed THEN Restarts(h.path) ELSE {}
  OBVIOUS
<1>. PICK left : left = unacked + Cardinality(restarts) - 1
  OBVIOUS
<1>5. /\ listens' = l /\ specs' = IF failed THEN specs + 1 ELSE specs
      /\ unacked' = left
      /\ toServer' = toServer \o Start(restarts)
      /\ left = 0 => Becomes(AckAll(t, heldAcks)) /\ heldAcks' = <<>>
      /\ left # 0 => Becomes(t) /\ heldAcks' = heldAcks
      /\ UNCHANGED <<written, puts, connected, data, serving, remote, drops>>
  BY <1>2 DEF TakeAnswer, Off
<1>6. /\ Good(t) /\ SameWrites(Tree, t) /\ (TreeExact(Tree) => TreeExact(t))
      /\ Covers(l, t.view) /\ Sources(toServer \o Start(restarts), Tail(toClient), l, t.view)
  BY <1>1, <1>2, <1>3, <1>4, AnswerSettles
<1>7. /\ l \in [Paths -> Nat] /\ specs' \in Nat /\ \A p \in Paths : l[p] <= specs'
      /\ restarts \subseteq Paths
  BY <1>1, <1>3, <1>5, WithoutIs
<1>8. /\ Start(restarts) \in Seq(Requests) /\ \A m : Has(Start(restarts), m) => m.kind = "listen"
      /\ Cardinality(ListensIn(Start(restarts))) = Cardinality(restarts)
      /\ Cardinality(restarts) \in Nat
  BY <1>1, <1>7, StartIs
<1>9. toServer' \in Seq(Requests)
  BY <1>1, <1>5, <1>8, ConcatProperties
<1>10. /\ left = Cardinality(ListensIn(toServer')) + Cardinality(ListensIn(toClient'))
       /\ left \in Nat
       /\ Cardinality(ListensIn(toServer')) \in Nat /\ Cardinality(ListensIn(toClient')) \in Nat
  <2>1. Cardinality(ListensIn(toClient)) =
          Cardinality(ListensIn(Tail(toClient))) + (IF toClient[1].kind = "listen" THEN 1 ELSE 0)
        /\ Cardinality(ListensIn(Tail(toClient))) \in Nat
    BY ONLY <1>1, CountTail
  <2>2. Cardinality(ListensIn(toClient)) = Cardinality(ListensIn(Tail(toClient))) + 1
    BY <1>3, <2>1
  <2>3. Cardinality(ListensIn(toServer \o Start(restarts))) =
          Cardinality(ListensIn(toServer)) + Cardinality(ListensIn(Start(restarts)))
    BY ONLY <1>1, <1>8, CountConcat
  <2>4. Cardinality(ListensIn(toServer)) \in Nat
    BY <1>1, CountIs
  <2>5. unacked = Cardinality(ListensIn(toServer)) + Cardinality(ListensIn(toClient))
    BY DEF Inv, NetInv, Counted
  <2>6. toServer' = toServer \o Start(restarts) /\ toClient' = Tail(toClient)
    BY <1>1, <1>5
  <2>. PICK a : a = Cardinality(ListensIn(toServer))
    OBVIOUS
  <2>. PICK b : b = Cardinality(ListensIn(Tail(toClient)))
    OBVIOUS
  <2>. PICK c : c = Cardinality(restarts)
    OBVIOUS
  <2>7. a \in Nat /\ b \in Nat /\ c \in Nat /\ unacked = a + (b + 1)
    BY <1>8, <2>1, <2>2, <2>4, <2>5
  <2>8. left = a + c + b
    BY <2>7
  <2>9. Cardinality(ListensIn(toServer')) = a + c /\ Cardinality(ListensIn(toClient')) = b
    BY <1>8, <2>3, <2>6
  <2>. QED
    BY ONLY <2>7, <2>8, <2>9
<1>11. /\ Kept(t, Tree') /\ Queued' /\ heldAcks' \in Seq(Acks)
       /\ left = 0 => heldAcks' = <<>>
       /\ TreeExact(Tree) => TreeExact(Tree')
  <2>0. /\ lastWriteId <= written /\ lastWriteId \in Int /\ written' = written /\ written \in Int
    <3>1. lastWriteId <= written
      BY DEF Inv, NetInv, Queued
    <3>2. lastWriteId \in -1 .. MaxWrites
      BY TypesAre DEF Inv
    <3>3. written \in 0 .. MaxWrites
      BY DEF Inv, ListenInv, Types
    <3>4. written' = written
      BY <1>5
    <3>5. lastWriteId \in Int /\ written \in Int
      BY <3>2, <3>3, WritesAssumption
    <3>. QED
      BY <3>1, <3>4, <3>5
  <2>1. CASE left = 0
    <3>. PICK r : r = AckAll(t, heldAcks)
      OBVIOUS
    <3>1. /\ Kept(t, r) /\ r.last <= lastWriteId
          /\ Len(r.all) = Len(puts) /\ \A k \in DOMAIN puts : r.all[k] = puts[k]
          /\ TreeExact(t) /\ (\A p \in Paths : t.view[p].on => t.view[p].serverFull) => TreeExact(r)
      BY <1>6, AckPutsKeeps
    <3>2. r \in Trees
      BY <3>1 DEF Kept, Good
    <3>3. Tree' = r /\ heldAcks' = <<>> /\ puts' = puts
      BY <1>5, <2>1, <3>2, BecomesIs
    <3>4. \A p \in Paths : t.view[p].on => t.view[p].serverFull
      <4>1. ListensIn(toServer') = {} /\ ListensIn(toClient') = {}
        <5>1. Cardinality(ListensIn(toServer')) = 0 /\ Cardinality(ListensIn(toClient')) = 0
          BY <1>10, <2>1
        <5>2. toServer' \in Seq(Requests) /\ toClient' \in Seq(Messages)
          BY <1>1, <1>2, <1>9
        <5>. QED
          BY <5>1, <5>2, CountIs
      <4>2. \A q, spec : ~Asked(toServer', toClient', q, spec)
        BY <4>1, NotAsked
      <4>3. \A q, spec : ~Asked(toServer \o Start(restarts), Tail(toClient), q, spec)
        BY <1>1, <1>5, <4>2
      <4>. QED
        BY <1>6, <4>3 DEF Sources
    <3>5. Queued'
      <4>1. allWrites' = r.all /\ lastWriteId' = r.last
        BY <3>3, TreeFieldsNext
      <4>2. lastWriteId' <= written'
        <5>1. r.last \in Int
          BY <3>2, TreeIs, WritesAssumption
        <5>. QED
          BY ONLY <2>0, <3>1, <4>1, <5>1
      <4>3. Len(puts) \in Nat /\ \A k \in DOMAIN puts : 0 + k = k
        BY PutsRise
      <4>4. Len(heldAcks') = 0 /\ DOMAIN heldAcks' = {}
        BY <3>3, NoneSent
      <4>5. Len(allWrites') = 0 + Len(puts) /\ \A k \in DOMAIN puts : allWrites'[0 + k] = puts[k]
        <5>1. Len(allWrites') = Len(puts) /\ \A k \in DOMAIN puts : allWrites'[k] = puts[k]
          BY <3>1, <4>1
        <5>2. Len(puts) = 0 + Len(puts)
          BY <4>3
        <5>3. \A k \in DOMAIN puts : allWrites'[0 + k] = allWrites'[k]
          BY <4>3
        <5>. QED
          BY <5>1, <5>2, <5>3
      <4>. QED
        BY <3>3, <4>2, <4>4, <4>5 DEF Queued
    <3>6. Kept(t, Tree') /\ (TreeExact(Tree) => TreeExact(Tree'))
      BY <1>6, <3>1, <3>3, <3>4
    <3>7. heldAcks' \in Seq(Acks)
      BY <3>3, NoneSent
    <3>. QED
      BY <3>3, <3>5, <3>6, <3>7
  <2>2. CASE left # 0
    <3>1. t \in Trees
      BY <1>6 DEF Good
    <3>2. Tree' = t /\ heldAcks' = heldAcks /\ puts' = puts
      BY <1>5, <2>2, <3>1, BecomesIs
    <3>3. allWrites' = allWrites /\ lastWriteId' = lastWriteId
      BY <1>6, <3>2, TreeFields, TreeFieldsNext DEF SameWrites
    <3>4. Queued'
      BY <2>0, <3>2, <3>3 DEF Inv, NetInv, Queued
    <3>5. Kept(t, t)
      BY <1>6 DEF Kept
    <3>. QED
      BY <1>1, <1>6, <2>2, <3>2, <3>4, <3>5
  <2>. QED
    BY <2>1, <2>2
<1>12. ListensCover' /\ Sourced'
  <2>. PICK x : x = Tree'
    OBVIOUS
  <2>0. Kept(t, x)
    BY <1>11
  <2>. PICK asked : asked = toServer \o Start(restarts)
    OBVIOUS
  <2>. PICK next : next = Tail(toClient)
    OBVIOUS
  <2>1. Covers(l, t.view) /\ Sources(asked, next, l, t.view)
    BY <1>6
  <2>2. Covers(l, x.view) /\ Sources(asked, next, l, x.view)
    BY ONLY <2>0, <2>1, KeptCovers
  <2>3. listens' = l /\ toServer' = asked /\ toClient' = next /\ view' = x.view
    BY <1>1, <1>5, TreeFieldsNext
  <2>4. Covers(listens', view') /\ Sources(toServer', toClient', listens', view')
    BY <2>2, <2>3
  <2>. QED
    BY <2>4, CoversNext
<1>13. InFlight'
  <2>1. Flight(toServer, toClient, puts, connected)
    BY DEF Inv, NetInv, InFlight
  <2>2. Flight(toServer, Tail(toClient), puts, connected)
    <3>1. ~IsAck(toClient[1])
      BY <1>3 DEF IsAck
    <3>. QED
      BY <1>1, <2>1, <3>1, FlightTakenOther
  <2>3. \A m : Has(Start(restarts), m) => ~IsPut(m)
    BY <1>8 DEF IsPut
  <2>4. Flight(toServer \o Start(restarts), Tail(toClient), puts, connected)
    BY <1>1, <1>8, <2>2, <2>3, FlightListens
  <2>. QED
    BY <1>1, <1>5, <2>4 DEF InFlight
<1>14. Lost' /\ Counted' /\ HeldAlone' /\ NeverLost'
  <2>1. Lost' /\ Counted'
    BY <1>4, <1>5, <1>10 DEF Lost, Counted
  <2>2. connected' = connected /\ (unacked' = 0 => heldAcks' = <<>>)
    BY <1>5, <1>11
  <2>. QED
    BY <1>4, <2>1, <2>2 DEF HeldAlone, NeverLost
<1>15. Good(Tree') /\ \A p \in Paths : listens'[p] <= specs'
  BY <1>5, <1>7, <1>11 DEF Kept
<1>16. Types'
  <2>1. Tree' \in Trees
    BY <1>15 DEF Good
  <2>. QED
    BY <1>1, <1>2, <1>5, <1>7, <1>9, <1>10, <1>11, <2>1 DEF Inv, ListenInv, Types
<1>. QED
  BY <1>11, <1>12, <1>13, <1>14, <1>15, <1>16 DEF Inv, ListenInv, NetInv

\* What a client that is connected sends, and one that is not does not.
LEMMA SendIs ==
  ASSUME Inv, NEW r \in Seq(Requests), Send(r),
         connected' = connected, toClient' = toClient, serving' = serving
  PROVE  /\ toServer' \in Seq(Requests) /\ unacked' \in Nat /\ Lost' /\ Counted'
         /\ connected => /\ toServer' = toServer \o r
                         /\ unacked' = unacked + Cardinality(ListensIn(r))
                         /\ unacked <= unacked'
         /\ ~connected => toServer' = <<>> /\ toClient = <<>> /\ serving = {}
         /\ \A q, spec : Asked(toServer, toClient, q, spec) => Asked(toServer', toClient', q, spec)
<1>1. /\ toServer \in Seq(Requests) /\ toClient \in Seq(Messages) /\ unacked \in Nat
      /\ connected \in BOOLEAN
  BY DEF Inv, ListenInv, Types
<1>2. Lost /\ Counted
  BY DEF Inv, NetInv
<1>3. CASE connected
  <2>. PICK sent : sent = toServer \o r
    OBVIOUS
  <2>1. toServer' = sent /\ unacked' = unacked + Cardinality(ListensIn(r))
    BY <1>3 DEF Send
  <2>2. /\ sent \in Seq(Requests)
        /\ Cardinality(ListensIn(sent)) = Cardinality(ListensIn(toServer)) + Cardinality(ListensIn(r))
    BY <1>1, CountConcat, ConcatProperties
  <2>3. Cardinality(ListensIn(r)) \in Nat /\ Cardinality(ListensIn(toServer)) \in Nat
        /\ Cardinality(ListensIn(toClient)) \in Nat
    BY <1>1, CountIs
  <2>4. unacked = Cardinality(ListensIn(toServer)) + Cardinality(ListensIn(toClient))
    BY <1>2 DEF Counted
  <2>5. Counted'
    BY <2>1, <2>2, <2>3, <2>4 DEF Counted
  <2>6. \A q, spec : Asked(toServer, toClient, q, spec) => Asked(sent, toClient, q, spec)
    <3>. SUFFICES ASSUME NEW q, NEW spec, Asked(toServer, toClient, q, spec)
                  PROVE  Asked(sent, toClient, q, spec)
      OBVIOUS
    <3>1. <<>> \in Seq(Messages) /\ toClient \o <<>> = toClient
      BY <1>1, NoneSent, ConcatEmptySeq
    <3>2. Asked(toServer \o r, toClient \o <<>>, q, spec)
      BY <1>1, <3>1, AskedGrows
    <3>. QED
      BY <3>1, <3>2
  <2>7. unacked' \in Nat /\ unacked <= unacked'
    BY <1>1, <2>1, <2>3
  <2>. QED
    BY <1>3, <2>1, <2>2, <2>5, <2>6, <2>7 DEF Lost
<1>4. CASE ~connected
  <2>1. toServer' = toServer /\ unacked' = unacked
    BY <1>4 DEF Send
  <2>2. toServer = <<>> /\ toClient = <<>> /\ unacked = 0 /\ serving = {}
    BY <1>2, <1>4 DEF Lost
  <2>3. Counted'
    BY <1>2, <2>1 DEF Counted
  <2>4. Lost'
    BY <2>1, <2>2, NoneSent DEF Lost
  <2>. QED
    BY <1>1, <1>4, <2>1, <2>2, <2>3, <2>4
<1>. QED
  BY <1>3, <1>4
\* An observer removed leaves every view with one source.
LEMMA RemoveObserverKeeps ==
  ASSUME Inv, NEW p \in Paths, RemoveObserver(p)
  PROVE  Inv' /\ (TreeExact(Tree) => TreeExact(Tree'))
<1>1. /\ toClient \in Seq(Messages) /\ toServer \in Seq(Requests) /\ Good(Tree)
      /\ specs \in Nat /\ view \in [Paths -> Caches] /\ connected \in BOOLEAN /\ unacked \in Nat
      /\ listens \in [Paths -> Nat] /\ \A q \in Paths : listens[q] <= specs
  BY TypesAre DEF Inv, ListenInv, Types
<1>. PICK x : x = [view EXCEPT ![p] = NoView]
  OBVIOUS
<1>2. /\ view' = x /\ told' = [told EXCEPT ![p] = Empty]
      /\ UNCHANGED <<allWrites, visibleWrites, lastWriteId, rows>>
      /\ UNCHANGED <<written, puts, heldAcks, connected, toClient, data, serving, remote, drops>>
  BY DEF RemoveObserver
<1>3. /\ Good(Tree') /\ (TreeExact(Tree) => TreeExact(Tree'))
  <2>. PICK r : r = Off(Tree, p)
    OBVIOUS
  <2>1. Tree' = r
    BY <1>2 DEF Off, Tree
  <2>2. Good(r) /\ (TreeExact(Tree) => TreeExact(r))
    BY <1>1, OffKeeps
  <2>. QED
    BY <2>1, <2>2
<1>4. /\ listens' \in [Paths -> Nat] /\ specs' \in Nat /\ (\A q \in Paths : listens'[q] <= specs')
      /\ toServer' \in Seq(Requests) /\ unacked' \in Nat
      /\ ListensCover' /\ Sourced' /\ Lost' /\ Counted' /\ InFlight' /\ HeldAlone' /\ NeverLost'
  <2>1. CASE p # Root /\ On(Root)
    <3>1. UNCHANGED <<listens, specs, toServer, unacked>>
      BY <2>1 DEF RemoveObserver
    <3>2. ListensCover' /\ Sourced'
      <4>1. /\ Covers(listens, x)
            /\ Sources(toServer, toClient, listens, view) => Sources(toServer, toClient, listens, x)
        BY <2>1, OffCovers DEF On
      <4>2. connected => Sources(toServer, toClient, listens, view)
        BY CoversIs DEF Inv, NetInv
      <4>3. Covers(listens', view') /\ (connected' => Sources(toServer', toClient', listens', view'))
        BY <1>2, <3>1, <4>1, <4>2
      <4>. QED
        BY <4>3, CoversNext
    <3>3. Lost' /\ Counted' /\ InFlight' /\ HeldAlone' /\ NeverLost'
      BY <1>2, <3>1 DEF Inv, NetInv, Lost, Counted, InFlight, HeldAlone, NeverLost
    <3>. QED
      BY <1>1, <3>1, <3>2, <3>3
  <2>2. CASE ~(p # Root /\ On(Root))
    <3>. PICK again : again = Restarts(p)
      OBVIOUS
    <3>. PICK r : r = Start(again) \o Stop({p})
      OBVIOUS
    <3>1. specs' = specs + 1 /\ listens' = ListensWithout(p) /\ Send(r)
      BY <2>2 DEF RemoveObserver
    <3>2. /\ ListensWithout(p) \in [Paths -> Nat] /\ specs + 1 \in Nat /\ again \subseteq Paths
          /\ \A q \in Paths : ListensWithout(p)[q] <= specs + 1
          /\ (\A q \in Paths : listens[q] = 0) => \A q \in Paths : ListensWithout(p)[q] = 0
      BY WithoutIs
    <3>3. /\ Start(again) \in Seq(Requests) /\ \A m : Has(Start(again), m) => m.kind = "listen"
          /\ \A q \in again : \E m \in Requests : Has(Start(again), m) /\ IsListen(m, q, specs + 1)
      BY <1>1, <3>2, StartIs
    <3>4. Stop({p}) \in Seq(Requests) /\ \A m : Has(Stop({p}), m) => m.kind = "unlisten"
      BY StopIs
    <3>5. r \in Seq(Requests) /\ \A m : Has(r, m) <=> Has(Start(again), m) \/ Has(Stop({p}), m)
      BY <3>3, <3>4, HasConcat, ConcatProperties
    <3>6. /\ toServer' \in Seq(Requests) /\ unacked' \in Nat /\ Lost' /\ Counted'
          /\ connected => toServer' = toServer \o r /\ unacked <= unacked'
          /\ ~connected => toServer' = <<>> /\ toClient = <<>>
          /\ \A q, spec : Asked(toServer, toClient, q, spec) => Asked(toServer', toClient', q, spec)
      BY <1>2, <3>1, <3>5, SendIs
    <3>7. ListensCover' /\ Sourced'
      <4>1. ASSUME connected
            PROVE  Sources(toServer', toClient', ListensWithout(p), x)
        <5>1. \A q \in Paths : view[q].on /\ ~view[q].serverFull /\ From(view, q) # p =>
                Asked(toServer', toClient', From(view, q), listens[From(view, q)])
          <6>1. Sources(toServer, toClient, listens, view)
            BY <4>1, CoversIs DEF Inv, NetInv
          <6>. QED
            BY <3>6, <6>1 DEF Sources
        <5>2. \A q \in Restarts(p) : Asked(toServer', toClient', q, specs + 1)
          <6>. SUFFICES ASSUME NEW q \in again
                        PROVE  Asked(toServer', toClient', q, specs + 1)
            OBVIOUS
          <6>1. PICK m \in Requests : Has(r, m) /\ IsListen(m, q, specs + 1)
            BY <3>3, <3>5
          <6>2. Asked(toServer \o r, toClient, q, specs + 1)
            BY <1>1, <3>5, <6>1, AskedNow
          <6>. QED
            BY <1>2, <3>6, <4>1, <6>2
        <5>. PICK s : s = toServer'
          OBVIOUS
        <5>. PICK c : c = toClient'
          OBVIOUS
        <5>3. Sources(s, c, ListensWithout(p), x)
          BY <5>1, <5>2, OffCovers
        <5>. QED
          BY <5>3
      <4>2. Covers(ListensWithout(p), x)
        BY OffCovers
      <4>3. Covers(listens', view') /\ (connected' => Sources(toServer', toClient', listens', view'))
        BY <1>2, <3>1, <4>1, <4>2
      <4>. QED
        BY <4>3, CoversNext
    <3>8. InFlight'
      <4>1. \A m : Has(r, m) => ~IsPut(m)
        BY <3>3, <3>4, <3>5 DEF IsPut
      <4>2. Flight(toServer, toClient, puts, connected)
        BY DEF Inv, NetInv, InFlight
      <4>3. Flight(toServer \o r, toClient, puts, connected)
        BY <1>1, <3>5, <4>1, <4>2, FlightListens
      <4>4. CASE connected
        BY <1>2, <3>6, <4>3, <4>4 DEF InFlight
      <4>5. CASE ~connected
        <5>1. toServer = <<>>
          BY <4>5 DEF Inv, NetInv, Lost
        <5>2. toServer' = toServer
          BY <3>6, <4>5, <5>1
        <5>. QED
          BY <1>2, <4>2, <5>2 DEF InFlight
      <4>. QED
        BY <4>4, <4>5
    <3>9. HeldAlone' /\ NeverLost'
      <4>1. connected /\ unacked' = 0 => unacked = 0
        BY <1>1, <3>6
      <4>2. NeverLost'
        BY <1>2, <4>1 DEF Inv, NetInv, NeverLost
      <4>3. HeldAlone'
        BY <1>2, <3>1, <3>2, <4>1 DEF Inv, NetInv, HeldAlone
      <4>. QED
        BY <4>2, <4>3
    <3>. QED
      BY <3>1, <3>2, <3>6, <3>7, <3>8, <3>9
  <2>. QED
    BY <2>1, <2>2
<1>5. Queued'
  BY <1>2 DEF Inv, NetInv, Queued
<1>6. Types'
  <2>1. Tree' \in Trees
    BY <1>3 DEF Good
  <2>. QED
    BY <1>2, <1>4, <2>1 DEF Inv, ListenInv, Types
<1>. QED
  BY <1>3, <1>4, <1>5, <1>6 DEF Inv, ListenInv, NetInv

\* A new view shows the pending writes over what the tree has from the server.
LEMMA NewViewIs ==
  ASSUME ListenInv, NEW p \in Paths, NEW v, v = NewView(p)
  PROVE  /\ v \in Caches /\ v.on /\ Shows(v, visibleWrites, p)
         /\ p # Root /\ On(Root) => v.serverFull = view[Root].serverFull
<1>1. view \in [Paths -> Caches] /\ visibleWrites \in Compounds /\ Root \in Paths
  BY TypesAre
<1>2. Children \subseteq Paths /\ Root \notin Children
  BY WritesAssumption DEF Paths
<1>. PICK cache : cache = ServerCacheFor(p)
  OBVIOUS
<1>3. /\ cache.node \in Node /\ cache.full \in BOOLEAN
      /\ \A c \in Children \ Below(p) : cache.node[c] = None
      /\ p # Root /\ On(Root) => cache.full = view[Root].serverFull
  <2>1. CASE p # Root /\ On(Root) /\ view[Root].serverFull
    <3>1. cache = [node |-> Only(p, view[Root].server), full |-> TRUE]
      BY <2>1 DEF ServerCacheFor
    <3>2. view[Root].server \in Node /\ view[Root].serverFull = TRUE
      BY <1>1, <2>1 DEF Caches
    <3>. PICK node : node = Only(p, view[Root].server)
      OBVIOUS
    <3>3. node \in Node /\ \A c \in Children \ Below(p) : node[c] = None
      BY <3>2, OnlyIs
    <3>4. cache.node = node /\ cache.full = TRUE
      BY <3>1
    <3>. QED
      BY <3>2, <3>3, <3>4
  <2>2. CASE ~(p # Root /\ On(Root) /\ view[Root].serverFull) /\ p = Root
    <3>1. cache = [node |-> [c \in Children |-> view[c].server[c]], full |-> FALSE]
      BY <2>2 DEF ServerCacheFor
    <3>2. \A c \in Children : view[c].server[c] \in Values
      BY <1>1, <1>2 DEF Caches, Node
    <3>3. Below(p) = Children
      BY <2>2 DEF Below
    <3>4. cache.node \in Node /\ cache.full = FALSE
      BY <3>1, <3>2 DEF Node
    <3>. QED
      BY <2>2, <3>3, <3>4
  <2>3. CASE ~(p # Root /\ On(Root) /\ view[Root].serverFull) /\ p # Root
    <3>1. cache = [node |-> Empty, full |-> FALSE]
      BY <2>3 DEF ServerCacheFor
    <3>2. Empty \in Node /\ \A c \in Children : Empty[c] = None
      BY DEF Empty, Node, Values
    <3>3. view[Root].serverFull \in BOOLEAN
      BY <1>1 DEF Caches
    <3>4. On(Root) => view[Root].serverFull = FALSE
      BY <2>3, <3>3
    <3>5. cache.node = Empty /\ cache.full = FALSE
      BY <3>1
    <3>. QED
      BY <2>3, <3>2, <3>4, <3>5
  <2>. QED
    BY <2>1, <2>2, <2>3
<1>. PICK w : w = visibleWrites
  OBVIOUS
<1>. PICK event : event = WithWrites(w, p, cache.node)
  OBVIOUS
<1>. PICK full : full = (cache.full \/ Shadowing(w, p))
  OBVIOUS
<1>4. event \in Node /\ full \in BOOLEAN
  BY <1>1, <1>3, WithWritesIs
<1>5. v = [server |-> cache.node, serverFull |-> cache.full, event |-> event, eventFull |-> full, on |-> TRUE]
  BY DEF NewView
<1>6. v \in Caches
  BY <1>3, <1>4, <1>5 DEF Caches
<1>7. Shows(v, w, p)
  <2>1. /\ v.server = cache.node /\ v.serverFull = cache.full /\ v.event = event
        /\ v.eventFull = full /\ v.on = TRUE
    BY <1>5
  <2>2. v.event = WithWrites(w, p, v.server)
    BY <2>1
  <2>3. v.serverFull \/ Shadowing(w, p) => v.eventFull
    BY <2>1
  <2>4. v.on /\ \A c \in Children \ Below(p) : v.server[c] = None
    BY <1>3, <2>1
  <2>. QED
    BY ONLY <2>2, <2>3, <2>4 DEF Shows
<1>. QED
  BY <1>3, <1>5, <1>6, <1>7

\* A view added to the tree is told what it shows, and shows the cached data under
\* the pending writes.
LEMMA AddedKeeps ==
  ASSUME ListenInv, NEW p \in Paths, AddObserver(p)
  PROVE  /\ Good(Tree') /\ (TreeExact(Tree) => TreeExact(Tree'))
         /\ view' = [view EXCEPT ![p] = NewView(p)]
<1>. PICK v : v = NewView(p)
  OBVIOUS
<1>1. /\ v \in Caches /\ v.on /\ Shows(v, visibleWrites, p)
  BY NewViewIs
<1>2. /\ Tree \in Trees /\ Good(Tree) /\ Root \in Paths
      /\ view \in [Paths -> Caches] /\ told \in [Paths -> Node] /\ rows \in [Children -> Nat]
  BY TypesAre
<1>3. v.event \in Node /\ Empty \in Node /\ v.eventFull \in BOOLEAN
  BY <1>1 DEF Caches, Empty, Node, Values
<1>4. /\ view' = [view EXCEPT ![p] = v]
      /\ told' = [told EXCEPT ![p] = IF v.eventFull THEN v.event ELSE Empty]
      /\ rows' = IF p = Root THEN [c \in Children |-> IF v.event[c] # None THEN 1 ELSE 0] ELSE rows
      /\ UNCHANGED <<allWrites, visibleWrites, lastWriteId>>
  BY DEF AddObserver
<1>. PICK r : r = Tree'
  OBVIOUS
<1>5. /\ r.view = [view EXCEPT ![p] = v] /\ r.told = told' /\ r.rows = rows'
      /\ r.all = Tree.all /\ r.visible = Tree.visible /\ r.last = Tree.last
  BY <1>4, TreeFields, TreeFieldsNext
<1>6. \A q \in Paths : /\ q = p => r.view[q] = v /\ (v.eventFull => r.told[q] = v.event)
                       /\ q # p => r.view[q] = view[q] /\ r.told[q] = told[q]
  BY <1>2, <1>4, <1>5
<1>7. r \in Trees
  <2>1. view' \in [Paths -> Caches] /\ told' \in [Paths -> Node]
    BY <1>1, <1>2, <1>3, <1>4
  <2>2. rows' \in [Children -> Nat]
    BY <1>2, <1>4
  <2>3. /\ allWrites \in Seq(Records) /\ visibleWrites \in Compounds /\ lastWriteId \in -1 .. MaxWrites
    BY TypesAre
  <2>. QED
    BY <1>4, <2>1, <2>2, <2>3 DEF Tree, Trees
<1>8. Ordered(r)
  BY <1>2, <1>5 DEF Good, Ordered
<1>9. OffIsNothing(r)
  BY <1>1, <1>2, <1>6, TreeFields DEF Good, OffIsNothing
<1>10. Told(r)
  <2>1. \A q \in Paths : r.view[q].eventFull => r.told[q] = r.view[q].event
    BY <1>2, <1>6, TreeFields DEF Good, Told
  <2>2. \A c \in Children : r.view[Root].on /\ r.view[Root].event[c] # None => r.rows[c] >= 1
    <3>1. CASE p = Root
      BY <1>2, <1>4, <1>5, <1>6, <3>1
    <3>2. CASE p # Root
      BY <1>2, <1>4, <1>5, <1>6, <3>2, TreeFields DEF Good, Told
    <3>. QED
      BY <3>1, <3>2
  <2>. QED
    BY <2>1, <2>2 DEF Told
<1>11. TreeExact(Tree) => TreeExact(r)
  <2>1. \A q \in Paths : Shows(Tree.view[q], Tree.visible, q) => Shows(r.view[q], r.visible, q)
    BY <1>1, <1>5, <1>6, TreeFields
  <2>. QED
    BY <1>5, <2>1 DEF TreeExact, ViewsShow
<1>. QED
  BY <1>4, <1>7, <1>8, <1>9, <1>10, <1>11 DEF Good

\* A view below one that is on has the source of that one.
LEMMA CoveredSources ==
  ASSUME Inv, NEW p \in Paths, p # Root, On(Root), NEW v, v.on, v.serverFull = view[Root].serverFull,
         NEW x, x = [view EXCEPT ![p] = v], NEW s, NEW c
  PROVE  /\ Covers(listens, x)
         /\ Sources(s, c, listens, view) => Sources(s, c, listens, x)
<1>1. view \in [Paths -> Caches] /\ Root \in Paths
  BY TypesAre DEF Inv
<1>2. \A q \in Paths : /\ q = p => x[q] = v
                       /\ q # p => x[q] = view[q]
  BY <1>1
<1>3. x[Root] = view[Root] /\ view[Root].on
  BY <1>1, <1>2 DEF On
<1>4. \A q \in Paths : listens[q] # 0 <=> view[q].on /\ (q = Root \/ ~view[Root].on)
  BY DEF Inv, ListenInv, ListensCover, On
<1>5. Covers(listens, x)
  BY <1>2, <1>3, <1>4 DEF Covers
<1>6. ASSUME Sources(s, c, listens, view)
      PROVE  Sources(s, c, listens, x)
  <2>1. \A q \in Paths : From(x, q) = Root /\ From(view, q) = Root
    BY <1>3 DEF From
  <2>. SUFFICES ASSUME NEW q \in Paths, x[q].on, ~x[q].serverFull
                PROVE  Asked(s, c, From(x, q), listens[From(x, q)])
    BY DEF Sources
  <2>2. \E o \in Paths : view[o].on /\ ~view[o].serverFull
    BY <1>1, <1>2, <1>3
  <2>3. Asked(s, c, Root, listens[Root])
    BY <1>6, <2>1, <2>2 DEF Sources
  <2>. QED
    BY <2>1, <2>3
<1>. QED
  BY <1>5, <1>6

\* A view that is listened to itself, the listens below it stopped.
LEMMA ListenedSources ==
  ASSUME Inv, NEW p \in Paths, ~(p # Root /\ On(Root)), ~On(p), NEW v, v.on,
         NEW x, x = [view EXCEPT ![p] = v], NEW s, NEW c,
         NEW l, l = [q \in Paths |-> IF q = p THEN specs + 1 ELSE IF q \in Stops(p) THEN 0 ELSE listens[q]]
  PROVE  /\ Covers(l, x) /\ l \in [Paths -> Nat] /\ \A q \in Paths : l[q] <= specs + 1
         /\ Sources(s, c, listens, view) /\ Asked(s, c, p, specs + 1) => Sources(s, c, l, x)
<1>1. /\ view \in [Paths -> Caches] /\ Root \in Paths
      /\ listens \in [Paths -> Nat] /\ specs \in Nat /\ \A q \in Paths : listens[q] <= specs
  BY TypesAre DEF Inv, ListenInv, Types
<1>2. \A q \in Paths : /\ q = p => x[q] = v
                       /\ q # p => x[q] = view[q]
  BY <1>1
<1>3. \A q \in Paths : listens[q] # 0 <=> view[q].on /\ (q = Root \/ ~view[Root].on)
  BY DEF Inv, ListenInv, ListensCover, On
<1>4. l \in [Paths -> Nat] /\ \A q \in Paths : l[q] <= specs + 1
  BY <1>1
<1>5. \A q \in Paths : l[q] = IF q = p THEN specs + 1
                              ELSE IF p = Root /\ q \in Children /\ view[q].on THEN 0 ELSE listens[q]
  BY DEF Stops, ChildrenOn, On
<1>6. ~view[Root].on /\ ~view[p].on
  BY DEF On
<1>7. Covers(l, x)
  <2>1. CASE p = Root
    <3>1. x[Root].on
      BY <1>1, <1>2, <2>1
    <3>2. \A q \in Paths : q # Root => l[q] = 0
      BY <1>3, <1>5, <2>1 DEF Paths
    <3>3. l[Root] # 0
      BY <1>1, <1>5, <2>1
    <3>. QED
      BY <3>1, <3>2, <3>3 DEF Covers
  <2>2. CASE p # Root
    <3>1. ~x[Root].on /\ x[p].on /\ l[p] # 0
      BY <1>1, <1>2, <1>5, <1>6, <2>2
    <3>2. \A q \in Paths : q # p => (l[q] # 0 <=> x[q].on)
      BY <1>2, <1>3, <1>5, <1>6, <2>2
    <3>. QED
      BY <3>1, <3>2 DEF Covers
  <2>. QED
    BY <2>1, <2>2
<1>8. ASSUME Sources(s, c, listens, view), Asked(s, c, p, specs + 1)
      PROVE  Sources(s, c, l, x)
  <2>. SUFFICES ASSUME NEW q \in Paths, x[q].on, ~x[q].serverFull
                PROVE  Asked(s, c, From(x, q), l[From(x, q)])
    BY DEF Sources
  <2>1. l[p] = specs + 1
    BY <1>5
  <2>2. CASE p = Root \/ q = p
    <3>1. From(x, q) = p
      BY <1>1, <1>2, <1>6, <2>2 DEF From
    <3>. QED
      BY <1>8, <2>1, <3>1
  <2>3. CASE ~(p = Root \/ q = p)
    <3>1. From(x, q) = q /\ From(view, q) = q /\ l[q] = listens[q] /\ view[q].on /\ ~view[q].serverFull
      BY <1>1, <1>2, <1>5, <1>6, <2>3 DEF From
    <3>2. Asked(s, c, From(view, q), listens[From(view, q)])
      BY <1>8, <3>1 DEF Sources
    <3>. QED
      BY <3>1, <3>2
  <2>. QED
    BY <2>2, <2>3
<1>. QED
  BY <1>4, <1>7, <1>8

\* An observer added: its view has a source, an earlier one above it or a listen of
\* its own that stops those below (addEventRegistration: in FSyncTree).
LEMMA AddObserverKeeps ==
  ASSUME Inv, NEW p \in Paths, AddObserver(p)
  PROVE  Inv' /\ (TreeExact(Tree) => TreeExact(Tree'))
<1>. PICK v : v = NewView(p)
  OBVIOUS
<1>. PICK x : x = [view EXCEPT ![p] = v]
  OBVIOUS
<1>1. /\ toClient \in Seq(Messages) /\ toServer \in Seq(Requests)
      /\ specs \in Nat /\ connected \in BOOLEAN /\ unacked \in Nat
      /\ listens \in [Paths -> Nat] /\ \A q \in Paths : listens[q] <= specs
  BY DEF Inv, ListenInv, Types
<1>2. /\ Good(Tree') /\ (TreeExact(Tree) => TreeExact(Tree'))
      /\ view' = x
  BY AddedKeeps DEF Inv
<1>3. /\ v \in Caches /\ v.on
      /\ p # Root /\ On(Root) => v.serverFull = view[Root].serverFull
  BY NewViewIs DEF Inv
<1>4. /\ ~On(p)
      /\ UNCHANGED <<allWrites, visibleWrites, lastWriteId, written, puts, heldAcks, connected,
                     toClient, data, serving, remote, drops>>
  BY DEF AddObserver
<1>5. /\ listens' \in [Paths -> Nat] /\ specs' \in Nat /\ (\A q \in Paths : listens'[q] <= specs')
      /\ toServer' \in Seq(Requests) /\ unacked' \in Nat
      /\ ListensCover' /\ Sourced' /\ Lost' /\ Counted' /\ InFlight' /\ HeldAlone' /\ NeverLost'
  <2>1. CASE p # Root /\ On(Root)
    <3>1. UNCHANGED <<listens, specs, toServer, unacked>>
      BY <2>1 DEF AddObserver
    <3>2. ListensCover' /\ Sourced'
      <4>1. /\ Covers(listens, x)
            /\ Sources(toServer, toClient, listens, view) => Sources(toServer, toClient, listens, x)
        BY <1>3, <2>1, CoveredSources
      <4>2. connected => Sources(toServer, toClient, listens, view)
        BY CoversIs DEF Inv, NetInv
      <4>3. Covers(listens', view') /\ (connected' => Sources(toServer', toClient', listens', view'))
        BY <1>2, <1>4, <3>1, <4>1, <4>2
      <4>. QED
        BY <4>3, CoversNext
    <3>3. Lost' /\ Counted' /\ InFlight' /\ HeldAlone' /\ NeverLost'
      BY <1>4, <3>1 DEF Inv, NetInv, Lost, Counted, InFlight, HeldAlone, NeverLost
    <3>. QED
      BY <1>1, <3>1, <3>2, <3>3
  <2>2. CASE ~(p # Root /\ On(Root))
    <3>. PICK m : m = ListenRequest(p, specs + 1, v.server)
      OBVIOUS
    <3>. PICK stop : stop = Stop(Stops(p))
      OBVIOUS
    <3>. PICK r : r = <<m>> \o stop
      OBVIOUS
    <3>. PICK l : l = [q \in Paths |-> IF q = p THEN specs + 1 ELSE IF q \in Stops(p) THEN 0 ELSE listens[q]]
      OBVIOUS
    <3>1. specs' = specs + 1 /\ listens' = l /\ Send(r)
      BY <2>2 DEF AddObserver
    <3>2. m \in Requests /\ IsListen(m, p, specs + 1) /\ m.kind = "listen" /\ <<m>> \in Seq(Requests)
      <4>1. v.server \in Node /\ specs + 1 \in Nat
        BY <1>1, <1>3 DEF Caches
      <4>. QED
        BY <4>1 DEF ListenRequest, Requests, IsListen
    <3>3. stop \in Seq(Requests) /\ ListensIn(stop) = {} /\ \A n : Has(stop, n) => n.kind = "unlisten"
      <4>1. Stops(p) \subseteq Paths
        BY DEF Stops, ChildrenOn, Paths
      <4>. QED
        BY <4>1, StopIs
    <3>4. r \in Seq(Requests) /\ \A n : Has(r, n) <=> n = m \/ Has(stop, n)
      <4>1. \A n : Has(<<m>>, n) <=> n = m
        BY HasOne
      <4>2. \A n : Has(r, n) <=> Has(<<m>>, n) \/ Has(stop, n)
        BY <3>2, <3>3, HasConcat
      <4>3. r \in Seq(Requests)
        BY <3>2, <3>3, ConcatProperties
      <4>. QED
        BY <4>1, <4>2, <4>3
    <3>5. Cardinality(ListensIn(r)) = 1
      <4>1. Cardinality(ListensIn(<<m>>)) = 1
        BY <3>2, CountOne
      <4>2. Cardinality(ListensIn(stop)) = 0
        BY <3>3, FS_EmptySet
      <4>3. Cardinality(ListensIn(r)) = Cardinality(ListensIn(<<m>>)) + Cardinality(ListensIn(stop))
        BY <3>2, <3>3, CountConcat
      <4>. QED
        BY <4>1, <4>2, <4>3
    <3>6. /\ toServer' \in Seq(Requests) /\ unacked' \in Nat /\ Lost' /\ Counted'
          /\ connected => toServer' = toServer \o r /\ unacked' = unacked + Cardinality(ListensIn(r))
          /\ ~connected => toServer' = <<>> /\ toClient = <<>>
          /\ \A q, spec : Asked(toServer, toClient, q, spec) => Asked(toServer', toClient', q, spec)
      BY <1>4, <3>1, <3>4, SendIs
    <3>7. connected => unacked' # 0
      BY <1>1, <3>5, <3>6
    <3>. PICK s : s = toServer'
      OBVIOUS
    <3>. PICK c : c = toClient'
      OBVIOUS
    <3>8. /\ Covers(l, x) /\ l \in [Paths -> Nat] /\ \A q \in Paths : l[q] <= specs + 1
          /\ Sources(s, c, listens, view) /\ Asked(s, c, p, specs + 1) => Sources(s, c, l, x)
      BY <1>3, <1>4, <2>2, ListenedSources
    <3>9. connected => Sources(s, c, l, x)
      <4>. SUFFICES ASSUME connected
                    PROVE  Sources(s, c, l, x)
        OBVIOUS
      <4>1. Sources(s, c, listens, view)
        <5>1. Sources(toServer, toClient, listens, view)
          BY CoversIs DEF Inv, NetInv
        <5>. QED
          BY <3>6, <5>1 DEF Sources
      <4>2. Asked(s, c, p, specs + 1)
        <5>1. Has(r, m)
          BY <3>4
        <5>2. Asked(toServer \o r, toClient, p, specs + 1)
          BY <1>1, <3>2, <3>4, <5>1, AskedNow
        <5>. QED
          BY <1>4, <3>6, <5>2
      <4>. QED
        BY <3>8, <4>1, <4>2
    <3>10. ListensCover' /\ Sourced'
      <4>1. Covers(listens', view') /\ (connected' => Sources(toServer', toClient', listens', view'))
        BY <1>2, <1>4, <3>1, <3>8, <3>9
      <4>. QED
        BY <4>1, CoversNext
    <3>11. InFlight'
      <4>1. \A n : Has(r, n) => ~IsPut(n)
        BY <3>2, <3>3, <3>4 DEF IsPut
      <4>2. Flight(toServer, toClient, puts, connected)
        BY DEF Inv, NetInv, InFlight
      <4>3. Flight(toServer \o r, toClient, puts, connected)
        BY <1>1, <3>4, <4>1, <4>2, FlightListens
      <4>4. CASE connected
        BY <1>4, <3>6, <4>3, <4>4 DEF InFlight
      <4>5. CASE ~connected
        <5>1. toServer = <<>>
          BY <4>5 DEF Inv, NetInv, Lost
        <5>2. toServer' = toServer
          BY <3>6, <4>5, <5>1
        <5>. QED
          BY <1>4, <4>2, <5>2 DEF InFlight
      <4>. QED
        BY <4>4, <4>5
    <3>12. HeldAlone' /\ NeverLost'
      <4>1. connected' = connected
        BY <1>4
      <4>2. NeverLost'
        BY <3>7, <4>1 DEF Inv, NetInv, NeverLost
      <4>3. HeldAlone'
        BY <3>7, <4>1 DEF HeldAlone
      <4>. QED
        BY <4>2, <4>3
    <3>. QED
      BY <1>1, <3>1, <3>6, <3>8, <3>10, <3>11, <3>12
  <2>. QED
    BY <2>1, <2>2
<1>6. Queued'
  BY <1>4 DEF Inv, NetInv, Queued
<1>7. Types'
  <2>1. Tree' \in Trees
    BY <1>2 DEF Good
  <2>. QED
    BY <1>4, <1>5, <2>1 DEF Inv, ListenInv, Types
<1>. QED
  BY <1>2, <1>5, <1>6, <1>7 DEF Inv, ListenInv, NetInv

\* A lost connection drops what was on its way and fails no write.
LEMMA DisconnectKeeps ==
  ASSUME Inv, Disconnect
  PROVE  Inv' /\ Tree' = Tree
<1>1. /\ UNCHANGED <<tree, written, listens, puts, heldAcks, data, specs, remote>>
      /\ connected' = FALSE /\ drops' = drops + 1 /\ drops < MaxDrops
      /\ toServer' = <<>> /\ toClient' = <<>> /\ serving' = {} /\ unacked' = 0
  BY DEF Disconnect
<1>2. Kept(Tree, Tree') /\ Tree' = Tree
  BY <1>1, KeptSame DEF Inv
<1>3. ListensCover' /\ (\A p \in Paths : listens'[p] <= specs') /\ Good(Tree')
  BY <1>1, <1>2, ListensStay DEF Inv
<1>4. <<>> \in Seq(Requests) /\ <<>> \in Seq(Messages)
  BY NoneSent
<1>5. Lost' /\ Counted'
  BY <1>1, NoneSent DEF Lost, Counted
<1>6. Sourced' /\ HeldAlone'
  BY <1>1 DEF Sourced, HeldAlone
<1>7. Queued'
  BY <1>1 DEF Inv, NetInv, Queued, tree
<1>8. InFlight'
  BY <1>1, FlightNone DEF InFlight
<1>9. drops \in Nat
  BY DEF Inv, ListenInv, Types
<1>10. NeverLost'
  <2>1. MaxDrops # 0
    BY <1>1, <1>9
  <2>. QED
    BY <2>1 DEF NeverLost
<1>11. Types'
  <2>1. Tree' \in Trees
    BY <1>3 DEF Good
  <2>2. drops' \in Nat
    <3>1. drops' = drops + 1
      BY <1>1
    <3>. QED
      BY ONLY <1>9, <3>1
  <2>3. unacked' \in Nat /\ serving' \in SUBSET Paths
    <3>1. unacked' = 0 /\ serving' = {}
      BY <1>1
    <3>. QED
      BY ONLY <3>1
  <2>4. connected' \in BOOLEAN
    BY <1>1
  <2>. QED
    BY <1>1, <1>4, <2>1, <2>2, <2>3, <2>4 DEF Inv, ListenInv, Types
<1>. QED
  BY <1>2, <1>3, <1>5, <1>6, <1>7, <1>8, <1>10, <1>11 DEF Inv, ListenInv, NetInv

\* The listens that a new connection makes again.
Relistened(ps) ==
  [i \in 1 .. Cardinality(ps) |->
     LET p == SetToSeq(ps)[i] IN ListenRequest(p, listens[p], view[p].server)]

\* What restoreState sends for the listens: each of them once.
LEMMA RelistenedIs ==
  ASSUME Inv, NEW ps, ps \subseteq Paths, NEW r, r = Relistened(ps)
  PROVE  /\ r \in Seq(Requests) /\ \A m : Has(r, m) => m.kind = "listen"
         /\ Cardinality(ListensIn(r)) = Cardinality(ps) /\ Cardinality(ps) \in Nat
         /\ Cardinality(ps) = 0 => ps = {}
         /\ \A q \in ps : \E m \in Requests : Has(r, m) /\ IsListen(m, q, listens[q])
<1>0. listens \in [Paths -> Nat] /\ view \in [Paths -> Caches]
  BY TypesAre DEF Inv, ListenInv, Types
<1>1. IsFiniteSet(ps)
  BY ChildrenAssumption, FS_AddElement, FS_Subset DEF Paths
<1>2. /\ Cardinality(ps) \in Nat
      /\ SetToSeq(ps) \in [1 .. Cardinality(ps) -> ps]
      /\ \A x \in ps : \E i \in 1 .. Cardinality(ps) : SetToSeq(ps)[i] = x
      /\ Cardinality(ps) = 0 => ps = {}
  BY <1>1, Listing, FS_EmptySet
<1>. PICK n : n = Cardinality(ps)
  OBVIOUS
<1>. PICK s : s = SetToSeq(ps)
  OBVIOUS
<1>3. r = [i \in 1 .. n |-> ListenRequest(s[i], listens[s[i]], view[s[i]].server)]
  BY DEF Relistened
<1>4. DOMAIN r = 1 .. n /\ \A i \in 1 .. n : r[i] =
      [kind |-> "listen", path |-> s[i], spec |-> listens[s[i]], node |-> view[s[i]].server]
  BY <1>3 DEF ListenRequest
<1>5. ASSUME NEW i \in 1 .. n
      PROVE  r[i] \in Requests
  <2>1. s[i] \in Paths /\ listens[s[i]] \in Nat /\ view[s[i]].server \in Node
    <3>1. s[i] \in ps
      BY <1>2
    <3>2. view[s[i]] \in Caches /\ listens[s[i]] \in Nat
      BY <1>0, <3>1
    <3>. QED
      BY <3>1, <3>2 DEF Caches
  <2>2. [kind |-> "listen", path |-> s[i], spec |-> listens[s[i]], node |-> view[s[i]].server]
          \in [kind : {"listen"}, path : Paths, spec : Nat, node : Node]
    BY <2>1
  <2>. QED
    BY <1>4, <2>2 DEF Requests
<1>6. n \in Nat
  BY <1>2
<1>7. r \in Seq(Requests)
  <2>1. r \in [1 .. n -> Requests]
    BY <1>3, <1>5
  <2>. QED
    BY <1>6, <2>1, SeqDef
<1>8. ListensIn(r) = 1 .. n /\ \A m : Has(r, m) => m.kind = "listen"
  BY <1>4 DEF ListensIn, Has
<1>9. Cardinality(1 .. n) = n
  BY <1>6, FS_Interval
<1>10. ASSUME NEW q \in ps
       PROVE  \E m \in Requests : Has(r, m) /\ IsListen(m, q, listens[q])
  <2>1. PICK i \in 1 .. n : s[i] = q
    BY <1>2
  <2>. PICK m : m = r[i]
    OBVIOUS
  <2>2. m = [kind |-> "listen", path |-> q, spec |-> listens[q], node |-> view[q].server]
    BY <1>4, <2>1
  <2>3. IsListen(m, q, listens[q])
    BY ONLY <2>2 DEF IsListen
  <2>4. m \in Requests /\ Has(r, m)
    BY <1>4, <1>5 DEF Has
  <2>. QED
    BY <2>3, <2>4
<1>. QED
  BY <1>2, <1>7, <1>8, <1>9, <1>10

\* On connection every listen is asked for again, then every outstanding put is sent
\* again, in order.
LEMMA ConnectKeeps ==
  ASSUME Inv, Connect
  PROVE  Inv' /\ Tree' = Tree
<1>. PICK ps : ps = {p \in Paths : listens[p] # 0}
  OBVIOUS
<1>. PICK r : r = Relistened(ps)
  OBVIOUS
<1>. PICK again : again = Replayed(puts)
  OBVIOUS
<1>1. /\ ~connected /\ connected' = TRUE
      /\ UNCHANGED <<tree, written, listens, puts, heldAcks, toClient, data, serving, specs, remote, drops>>
      /\ unacked' = Cardinality(ps) /\ toServer' = r \o again
  BY DEF Connect, Relistened, Replayed
<1>2. Kept(Tree, Tree') /\ Tree' = Tree
  BY <1>1, KeptSame DEF Inv
<1>3. ListensCover' /\ (\A p \in Paths : listens'[p] <= specs') /\ Good(Tree')
  BY <1>1, <1>2, ListensStay DEF Inv
<1>4. /\ r \in Seq(Requests) /\ \A m : Has(r, m) => m.kind = "listen"
      /\ Cardinality(ListensIn(r)) = Cardinality(ps) /\ Cardinality(ps) \in Nat
      /\ Cardinality(ps) = 0 => ps = {}
      /\ \A q \in ps : \E m \in Requests : Has(r, m) /\ IsListen(m, q, listens[q])
  BY RelistenedIs
<1>5. toClient = <<>>
  BY <1>1 DEF Inv, NetInv, Lost
<1>6. /\ again \in Seq(Requests) /\ ListensIn(again) = {}
      /\ Flight(r \o again, <<>>, puts, TRUE)
  <2>1. \A m : Has(r, m) => ~IsPut(m)
    BY <1>4 DEF IsPut
  <2>2. puts \in Seq(Records) /\ Rising(puts)
    BY PutsRise
  <2>. QED
    BY <1>4, <2>1, <2>2, FlightRestored
<1>. PICK sent : sent = r \o again
  OBVIOUS
<1>7. sent \in Seq(Requests) /\ \A m : Has(r, m) => Has(sent, m)
  BY <1>4, <1>6, HasConcat, ConcatProperties
<1>8. Counted'
  <2>1. Cardinality(ListensIn(sent)) = Cardinality(ListensIn(r)) + Cardinality(ListensIn(again))
    BY <1>4, <1>6, CountConcat
  <2>2. Cardinality(ListensIn(again)) = 0
    BY <1>6, FS_EmptySet
  <2>3. Cardinality(ListensIn(sent)) = Cardinality(ps)
    BY <1>4, <2>1, <2>2
  <2>4. Cardinality(ListensIn(<<>>)) = 0
    BY NoneSent
  <2>. QED
    BY <1>1, <1>4, <1>5, <2>3, <2>4 DEF Counted
<1>9. Sourced'
  <2>1. Sources(sent, <<>>, listens, view)
    <3>. SUFFICES ASSUME NEW q \in Paths, view[q].on
                  PROVE  Asked(sent, <<>>, From(view, q), listens[From(view, q)])
      BY DEF Sources
    <3>1. From(view, q) \in ps
      BY DEF From, Paths, Inv, ListenInv, ListensCover, On
    <3>2. PICK m \in Requests : Has(r, m) /\ IsListen(m, From(view, q), listens[From(view, q)])
      BY <1>4, <3>1
    <3>. QED
      BY <1>7, <3>2 DEF Asked
  <2>2. toServer' = sent /\ toClient' = <<>> /\ listens' = listens /\ view' = view
    BY <1>1, <1>5 DEF tree
  <2>3. Sources(toServer', toClient', listens', view')
    BY <2>1, <2>2
  <2>. QED
    BY <2>3, CoversNext
<1>10. Queued'
  BY <1>1 DEF Inv, NetInv, Queued, tree
<1>11. InFlight'
  BY <1>1, <1>5, <1>6 DEF InFlight
<1>12. Lost' /\ HeldAlone' /\ NeverLost'
  <2>1. Lost'
    BY <1>1 DEF Lost
  <2>2. HeldAlone'
    BY <1>1, <1>4 DEF HeldAlone
  <2>3. NeverLost'
    BY <1>1 DEF Inv, NetInv, NeverLost
  <2>. QED
    BY <2>1, <2>2, <2>3
<1>13. Types'
  <2>1. Tree' \in Trees
    BY <1>3 DEF Good
  <2>2. toServer' \in Seq(Requests) /\ unacked' \in Nat /\ connected' \in BOOLEAN
    BY <1>1, <1>4, <1>7
  <2>. QED
    BY <1>1, <2>1, <2>2 DEF Inv, ListenInv, Types
<1>. QED
  BY <1>2, <1>3, <1>8, <1>9, <1>10, <1>11, <1>12, <1>13 DEF Inv, ListenInv, NetInv

\* A new write is queued behind those pending.
LEMMA QueuedWritten ==
  ASSUME Inv, NEW record \in Records, record.id = written + 1,
         allWrites' = Append(allWrites, record), lastWriteId' = record.id, written' = record.id,
         puts' = Append(puts, record), heldAcks' = heldAcks
  PROVE  Queued'
<1>. PICK n : n = Len(heldAcks)
  OBVIOUS
<1>. PICK m : m = Len(puts)
  OBVIOUS
<1>1. /\ n \in Nat /\ m \in Nat /\ DOMAIN puts = 1 .. m /\ DOMAIN heldAcks = 1 .. n
      /\ Len(allWrites) = n + m /\ DOMAIN allWrites = 1 .. (n + m)
      /\ \A k \in 1 .. n : allWrites[k].id = heldAcks[k].id
      /\ \A k \in 1 .. m : allWrites[n + k] = puts[k]
      /\ puts \in Seq(Records)
  BY PutsRise
<1>2. /\ Len(Append(puts, record)) = m + 1 /\ DOMAIN Append(puts, record) = 1 .. (m + 1)
      /\ \A k \in 1 .. m : Append(puts, record)[k] = puts[k]
      /\ Append(puts, record)[m + 1] = record
  BY <1>1, AppendAt
<1>3. allWrites \in Seq(Records)
  BY TypesAre DEF Inv
<1>4. /\ Len(Append(allWrites, record)) = n + m + 1
      /\ \A k \in 1 .. (n + m) : Append(allWrites, record)[k] = allWrites[k]
      /\ Append(allWrites, record)[n + m + 1] = record
  <2>1. /\ Len(Append(allWrites, record)) = Len(allWrites) + 1 /\ DOMAIN allWrites = 1 .. Len(allWrites)
        /\ \A k \in DOMAIN allWrites : Append(allWrites, record)[k] = allWrites[k]
        /\ Append(allWrites, record)[Len(allWrites) + 1] = record
    BY ONLY <1>3, record \in Records, AppendAt
  <2>. QED
    BY <1>1, <2>1
<1>5. \A k \in 1 .. n : Append(allWrites, record)[k].id = heldAcks[k].id
  BY <1>1, <1>4
<1>6. \A k \in 1 .. (m + 1) : Append(allWrites, record)[n + k] = Append(puts, record)[k]
  <2>. SUFFICES ASSUME NEW k \in 1 .. (m + 1)
                PROVE  Append(allWrites, record)[n + k] = Append(puts, record)[k]
    OBVIOUS
  <2>1. CASE k \in 1 .. m
    <3>1. n + k \in 1 .. (n + m)
      BY <1>1, <2>1
    <3>2. Append(allWrites, record)[n + k] = allWrites[n + k]
      BY <1>4, <3>1
    <3>. QED
      BY <1>1, <1>2, <2>1, <3>2
  <2>2. CASE k = m + 1
    <3>1. n + k = n + m + 1
      BY <1>1, <2>2
    <3>. QED
      BY <1>2, <1>4, <2>2, <3>1
  <2>. QED
    BY <1>1, <2>1, <2>2
<1>7. lastWriteId' <= written'
  <2>1. record.id \in Int
    BY DEF Records, RecordsWith, WriteIds
  <2>. QED
    BY <2>1
<1>8. Len(Append(allWrites, record)) = n + (m + 1)
  BY <1>1, <1>4
<1>. QED
  BY <1>1, <1>2, <1>5, <1>6, <1>7, <1>8 DEF Queued

\* A write of the user: its record goes last in allWrites, its values show in the
\* views, its put goes out last.
LEMMA UserWriteStepKeeps ==
  ASSUME Inv, UserWrite
  PROVE  Inv' /\ (TreeExact(Tree) => TreeExact(Tree'))
<1>1. /\ toClient \in Seq(Messages) /\ toServer \in Seq(Requests) /\ Good(Tree)
      /\ connected \in BOOLEAN /\ unacked \in Nat /\ puts \in Seq(Records)
      /\ written \in 0 .. MaxWrites
  BY DEF Inv, ListenInv, Types
<1>2. PICK record \in RecordsOf(written + 1) :
        /\ written' = record.id
        /\ Becomes(ApplyUserWrite(WithRecord(Tree, record), record))
        /\ puts' = Append(puts, record)
        /\ Send(<<PutRequest(record)>>)
  BY DEF UserWrite, WithRecord
<1>3. written < MaxWrites
      /\ UNCHANGED <<listens, heldAcks, connected, toClient, data, serving, specs, remote, drops>>
  BY DEF UserWrite
<1>4. written + 1 \in WriteIds
  BY <1>1, <1>3, WritesAssumption DEF WriteIds
<1>5. record \in Records /\ record.id = written + 1
  BY <1>4, RecordsOfIs DEF Records
<1>6. \A i \in DOMAIN allWrites : allWrites[i].id < record.id
  <2>. SUFFICES ASSUME NEW i \in DOMAIN allWrites
                PROVE  allWrites[i].id < record.id
    OBVIOUS
  <2>1. allWrites[i].id <= lastWriteId /\ lastWriteId \in -1 .. MaxWrites /\ allWrites \in Seq(Records)
    BY TypesAre DEF Inv
  <2>2. allWrites[i] \in Records
    BY <2>1, LenProperties, ElementOfSeq
  <2>3. allWrites[i].id \in Int
    BY <2>2 DEF Records, RecordsWith, WriteIds
  <2>4. lastWriteId <= written
    BY DEF Inv, NetInv, Queued
  <2>. QED
    BY <1>1, <1>5, <2>1, <2>3, <2>4, WritesAssumption
<1>. PICK r : r = ApplyUserWrite(WithRecord(Tree, record), record)
  OBVIOUS
<1>7. /\ Kept(Tree, r) /\ r.all = Append(Tree.all, record) /\ r.last = record.id
      /\ TreeExact(Tree) => TreeExact(r)
  <2>1. \A i \in DOMAIN Tree.all : Tree.all[i].id < record.id
    BY <1>6, TreeFields
  <2>. PICK t : t = Tree
    OBVIOUS
  <2>2. /\ Good(t) /\ record \in Records /\ \A i \in DOMAIN t.all : t.all[i].id < record.id
        /\ r = ApplyUserWrite(WithRecord(t, record), record)
    BY <1>1, <1>5, <2>1
  <2>3. /\ Kept(t, r) /\ r.all = Append(t.all, record) /\ r.last = record.id
        /\ TreeExact(t) => TreeExact(r)
    BY ONLY <2>2, UserWriteKeeps
  <2>. QED
    BY <2>3
<1>8. Tree' = r
  <2>1. r \in Trees
    BY <1>7 DEF Kept, Good
  <2>. QED
    BY <1>2, <2>1, BecomesIs
<1>9. Kept(Tree, Tree') /\ (TreeExact(Tree) => TreeExact(Tree'))
  BY <1>7, <1>8
<1>10. ListensCover' /\ (\A p \in Paths : listens'[p] <= specs') /\ Good(Tree')
  BY <1>3, <1>9, ListensStay DEF Inv
<1>11. Queued'
  <2>1. allWrites' = Append(allWrites, record) /\ lastWriteId' = record.id
    BY <1>7, <1>8, TreeFields, TreeFieldsNext
  <2>. QED
    BY <1>2, <1>3, <1>5, <2>1, QueuedWritten
<1>. PICK m : m = PutRequest(record)
  OBVIOUS
<1>12. m \in Requests /\ IsPut(m) /\ <<m>> \in Seq(Requests)
  BY <1>5, PutIs
<1>13. /\ toServer' \in Seq(Requests) /\ unacked' \in Nat /\ Lost' /\ Counted'
       /\ connected => toServer' = toServer \o <<m>> /\ unacked' = unacked + Cardinality(ListensIn(<<m>>))
       /\ ~connected => toServer' = <<>> /\ toClient = <<>>
       /\ \A q, spec : Asked(toServer, toClient, q, spec) => Asked(toServer', toClient', q, spec)
  <2>1. Send(<<m>>)
    BY <1>2
  <2>. QED
    BY <1>3, <1>12, <2>1, SendIs
<1>14. connected => unacked' = unacked
  <2>1. Cardinality(ListensIn(<<m>>)) = 0
    <3>1. m.kind # "listen"
      BY <1>12 DEF IsPut
    <3>. QED
      BY <1>12, <3>1, CountOne
  <2>. QED
    BY <1>1, <1>13, <2>1
<1>15. Sourced'
  BY <1>3, <1>9, <1>13, SourcedStays DEF Inv, NetInv
<1>16. InFlight'
  <2>1. CASE connected
    <3>1. Flight(toServer, toClient, puts, connected)
      BY DEF Inv, NetInv, InFlight
    <3>2. \A x \in Records : Has(puts, x) => x.id < record.id
      <4>. SUFFICES ASSUME NEW x \in Records, Has(puts, x)
                    PROVE  x.id < record.id
        OBVIOUS
      <4>1. PICK k \in DOMAIN puts : puts[k] = x
        BY DEF Has
      <4>2. /\ DOMAIN puts = 1 .. Len(puts) /\ DOMAIN allWrites = 1 .. Len(allWrites)
            /\ Len(puts) \in Nat /\ Len(heldAcks) \in Nat
            /\ Len(allWrites) = Len(heldAcks) + Len(puts)
            /\ allWrites[Len(heldAcks) + k] = puts[k]
        BY PutsRise
      <4>3. Len(heldAcks) + k \in DOMAIN allWrites
        BY <4>2
      <4>. QED
        BY <1>6, <4>1, <4>2, <4>3
    <3>3. Flight(toServer \o <<PutRequest(record)>>, toClient, Append(puts, record), connected)
      BY <1>1, <1>5, <3>1, <3>2, FlightPut
    <3>4. toServer' = toServer \o <<PutRequest(record)>>
      BY <1>13, <2>1
    <3>. QED
      BY <1>2, <1>3, <3>3, <3>4 DEF InFlight
  <2>2. CASE ~connected
    <3>1. connected' = FALSE /\ toServer' = <<>> /\ toClient' = <<>>
      BY <1>1, <1>3, <1>13, <2>2
    <3>. QED
      BY <3>1, FlightNone DEF InFlight
  <2>. QED
    BY <2>1, <2>2
<1>17. HeldAlone' /\ NeverLost'
  <2>1. HeldAlone'
    BY <1>3, <1>14 DEF Inv, NetInv, HeldAlone
  <2>2. NeverLost'
    BY <1>3, <1>14 DEF Inv, NetInv, NeverLost
  <2>. QED
    BY <2>1, <2>2
<1>18. Types'
  <2>1. Tree' \in Trees
    BY <1>10 DEF Good
  <2>2. puts' \in Seq(Records)
    BY <1>1, <1>2, <1>5, AppendAt
  <2>3. written' \in 0 .. MaxWrites
    BY <1>1, <1>2, <1>3, <1>5, WritesAssumption
  <2>. QED
    BY <1>3, <1>13, <2>1, <2>2, <2>3 DEF Inv, ListenInv, Types
<1>. QED
  BY <1>9, <1>10, <1>11, <1>13, <1>15, <1>16, <1>17, <1>18 DEF Inv, ListenInv, NetInv

-----------------------------------------------------------------------------
\* No step leaves the invariant, or what Timely keeps exact.
LEMMA StepKeeps ==
  ASSUME Inv, [Next]_vars
  PROVE  Inv' /\ (Timely /\ TreeExact(Tree) => TreeExact(Tree'))
<1>1. ASSUME NEW p \in Paths, AddObserver(p)
      PROVE  Inv' /\ (TreeExact(Tree) => TreeExact(Tree'))
  BY <1>1, AddObserverKeeps
<1>2. ASSUME NEW p \in Paths, RemoveObserver(p)
      PROVE  Inv' /\ (TreeExact(Tree) => TreeExact(Tree'))
  BY <1>2, RemoveObserverKeeps
<1>3. CASE UserWrite
  BY <1>3, UserWriteStepKeeps
<1>4. CASE ServerTurn
  BY <1>4, ServerTurnKeeps
<1>5. CASE OtherClientWrites
  BY <1>5, OtherClientWritesKeeps
<1>6. CASE TakeData
  BY <1>6, TakeDataKeeps
<1>7. CASE TakeMerge
  BY <1>7, TakeMergeKeeps
<1>8. CASE TakeAck
  BY <1>8, TakeAckKeeps
<1>9. CASE TakeAnswer
  BY <1>9, TakeAnswerKeeps
<1>10. CASE Disconnect
  BY <1>10, DisconnectKeeps
<1>11. CASE Connect
  BY <1>11, ConnectKeeps
<1>12. CASE UNCHANGED vars
  <2>1. Tree' = Tree
    BY <1>12 DEF vars, Tree
  <2>2. Inv'
    <3>1. ListenInv'
      BY <1>12, <2>1 DEF vars, Inv, ListenInv, Types, ListensCover, On
    <3>2. Lost' /\ Counted' /\ Queued' /\ InFlight' /\ HeldAlone' /\ NeverLost'
      BY <1>12 DEF vars, Inv, NetInv, Lost, Counted, Queued, InFlight, HeldAlone, NeverLost
    <3>3. Sourced'
      BY <1>12 DEF vars, Inv, NetInv, Sourced, Source, On
    <3>. QED
      BY <3>1, <3>2, <3>3 DEF Inv, NetInv
  <2>. QED
    BY <2>1, <2>2
<1>. QED
  BY <1>1, <1>2, <1>3, <1>4, <1>5, <1>6, <1>7, <1>8, <1>9, <1>10, <1>11, <1>12 DEF Next

\* Every state of the sync tree, the write tree, the connection and the server
\* satisfies the invariant, for any children, forms of writes and bounds.
THEOREM SyncInvariant == Spec => []Inv
<1>1. Init => Inv
  BY InitEstablishes
<1>2. Inv /\ [Next]_vars => Inv'
  BY StepKeeps
<1>. QED
  BY <1>1, <1>2, PTL DEF Spec

\* Every view has exactly one source of data: a listen of its own, or the location's
\* view above it; and nothing is listened to for no view (ListensCover).
THEOREM ViewsAreCovered == Spec => []ListensCover
<1>1. Inv => ListensCover
  BY DEF Inv, ListenInv
<1>. QED
  BY <1>1, SyncInvariant, PTL

\* What observers were told.
LEMMA ToldIs ==
  ASSUME Inv
  PROVE  ValueTold /\ RowsCoverUsers
BY TreeFields DEF Inv, ListenInv, Good, Told, ValueTold, RowsCoverUsers, On

\* Whoever observes a location was last told the value its view shows (ValueTold):
\* no change of a cache goes unreported.
THEOREM ValuesAreTold == Spec => []ValueTold
<1>1. Inv => ValueTold
  BY ToldIs
<1>. QED
  BY <1>1, SyncInvariant, PTL

\* The rows of the list of users, added on childAdded events, cover the users its
\* view shows (RowsCoverUsers).
THEOREM RowsAreAdded == Spec => []RowsCoverUsers
<1>1. Inv => RowsCoverUsers
  BY ToldIs
<1>. QED
  BY <1>1, SyncInvariant, PTL

\* The invariant's parts hold the types of all variables.
LEMMA TypesFollow ==
  ASSUME Inv
  PROVE  TypeOK
<1>1. /\ allWrites \in Seq(Records) /\ visibleWrites \in Compounds /\ lastWriteId \in -1 .. MaxWrites
      /\ view \in [Paths -> Caches] /\ told \in [Paths -> Node]
      /\ Rising(allWrites) /\ \A i \in DOMAIN allWrites : allWrites[i].id <= lastWriteId
  BY TypesAre DEF Inv
<1>2. WritesTypeOK
  <2>1. ASSUME NEW i \in DOMAIN allWrites
        PROVE  /\ allWrites[i].id \in WriteIds
               /\ i > 1 => allWrites[i - 1].id < allWrites[i].id
    <3>1. DOMAIN allWrites = 1 .. Len(allWrites) /\ Len(allWrites) \in Nat
      BY <1>1, LenProperties
    <3>2. allWrites[i] \in Records
      BY <1>1, <3>1, ElementOfSeq
    <3>3. i > 1 => i - 1 \in DOMAIN allWrites /\ i - 1 < i
      BY <3>1
    <3>. QED
      BY <1>1, <3>2, <3>3 DEF Rising, Records, RecordsWith
  <2>2. visibleWrites.root \in BOOLEAN
        /\ visibleWrites.node \in [Children -> WriteIds \cup {None, Unwritten}]
    BY <1>1 DEF Compounds
  <2>3. written \in 0 .. MaxWrites
    BY DEF Inv, ListenInv, Types
  <2>. QED
    BY <1>1, <2>1, <2>2, <2>3 DEF WritesTypeOK
<1>3. ASSUME NEW p \in Paths
      PROVE  /\ view[p].on \in BOOLEAN /\ (view[p].serverFull \/ view[p].eventFull => On(p))
             /\ {view[p].event, view[p].server, told[p]} \subseteq [Children -> Nat \cup {None}]
             /\ listens[p] \in 0 .. specs
  <2>1. view[p] \in Caches /\ told[p] \in Node
    BY <1>1
  <2>2. ~view[p].on => view[p] = NoView
    BY TreeFields DEF Inv, ListenInv, Good, OffIsNothing
  <2>3. ~NoView.serverFull /\ ~NoView.eventFull
    BY DEF NoView
  <2>4. view[p].serverFull \/ view[p].eventFull => On(p)
    BY <2>2, <2>3 DEF On
  <2>5. listens[p] \in Nat /\ specs \in Nat /\ listens[p] <= specs
    BY DEF Inv, ListenInv, Types
  <2>. QED
    BY <2>1, <2>4, <2>5 DEF Caches, Node, Values
<1>4. unacked \in 0 .. Len(toServer) + Len(toClient)
  <2>1. toServer \in Seq(Requests) /\ toClient \in Seq(Messages)
    BY DEF Inv, ListenInv, Types
  <2>2. /\ Cardinality(ListensIn(toServer)) \in 0 .. Len(toServer) /\ Len(toServer) \in Nat
        /\ Cardinality(ListensIn(toClient)) \in 0 .. Len(toClient) /\ Len(toClient) \in Nat
    BY <2>1, CountIs, LenProperties
  <2>3. unacked = Cardinality(ListensIn(toServer)) + Cardinality(ListensIn(toClient))
    BY DEF Inv, NetInv, Counted
  <2>. QED
    BY <2>2, <2>3
<1>5. serving \subseteq Paths
  BY DEF Inv, ListenInv, Types
<1>. QED
  BY <1>2, <1>3, <1>4, <1>5 DEF TypeOK

\* The variables have their types.
THEOREM SyncTyped == Spec => []TypeOK
<1>1. Inv => TypeOK
  BY TypesFollow
<1>. QED
  BY <1>1, SyncInvariant, PTL

-----------------------------------------------------------------------------
\* An exact tree shows the layered writes over what each view has from the server.
LEMMA ExactFollows ==
  ASSUME Inv, TreeExact(Tree)
  PROVE  VisibleWritesExact /\ EventExact
<1>1. allWrites \in Seq(Records) /\ view \in [Paths -> Caches]
  BY TypesAre DEF Inv
<1>2. Layered(visibleWrites, allWrites) /\ \A p \in Paths : Shows(view[p], visibleWrites, p)
  BY TreeFields DEF TreeExact, ViewsShow
<1>3. \A i \in DOMAIN allWrites : allWrites[i].visible
  <2>1. \A i \in DOMAIN allWrites : allWrites[i] \in Records
    BY <1>1, LenProperties, ElementOfSeq
  <2>. QED
    BY <2>1 DEF Records, RecordsWith
<1>. PICK shown : shown = {i \in DOMAIN allWrites : allWrites[i].visible}
  OBVIOUS
<1>4. DOMAIN allWrites \subseteq shown
  BY <1>3
<1>5. VisibleWritesExact
  <2>1. Layered(LayerTreeFromWrites(allWrites, shown), allWrites)
    BY <1>1, <1>4, LayerTreeLayered
  <2>. PICK w : w = LayerTreeFromWrites(allWrites, shown)
    OBVIOUS
  <2>2. visibleWrites = w
    BY <1>1, <1>2, <2>1, LayeredOnce
  <2>. QED
    BY <2>2 DEF VisibleWritesExact
<1>6. EventExact
  <2>. PICK w : w = LayerTreeFromWrites(allWrites, DefaultFilter(allWrites))
    OBVIOUS
  <2>1. Layered(w, allWrites)
    BY <1>1, LayerTreeLayered DEF DefaultFilter
  <2>2. visibleWrites = w
    BY <1>1, <1>2, <2>1, LayeredOnce
  <2>3. ASSUME NEW p \in Paths, On(p)
        PROVE  /\ view[p].event = WithWrites(w, p, view[p].server)
               /\ view[p].serverFull => view[p].eventFull
    <3>1. view[p].on /\ Shows(view[p], visibleWrites, p)
      BY <1>2, <2>3 DEF On
    <3>2. view[p].event = WithWrites(visibleWrites, p, view[p].server)
          /\ (view[p].serverFull => view[p].eventFull)
      BY ONLY <3>1 DEF Shows
    <3>. QED
      BY <2>2, <3>2
  <2>. QED
    BY <2>3 DEF EventExact
<1>. QED
  BY <1>5, <1>6

\* Of whole nodes and merges, or while no connection is lost: whatever the order of
\* writes, refusals, data, listens and answers, the cached visible writes are those of
\* allWrites, and every view shows them over what it has from the server (ViewsExact).
THEOREM ViewsAreExact == ASSUME Timely PROVE Spec => []ViewsExact
<1>1. Init => Inv /\ TreeExact(Tree)
  BY InitEstablishes
<1>2. Inv /\ TreeExact(Tree) /\ [Next]_vars => Inv' /\ TreeExact(Tree)'
  BY StepKeeps
<1>3. Inv /\ TreeExact(Tree) => ViewsExact
  BY TypesFollow, ExactFollows DEF ViewsExact
<1>. QED
  BY <1>1, <1>2, <1>3, PTL DEF Spec

-----------------------------------------------------------------------------
(* A quiet client shows the server's data.  What follows is of a client     *)
(* whose connection is not lost.                                            *)

IsUnlisten(m, q) == m.kind = "unlisten" /\ m.path = q

\* Listen spec of path q, or its answer, is on its way; and no other is.
Waits(s, q, spec) == \E i \in DOMAIN s : IsListen(s[i], q, spec)
Once(s, q, spec) == \A i, j \in DOMAIN s : IsListen(s[i], q, spec) /\ IsListen(s[j], q, spec) => i = j

\* It is, and path q is not given up after that.
NoUnlisten(s, q) == \A i \in DOMAIN s : ~IsUnlisten(s[i], q)
AskedLast(s, q, spec) ==
  \E i \in DOMAIN s : IsListen(s[i], q, spec) /\ \A j \in DOMAIN s : j > i => ~IsUnlisten(s[j], q)

\* Path x, as the server has it, is not given up before listen spec of the location;
\* or it is listened to again before that.
Held(s, x, spec) ==
  \E j \in DOMAIN s : IsListen(s[j], Root, spec) /\ \A k \in DOMAIN s : k < j => ~IsUnlisten(s[k], x)
Bridged(s, x, spec) ==
  \E i, j \in DOMAIN s :
    /\ i < j /\ s[i].kind = "listen" /\ s[i].path = x /\ IsListen(s[j], Root, spec)
    /\ \A k \in DOMAIN s : i < k /\ k < j => ~IsUnlisten(s[k], x)

\* What becomes of listen spec of path q when requests s become u.
Serves(s, u, q, spec) ==
  /\ Waits(u, q, spec) => Waits(s, q, spec)
  /\ Waits(s, q, spec) => Waits(u, q, spec) \/ IsListen(s[1], q, spec)
  /\ Once(s, q, spec) => Once(u, q, spec) /\ (IsListen(s[1], q, spec) => ~Waits(u, q, spec))
  /\ NoUnlisten(s, q) => NoUnlisten(u, q) /\ ~IsUnlisten(s[1], q)
  /\ AskedLast(s, q, spec) =>
       AskedLast(u, q, spec) \/ (IsListen(s[1], q, spec) /\ NoUnlisten(u, q))
  /\ Held(s, q, spec) /\ ~IsListen(s[1], Root, spec) => Held(u, q, spec) /\ ~IsUnlisten(s[1], q)
  /\ Bridged(s, q, spec) =>
       Bridged(u, q, spec) \/ (s[1].kind = "listen" /\ s[1].path = q /\ Held(u, q, spec))

\* What the first request may still do, and what is left without it.
LEMMA RequestServed ==
  ASSUME NEW S, NEW s \in Seq(S), s # <<>>, NEW q, NEW spec, NEW u, u = Tail(s)
  PROVE  Serves(s, u, q, spec)
<1>1. /\ Len(s) \in Nat \ {0} /\ DOMAIN s = 1 .. Len(s) /\ DOMAIN u = 1 .. (Len(s) - 1)
      /\ \A k \in DOMAIN u : k + 1 \in DOMAIN s /\ u[k] = s[k + 1]
  BY TailAt
<1>2. \A i \in DOMAIN s : i = 1 \/ (i - 1 \in DOMAIN u /\ u[i - 1] = s[i])
  BY <1>1
<1>3. 1 \in DOMAIN s /\ \A i \in DOMAIN s : i \in Nat
  BY <1>1
<1>4. \A i \in DOMAIN u : i \in Nat
  BY <1>1
<1>5. /\ Waits(u, q, spec) => Waits(s, q, spec)
      /\ Waits(s, q, spec) => Waits(u, q, spec) \/ IsListen(s[1], q, spec)
  BY <1>1, <1>2 DEF Waits
<1>6. Once(s, q, spec) => Once(u, q, spec) /\ (IsListen(s[1], q, spec) => ~Waits(u, q, spec))
  <2>. SUFFICES ASSUME Once(s, q, spec)
                PROVE  Once(u, q, spec) /\ (IsListen(s[1], q, spec) => ~Waits(u, q, spec))
    OBVIOUS
  <2>1. Once(u, q, spec)
    <3>. SUFFICES ASSUME NEW i \in DOMAIN u, NEW j \in DOMAIN u,
                         IsListen(u[i], q, spec), IsListen(u[j], q, spec)
                  PROVE  i = j
      BY DEF Once
    <3>1. i + 1 = j + 1
      BY <1>1 DEF Once
    <3>. QED
      BY <1>4, <3>1
  <2>2. ASSUME IsListen(s[1], q, spec), Waits(u, q, spec)
        PROVE  FALSE
    <3>1. PICK i \in DOMAIN u : IsListen(u[i], q, spec)
      BY <2>2 DEF Waits
    <3>2. i + 1 = 1
      BY <1>1, <1>3, <2>2, <3>1 DEF Once
    <3>. QED
      BY <1>1, <3>2
  <2>. QED
    BY <2>1, <2>2
<1>7. NoUnlisten(s, q) => NoUnlisten(u, q) /\ ~IsUnlisten(s[1], q)
  BY <1>1, <1>3 DEF NoUnlisten
<1>8. AskedLast(s, q, spec) =>
        AskedLast(u, q, spec) \/ (IsListen(s[1], q, spec) /\ NoUnlisten(u, q))
  <2>. SUFFICES ASSUME AskedLast(s, q, spec)
                PROVE  AskedLast(u, q, spec) \/ (IsListen(s[1], q, spec) /\ NoUnlisten(u, q))
    OBVIOUS
  <2>1. PICK i \in DOMAIN s : IsListen(s[i], q, spec) /\ \A j \in DOMAIN s : j > i => ~IsUnlisten(s[j], q)
    BY DEF AskedLast
  <2>2. \A j \in DOMAIN u : j + 1 > i => ~IsUnlisten(u[j], q)
    BY <1>1, <2>1
  <2>3. CASE i = 1
    BY <1>1, <2>3, <2>1, <2>2 DEF NoUnlisten
  <2>4. CASE i # 1
    BY <1>1, <1>2, <2>4, <2>1, <2>2 DEF AskedLast
  <2>. QED
    BY <2>3, <2>4
<1>9. Held(s, q, spec) /\ ~IsListen(s[1], Root, spec) => Held(u, q, spec) /\ ~IsUnlisten(s[1], q)
  <2>. SUFFICES ASSUME Held(s, q, spec), ~IsListen(s[1], Root, spec)
                PROVE  Held(u, q, spec) /\ ~IsUnlisten(s[1], q)
    OBVIOUS
  <2>1. PICK j \in DOMAIN s : IsListen(s[j], Root, spec) /\ \A k \in DOMAIN s : k < j => ~IsUnlisten(s[k], q)
    BY DEF Held
  <2>2. j # 1 /\ j - 1 \in DOMAIN u /\ u[j - 1] = s[j] /\ 1 < j
    BY <1>1, <1>2, <2>1
  <2>3. \A k \in DOMAIN u : k < j - 1 => k + 1 < j
    BY <1>1
  <2>4. \A k \in DOMAIN u : k < j - 1 => ~IsUnlisten(u[k], q)
    BY <1>1, <2>1, <2>3
  <2>. QED
    BY <1>3, <2>1, <2>2, <2>4 DEF Held
<1>10. Bridged(s, q, spec) =>
        Bridged(u, q, spec) \/ (s[1].kind = "listen" /\ s[1].path = q /\ Held(u, q, spec))
  <2>. SUFFICES ASSUME Bridged(s, q, spec)
                PROVE  Bridged(u, q, spec) \/ (s[1].kind = "listen" /\ s[1].path = q /\ Held(u, q, spec))
    OBVIOUS
  <2>1. PICK i \in DOMAIN s, j \in DOMAIN s :
          /\ i < j /\ s[i].kind = "listen" /\ s[i].path = q /\ IsListen(s[j], Root, spec)
          /\ \A k \in DOMAIN s : i < k /\ k < j => ~IsUnlisten(s[k], q)
    BY DEF Bridged
  <2>2. j - 1 \in DOMAIN u /\ u[j - 1] = s[j]
    BY <1>1, <1>2, <2>1
  <2>3. \A k \in DOMAIN u : i < k + 1 /\ k < j - 1 => ~IsUnlisten(u[k], q)
    BY <1>1, <2>1
  <2>4. CASE i = 1
    BY <1>1, <2>4, <2>1, <2>2, <2>3 DEF Held
  <2>5. CASE i # 1
    <3>1. i - 1 \in DOMAIN u /\ u[i - 1] = s[i] /\ i - 1 < j - 1
      BY <1>1, <1>2, <2>1, <2>5
    <3>2. \A k \in DOMAIN u : i - 1 < k => i < k + 1
      BY <1>1
    <3>. QED
      BY <2>1, <2>2, <2>3, <3>1, <3>2 DEF Bridged
  <2>. QED
    BY <2>4, <2>5
<1>. QED
  BY <1>5, <1>6, <1>7, <1>8, <1>9, <1>10 DEF Serves

Extends(s, r, u, q, spec) ==
  /\ Waits(u, q, spec) <=> Waits(s, q, spec) \/ Waits(r, q, spec)
  /\ Once(s, q, spec) /\ ~Waits(r, q, spec) => Once(u, q, spec)
  /\ Once(r, q, spec) /\ ~Waits(s, q, spec) => Once(u, q, spec)
  /\ NoUnlisten(s, q) /\ NoUnlisten(r, q) => NoUnlisten(u, q)
  /\ AskedLast(s, q, spec) /\ NoUnlisten(r, q) => AskedLast(u, q, spec)
  /\ AskedLast(r, q, spec) => AskedLast(u, q, spec)
  /\ Held(s, q, spec) => Held(u, q, spec)
  /\ Bridged(s, q, spec) => Bridged(u, q, spec)

\* What more requests leave as it is, and what they bring.
LEMMA RequestsAdded ==
  ASSUME NEW S, NEW s \in Seq(S), NEW r \in Seq(S), NEW q, NEW spec, NEW u, u = s \o r
  PROVE  Extends(s, r, u, q, spec)
<1>1. /\ Len(s) \in Nat /\ Len(r) \in Nat
      /\ DOMAIN s = 1 .. Len(s) /\ DOMAIN r = 1 .. Len(r) /\ DOMAIN u = 1 .. (Len(s) + Len(r))
      /\ \A k \in DOMAIN s : u[k] = s[k]
      /\ \A k \in DOMAIN r : u[Len(s) + k] = r[k]
  BY ConcatAt
<1>2. \A i \in DOMAIN u : i \in DOMAIN s \/ (i - Len(s) \in DOMAIN r /\ u[i] = r[i - Len(s)])
  <2>1. \A i \in DOMAIN u : i \in DOMAIN s \/ i - Len(s) \in DOMAIN r
    BY <1>1
  <2>2. \A i \in DOMAIN u : Len(s) + (i - Len(s)) = i
    BY <1>1
  <2>. QED
    BY <1>1, <2>1, <2>2
<1>3. DOMAIN s \subseteq DOMAIN u /\ \A k \in DOMAIN r : Len(s) + k \in DOMAIN u
  BY <1>1
<1>4. Waits(u, q, spec) <=> Waits(s, q, spec) \/ Waits(r, q, spec)
  BY <1>1, <1>2, <1>3 DEF Waits
<1>5. Once(s, q, spec) /\ ~Waits(r, q, spec) => Once(u, q, spec)
  BY <1>1, <1>2 DEF Once, Waits
<1>6. Once(r, q, spec) /\ ~Waits(s, q, spec) => Once(u, q, spec)
  <2>. SUFFICES ASSUME Once(r, q, spec), ~Waits(s, q, spec), NEW i \in DOMAIN u, NEW j \in DOMAIN u,
                       IsListen(u[i], q, spec), IsListen(u[j], q, spec)
                PROVE  i = j
    BY DEF Once
  <2>1. i \notin DOMAIN s /\ j \notin DOMAIN s
    BY <1>1 DEF Waits
  <2>2. i - Len(s) = j - Len(s)
    BY <1>2, <2>1 DEF Once
  <2>. QED
    BY <1>1, <2>2
<1>7. NoUnlisten(s, q) /\ NoUnlisten(r, q) => NoUnlisten(u, q)
  BY <1>1, <1>2 DEF NoUnlisten
<1>8. AskedLast(s, q, spec) /\ NoUnlisten(r, q) => AskedLast(u, q, spec)
  BY <1>1, <1>2, <1>3 DEF AskedLast, NoUnlisten
<1>9. AskedLast(r, q, spec) => AskedLast(u, q, spec)
  <2>. SUFFICES ASSUME AskedLast(r, q, spec)
                PROVE  AskedLast(u, q, spec)
    OBVIOUS
  <2>1. PICK i \in DOMAIN r : IsListen(r[i], q, spec) /\ \A j \in DOMAIN r : j > i => ~IsUnlisten(r[j], q)
    BY DEF AskedLast
  <2>2. Len(s) + i \in DOMAIN u /\ IsListen(u[Len(s) + i], q, spec)
    BY <1>1, <1>3, <2>1
  <2>3. ASSUME NEW j \in DOMAIN u, j > Len(s) + i
        PROVE  ~IsUnlisten(u[j], q)
    <3>1. j - Len(s) \in DOMAIN r /\ u[j] = r[j - Len(s)]
      BY <1>1, <1>2, <2>3
    <3>2. j - Len(s) > i
      BY <1>1, <2>3
    <3>. QED
      BY <2>1, <3>1, <3>2
  <2>. QED
    BY <2>2, <2>3 DEF AskedLast
<1>10. Held(s, q, spec) => Held(u, q, spec)
  BY <1>1, <1>3 DEF Held
<1>11. Bridged(s, q, spec) => Bridged(u, q, spec)
  BY <1>1, <1>3 DEF Bridged
<1>. QED
  BY <1>4, <1>5, <1>6, <1>7, <1>8, <1>9, <1>10, <1>11 DEF Extends

\* A listen of the location comes after what is already asked for a child.
LEMMA RootAsked ==
  ASSUME NEW S, NEW s \in Seq(S), NEW r \in Seq(S), NEW x, NEW spec, 1 \in DOMAIN r,
         IsListen(r[1], Root, spec), NEW u, u = s \o r
  PROVE  /\ NoUnlisten(s, x) => Held(u, x, spec)
         /\ \A any : AskedLast(s, x, any) => Bridged(u, x, spec)
<1>1. /\ Len(s) \in Nat /\ Len(r) \in Nat
      /\ DOMAIN s = 1 .. Len(s) /\ DOMAIN r = 1 .. Len(r) /\ DOMAIN u = 1 .. (Len(s) + Len(r))
      /\ \A k \in DOMAIN s : u[k] = s[k]
      /\ \A k \in DOMAIN r : u[Len(s) + k] = r[k]
  BY ConcatAt
<1>2. Len(s) + 1 \in DOMAIN u /\ IsListen(u[Len(s) + 1], Root, spec)
  BY <1>1
<1>3. \A k \in DOMAIN u : k < Len(s) + 1 => k \in DOMAIN s
  BY <1>1
<1>4. \A k \in DOMAIN s : k < Len(s) + 1 /\ k \in DOMAIN u
  BY <1>1
<1>5. NoUnlisten(s, x) => Held(u, x, spec)
  BY <1>1, <1>2, <1>3 DEF NoUnlisten, Held
<1>6. ASSUME NEW any, AskedLast(s, x, any)
      PROVE  Bridged(u, x, spec)
  <2>1. PICK i \in DOMAIN s : IsListen(s[i], x, any) /\ \A j \in DOMAIN s : j > i => ~IsUnlisten(s[j], x)
    BY <1>6 DEF AskedLast
  <2>2. i \in DOMAIN u /\ i < Len(s) + 1 /\ u[i].kind = "listen" /\ u[i].path = x
    BY <1>1, <1>4, <2>1 DEF IsListen
  <2>3. \A k \in DOMAIN u : i < k /\ k < Len(s) + 1 => ~IsUnlisten(u[k], x)
    BY <1>1, <1>3, <2>1
  <2>. QED
    BY <1>2, <2>2, <2>3 DEF Bridged
<1>. QED
  BY <1>5, <1>6

\* What a message says of child x, and what a sequence of them does.
Fits(m, x) == \/ m.kind = "data" /\ m.path \in {Root, x}
              \/ m.kind = "merge" /\ x \in DOMAIN m.changed
Given(m, x) == IF m.kind = "data" THEN m.node[x] ELSE m.changed[x]
Silent(c, x) == \A i \in DOMAIN c : ~Fits(c[i], x)
Tells(c, x, value) ==
  \E i \in DOMAIN c : /\ Fits(c[i], x) /\ Given(c[i], x) = value
                      /\ \A j \in DOMAIN c : j > i => ~Fits(c[j], x)

\* The messages make value b of value a.
Brings(c, x, a, b) == Tells(c, x, b) \/ (Silent(c, x) /\ a = b)

\* No merge comes before the data or the answer that completes the view of the location.
IsWhole(m) == m.kind = "data" /\ m.path = Root
Prepared(c, spec) ==
  \A i \in DOMAIN c : c[i].kind = "merge" =>
    \/ \E j \in DOMAIN c : IsWhole(c[j])
    \/ \E j \in DOMAIN c : j < i /\ IsListen(c[j], Root, spec)

Shortens(c, u, x, spec) ==
  /\ \A b : Tells(c, x, b) =>
       Tells(u, x, b) \/ (Fits(c[1], x) /\ Given(c[1], x) = b /\ Silent(u, x))
  /\ Silent(c, x) => Silent(u, x) /\ ~Fits(c[1], x)
  /\ \A a, b : Brings(c, x, a, b) =>
       Brings(u, x, IF Fits(c[1], x) THEN Given(c[1], x) ELSE a, b)
  /\ Prepared(c, spec) /\ ~IsWhole(c[1]) /\ ~IsListen(c[1], Root, spec) => Prepared(u, spec)
  /\ Prepared(c, spec) /\ c[1].kind = "merge" => \E j \in DOMAIN u : IsWhole(u[j])
  /\ Waits(u, x, spec) => Waits(c, x, spec)
  /\ Waits(c, x, spec) => Waits(u, x, spec) \/ IsListen(c[1], x, spec)

\* The first message and the others.
LEMMA MessageTaken ==
  ASSUME NEW S, NEW c \in Seq(S), c # <<>>, NEW x, NEW spec, NEW u, u = Tail(c)
  PROVE  Shortens(c, u, x, spec)
<1>1. /\ Len(c) \in Nat \ {0} /\ DOMAIN c = 1 .. Len(c) /\ DOMAIN u = 1 .. (Len(c) - 1)
      /\ \A k \in DOMAIN u : k + 1 \in DOMAIN c /\ u[k] = c[k + 1]
  BY TailAt
<1>2. \A i \in DOMAIN c : i = 1 \/ (i - 1 \in DOMAIN u /\ u[i - 1] = c[i])
  BY <1>1
<1>3. 1 \in DOMAIN c /\ \A k \in DOMAIN u : k + 1 > 1
  BY <1>1
<1>4. ASSUME NEW b, Tells(c, x, b)
      PROVE  Tells(u, x, b) \/ (Fits(c[1], x) /\ Given(c[1], x) = b /\ Silent(u, x))
  <2>1. PICK i \in DOMAIN c : /\ Fits(c[i], x) /\ Given(c[i], x) = b
                              /\ \A j \in DOMAIN c : j > i => ~Fits(c[j], x)
    BY <1>4 DEF Tells
  <2>2. CASE i = 1
    BY <1>1, <1>3, <2>1, <2>2 DEF Silent
  <2>3. CASE i # 1
    <3>1. i - 1 \in DOMAIN u /\ u[i - 1] = c[i]
      BY <1>2, <2>3
    <3>2. \A j \in DOMAIN u : j > i - 1 => j + 1 > i
      BY <1>1
    <3>. QED
      BY <1>1, <2>1, <3>1, <3>2 DEF Tells
  <2>. QED
    BY <2>2, <2>3
<1>5. Silent(c, x) => Silent(u, x) /\ ~Fits(c[1], x)
  BY <1>1, <1>3 DEF Silent
<1>6. ASSUME NEW a, NEW b, Brings(c, x, a, b)
      PROVE  Brings(u, x, IF Fits(c[1], x) THEN Given(c[1], x) ELSE a, b)
  BY <1>4, <1>5, <1>6 DEF Brings
<1>7. Prepared(c, spec) /\ ~IsWhole(c[1]) /\ ~IsListen(c[1], Root, spec) => Prepared(u, spec)
  <2>. SUFFICES ASSUME Prepared(c, spec), ~IsWhole(c[1]), ~IsListen(c[1], Root, spec),
                       NEW i \in DOMAIN u, u[i].kind = "merge"
                PROVE  \/ \E j \in DOMAIN u : IsWhole(u[j])
                       \/ \E j \in DOMAIN u : j < i /\ IsListen(u[j], Root, spec)
    BY DEF Prepared
  <2>1. i + 1 \in DOMAIN c /\ c[i + 1].kind = "merge"
    BY <1>1
  <2>2. CASE \E j \in DOMAIN c : IsWhole(c[j])
    BY <1>2, <2>2
  <2>3. CASE \E j \in DOMAIN c : j < i + 1 /\ IsListen(c[j], Root, spec)
    <3>1. PICK j \in DOMAIN c : j < i + 1 /\ IsListen(c[j], Root, spec)
      BY <2>3
    <3>2. j - 1 \in DOMAIN u /\ u[j - 1] = c[j] /\ j - 1 < i
      BY <1>1, <1>2, <3>1
    <3>. QED
      BY <3>1, <3>2
  <2>. QED
    BY <2>1, <2>2, <2>3 DEF Prepared
<1>8. Prepared(c, spec) /\ c[1].kind = "merge" => \E j \in DOMAIN u : IsWhole(u[j])
  <2>. SUFFICES ASSUME Prepared(c, spec), c[1].kind = "merge"
                PROVE  \E j \in DOMAIN u : IsWhole(u[j])
    OBVIOUS
  <2>1. ~\E j \in DOMAIN c : j < 1
    BY <1>1
  <2>2. PICK j \in DOMAIN c : IsWhole(c[j])
    BY <1>3, <2>1 DEF Prepared
  <2>3. j # 1
    BY <2>2 DEF IsWhole
  <2>. QED
    BY <1>2, <2>2, <2>3
<1>9. /\ Waits(u, x, spec) => Waits(c, x, spec)
      /\ Waits(c, x, spec) => Waits(u, x, spec) \/ IsListen(c[1], x, spec)
  BY <1>1, <1>2 DEF Waits
<1>. QED
  BY <1>4, <1>5, <1>6, <1>7, <1>8, <1>9 DEF Shortens

Lengthens(c, n, u, x, spec) ==
  /\ \A b : Tells(n, x, b) => Tells(u, x, b)
  /\ Silent(n, x) => \A a, b : Brings(c, x, a, b) => Brings(u, x, a, b)
  /\ Silent(c, x) /\ Silent(n, x) => Silent(u, x)
  /\ Prepared(c, spec) /\ ((\E m : Has(n, m) /\ IsWhole(m)) \/ Waits(c, Root, spec)
                            \/ \A m : Has(n, m) => m.kind # "merge")
       => Prepared(u, spec)
  /\ (\E m : Has(n, m) /\ IsWhole(m)) => Prepared(u, spec)
  /\ Waits(u, x, spec) <=> Waits(c, x, spec) \/ Waits(n, x, spec)

\* More messages.
LEMMA MessagesAdded ==
  ASSUME NEW S, NEW c \in Seq(S), NEW n \in Seq(S), NEW x, NEW spec, NEW u, u = c \o n
  PROVE  Lengthens(c, n, u, x, spec)
<1>1. /\ Len(c) \in Nat /\ Len(n) \in Nat
      /\ DOMAIN c = 1 .. Len(c) /\ DOMAIN n = 1 .. Len(n) /\ DOMAIN u = 1 .. (Len(c) + Len(n))
      /\ \A k \in DOMAIN c : u[k] = c[k]
      /\ \A k \in DOMAIN n : u[Len(c) + k] = n[k]
  BY ConcatAt
<1>2. \A i \in DOMAIN u : i \in DOMAIN c \/ (i - Len(c) \in DOMAIN n /\ u[i] = n[i - Len(c)])
  <2>1. \A i \in DOMAIN u : i \in DOMAIN c \/ i - Len(c) \in DOMAIN n
    BY <1>1
  <2>2. \A i \in DOMAIN u : Len(c) + (i - Len(c)) = i
    BY <1>1
  <2>. QED
    BY <1>1, <2>1, <2>2
<1>3. DOMAIN c \subseteq DOMAIN u /\ \A k \in DOMAIN n : Len(c) + k \in DOMAIN u
  BY <1>1
<1>4. ASSUME NEW b, Tells(n, x, b)
      PROVE  Tells(u, x, b)
  <2>1. PICK i \in DOMAIN n : /\ Fits(n[i], x) /\ Given(n[i], x) = b
                              /\ \A j \in DOMAIN n : j > i => ~Fits(n[j], x)
    BY <1>4 DEF Tells
  <2>2. Len(c) + i \in DOMAIN u /\ u[Len(c) + i] = n[i]
    BY <1>1, <1>3
  <2>3. ASSUME NEW j \in DOMAIN u, j > Len(c) + i
        PROVE  ~Fits(u[j], x)
    BY <1>1, <1>2, <2>3, <2>1
  <2>. QED
    BY <2>1, <2>2, <2>3 DEF Tells
<1>5. ASSUME Silent(n, x), NEW a, NEW b, Brings(c, x, a, b)
      PROVE  Brings(u, x, a, b)
  <2>1. CASE Tells(c, x, b)
    <3>1. PICK i \in DOMAIN c : /\ Fits(c[i], x) /\ Given(c[i], x) = b
                                /\ \A j \in DOMAIN c : j > i => ~Fits(c[j], x)
      BY <2>1 DEF Tells
    <3>2. \A j \in DOMAIN u : j > i => ~Fits(u[j], x)
      BY <1>1, <1>2, <1>5, <3>1 DEF Silent
    <3>. QED
      BY <1>1, <1>3, <3>1, <3>2 DEF Tells, Brings
  <2>2. CASE Silent(c, x) /\ a = b
    BY <1>1, <1>2, <1>5, <2>2 DEF Silent, Brings
  <2>. QED
    BY <1>5, <2>1, <2>2 DEF Brings
<1>6. Silent(c, x) /\ Silent(n, x) => Silent(u, x)
  BY <1>1, <1>2 DEF Silent
<1>7. (\E m : Has(n, m) /\ IsWhole(m)) => Prepared(u, spec)
  BY <1>1, <1>3 DEF Has, Prepared
<1>8. ASSUME Prepared(c, spec), Waits(c, Root, spec) \/ \A m : Has(n, m) => m.kind # "merge"
      PROVE  Prepared(u, spec)
  <2>. SUFFICES ASSUME NEW i \in DOMAIN u, u[i].kind = "merge"
                PROVE  \/ \E j \in DOMAIN u : IsWhole(u[j])
                       \/ \E j \in DOMAIN u : j < i /\ IsListen(u[j], Root, spec)
    BY DEF Prepared
  <2>1. CASE i \in DOMAIN c
    BY <1>1, <1>3, <1>8, <2>1 DEF Prepared
  <2>2. CASE i \notin DOMAIN c
    <3>1. i - Len(c) \in DOMAIN n /\ u[i] = n[i - Len(c)]
      BY <1>2, <2>2
    <3>2. Waits(c, Root, spec)
      BY <1>8, <3>1 DEF Has
    <3>3. PICK j \in DOMAIN c : IsListen(c[j], Root, spec)
      BY <3>2 DEF Waits
    <3>4. j < i
      BY <1>1, <2>2
    <3>. QED
      BY <1>1, <1>3, <3>3, <3>4
  <2>. QED
    BY <2>1, <2>2
<1>9. Waits(u, x, spec) <=> Waits(c, x, spec) \/ Waits(n, x, spec)
  BY <1>1, <1>2, <1>3 DEF Waits
<1>. QED
  BY <1>4, <1>5, <1>6, <1>7, <1>8, <1>9 DEF Lengthens

\* A whole node is told to every child; nothing is told once nothing is on its way.
LEMMA TellsWhole ==
  ASSUME NEW c \in Seq(Messages), NEW j \in DOMAIN c, IsWhole(c[j]), NEW x
  PROVE  ~Silent(c, x)
BY DEF IsWhole, Silent, Fits

-----------------------------------------------------------------------------
(* What is on its way, s to the server and c to the client, for listens l,  *)
(* views v, the server's data d, the paths sv that it serves and n specs.   *)

Numbered(s, c, n) == \A q, spec : Waits(s, q, spec) \/ Waits(c, q, spec) => spec \in 1 .. n

Judged(c) == \A m : Has(c, m) /\ m.kind = "listen" => (m.ok <=> m.path \notin Denied)

\* A listen is asked for once, and answered after that.
Singly(s, c, l) ==
  \A q \in Paths : l[q] # 0 => Once(s, q, l[q]) /\ ~(Waits(s, q, l[q]) /\ Waits(c, q, l[q]))

\* It is asked for, refused, or the server sends what changes.
Decided(s, c, l, sv) ==
  \A q \in Paths : l[q] # 0 =>
    \/ AskedLast(s, q, l[q])
    \/ q \in Denied /\ Waits(c, q, l[q])
    \/ q \notin Denied /\ q \in sv /\ NoUnlisten(s, q)

\* The server has taken the listen of q, so its messages bring every view below
\* what the server has.
Watched(s, l, q) == q \notin Denied /\ l[q] # 0 /\ ~Waits(s, q, l[q])
Due(s, c, l, v, d) ==
  \A p \in Paths : v[p].on /\ Watched(s, l, From(v, p)) =>
    \A x \in Below(p) : Brings(c, x, v[p].server[x], d[x])

\* The view of the location takes the merges it is sent.
Readied(s, c, l, v) == Watched(s, l, Root) => v[Root].serverFull \/ Prepared(c, l[Root])

\* While the listen of the location is on its way, a view below it has what the view
\* of the location has, or the server goes on with the listen of its own until then.
Passed(s, c, l, v, d, sv) ==
  Root \notin Denied /\ l[Root] # 0 /\ Waits(s, Root, l[Root]) =>
    \A x \in Children : v[x].on =>
      \/ v[Root].serverFull /\ v[Root].server[x] = v[x].server[x]
      \/ Bridged(s, x, l[Root])
      \/ x \in sv /\ Held(s, x, l[Root]) /\ Brings(c, x, v[x].server[x], d[x])

Quiet(s, c, l, v, d, sv, n) ==
  /\ Numbered(s, c, n) /\ Judged(c) /\ Singly(s, c, l) /\ Decided(s, c, l, sv)
  /\ Due(s, c, l, v, d) /\ Readied(s, c, l, v) /\ Passed(s, c, l, v, d, sv)

\* The value b of child x after message h, of value a.
Takes(h, x, a, b) == b = IF Fits(h, x) THEN Given(h, x) ELSE a

\* The client takes a message that refuses no listen.
LEMMA QuietTakes ==
  ASSUME NEW s, NEW c \in Seq(Messages), c # <<>>, NEW h, h = c[1], NEW l, NEW v, NEW w, NEW d, NEW sv, NEW n,
         Quiet(s, c, l, v, d, sv, n), Covers(l, v),
         \A q \in Paths : q \in Denied => ~IsListen(h, q, l[q]),
         \A p \in Paths : w[p].on = v[p].on,
         v[Root].serverFull => w[Root].serverFull,
         v[Root].on /\ (IsWhole(h) \/ IsListen(h, Root, l[Root])) => w[Root].serverFull,
         \A p \in Paths : v[p].on => \A x \in Below(p) :
           \/ Takes(h, x, v[p].server[x], w[p].server[x])
           \/ p = Root /\ ~v[Root].serverFull /\ h.kind = "merge"
  PROVE  Quiet(s, Tail(c), l, w, d, sv, n)
<1>. PICK u : u = Tail(c)
  OBVIOUS
<1>0. Root \in Paths /\ Children \subseteq Paths
  BY DEF Paths
<1>1. \A x, spec : Shortens(c, u, x, spec)
  BY MessageTaken
<1>. USE DEF Shortens
<1>2. u \in Seq(Messages) /\ \A m : Has(u, m) => Has(c, m)
  BY TailAt, HasTail
<1>3. Numbered(s, u, n)
  BY <1>1 DEF Quiet, Numbered
<1>4. Judged(u)
  BY <1>2 DEF Quiet, Judged
<1>5. Singly(s, u, l)
  BY <1>1 DEF Quiet, Singly
<1>6. Decided(s, u, l, sv)
  BY <1>1 DEF Quiet, Decided
<1>7. ASSUME NEW p \in Paths, w[p].on, Watched(s, l, From(w, p)), NEW x \in Below(p)
      PROVE  Brings(u, x, w[p].server[x], d[x])
  <2>1. v[p].on /\ From(w, p) = From(v, p)
    BY <1>0, <1>7 DEF From
  <2>2. Brings(c, x, v[p].server[x], d[x])
    BY <1>7, <2>1 DEF Quiet, Due
  <2>3. CASE Takes(h, x, v[p].server[x], w[p].server[x])
    BY <1>1, <2>2, <2>3 DEF Takes
  <2>4. CASE p = Root /\ ~v[Root].serverFull /\ h.kind = "merge"
    <3>1. Prepared(c, l[Root])
      BY <1>7, <2>1, <2>4 DEF From, Quiet, Readied
    <3>2. PICK j \in DOMAIN u : IsWhole(u[j])
      BY <1>1, <2>4, <3>1
    <3>3. ~Silent(u, x)
      BY <1>2, <3>2, TellsWhole
    <3>4. \E a : Brings(u, x, a, d[x])
      BY <1>1, <2>2
    <3>. QED
      BY <3>3, <3>4 DEF Brings
  <2>. QED
    BY <1>7, <2>1, <2>3, <2>4
<1>8. Due(s, u, l, w, d)
  BY <1>7 DEF Due
<1>9. Readied(s, u, l, w)
  <2>. SUFFICES ASSUME Watched(s, l, Root), ~w[Root].serverFull
                PROVE  Prepared(u, l[Root])
    BY DEF Readied
  <2>1. v[Root].on /\ ~v[Root].serverFull
    BY <1>0 DEF Covers, Watched
  <2>2. Prepared(c, l[Root])
    BY <2>1 DEF Quiet, Readied
  <2>. QED
    BY <1>1, <2>1, <2>2
<1>10. Passed(s, u, l, w, d, sv)
  <2>. SUFFICES ASSUME Root \notin Denied, l[Root] # 0, Waits(s, Root, l[Root]), NEW x \in Children, w[x].on
                PROVE  \/ w[Root].serverFull /\ w[Root].server[x] = w[x].server[x]
                       \/ Bridged(s, x, l[Root])
                       \/ x \in sv /\ Held(s, x, l[Root]) /\ Brings(u, x, w[x].server[x], d[x])
    BY DEF Passed
  <2>1. v[x].on /\ v[Root].on /\ x \in Paths /\ x # Root /\ x \in Below(x) /\ x \in Below(Root)
    BY <1>0, WritesAssumption, BelowIs DEF Covers
  <2>2. Takes(h, x, v[x].server[x], w[x].server[x])
    BY <2>1
  <2>3. v[Root].serverFull => Takes(h, x, v[Root].server[x], w[Root].server[x])
    BY <1>0, <2>1
  <2>4. \/ v[Root].serverFull /\ v[Root].server[x] = v[x].server[x]
        \/ Bridged(s, x, l[Root])
        \/ x \in sv /\ Held(s, x, l[Root]) /\ Brings(c, x, v[x].server[x], d[x])
    BY <2>1 DEF Quiet, Passed
  <2>5. Brings(c, x, v[x].server[x], d[x]) => Brings(u, x, w[x].server[x], d[x])
    BY <1>1, <2>2 DEF Takes
  <2>6. v[Root].serverFull /\ v[Root].server[x] = v[x].server[x] =>
          w[Root].serverFull /\ w[Root].server[x] = w[x].server[x]
    BY <2>2, <2>3 DEF Takes
  <2>. QED
    BY <2>4, <2>5, <2>6
<1>. QED
  BY <1>3, <1>4, <1>5, <1>6, <1>8, <1>9, <1>10 DEF Quiet

\* The listens of two queues of requests, and when they are given up, are the same.
SameListens(s, u) ==
  \A q, spec :
    /\ Waits(u, q, spec) <=> Waits(s, q, spec)
    /\ Once(s, q, spec) => Once(u, q, spec)
    /\ NoUnlisten(s, q) => NoUnlisten(u, q)
    /\ AskedLast(s, q, spec) => AskedLast(u, q, spec)
    /\ Held(s, q, spec) => Held(u, q, spec)
    /\ Bridged(s, q, spec) => Bridged(u, q, spec)

SameServers(v, w) ==
  \A p \in Paths :
    /\ w[p].on = v[p].on
    /\ v[p].on => w[p].server = v[p].server
    /\ v[p].serverFull => w[p].serverFull

\* A put that is sent, or taken by the server.
LEMMA PutsListenNot ==
  ASSUME NEW s \in Seq(Requests)
  PROVE  /\ SameListens(s, s)
         /\ \A m \in Requests : IsPut(m) => SameListens(s, s \o <<m>>)
         /\ s # <<>> /\ IsPut(s[1]) => SameListens(s, Tail(s))
<1>1. SameListens(s, s)
  BY DEF SameListens
<1>2. ASSUME NEW m \in Requests, IsPut(m)
      PROVE  SameListens(s, s \o <<m>>)
  <2>. PICK r : r = <<m>>
    OBVIOUS
  <2>1. r \in Seq(Requests) /\ \A n : Has(r, n) => n = m
    BY CountOne, HasOne
  <2>2. \A q, spec : ~Waits(r, q, spec) /\ NoUnlisten(r, q)
    BY <1>2, <2>1 DEF Has, Waits, NoUnlisten, IsListen, IsUnlisten, IsPut
  <2>3. \A q, spec : Extends(s, r, s \o r, q, spec)
    BY <2>1, RequestsAdded
  <2>. USE DEF Extends
  <2>. QED
    BY <2>2, <2>3 DEF SameListens
<1>3. ASSUME s # <<>>, IsPut(s[1])
      PROVE  SameListens(s, Tail(s))
  <2>. PICK u : u = Tail(s)
    OBVIOUS
  <2>1. \A q, spec : Serves(s, u, q, spec)
    BY <1>3, RequestServed
  <2>. USE DEF Serves
  <2>2. s[1].kind # "listen" /\ \A q, spec : ~IsListen(s[1], q, spec)
    BY <1>3 DEF IsPut, IsListen
  <2>. QED
    BY <2>1, <2>2 DEF SameListens
<1>. QED
  BY <1>1, <1>2, <1>3

\* A step that asks for no listen, gives none up and changes nothing that the views
\* have from the server.
LEMMA QuietSame ==
  ASSUME NEW s, NEW u, NEW c, NEW l, NEW v, NEW w, NEW d, NEW sv, NEW n,
         Quiet(s, c, l, v, d, sv, n), SameListens(s, u), SameServers(v, w), Covers(l, v)
  PROVE  Quiet(u, c, l, w, d, sv, n)
<1>0. Root \in Paths /\ Children \subseteq Paths
  BY DEF Paths
<1>1. Numbered(u, c, n) /\ Judged(c)
  BY DEF Quiet, Numbered, SameListens
<1>2. Singly(u, c, l)
  BY DEF Quiet, Singly, SameListens
<1>3. Decided(u, c, l, sv)
  BY DEF Quiet, Decided, SameListens
<1>4. \A q : Watched(u, l, q) <=> Watched(s, l, q)
  BY DEF Watched, SameListens
<1>5. Due(u, c, l, w, d)
  <2>. SUFFICES ASSUME NEW p \in Paths, w[p].on, Watched(u, l, From(w, p)), NEW x \in Below(p)
                PROVE  Brings(c, x, w[p].server[x], d[x])
    BY DEF Due
  <2>1. v[p].on /\ w[p].server = v[p].server /\ From(w, p) = From(v, p)
    BY <1>0 DEF SameServers, From
  <2>. QED
    BY <1>4, <2>1 DEF Quiet, Due
<1>6. Readied(u, c, l, w)
  BY <1>0, <1>4 DEF Quiet, Readied, SameServers
<1>7. Passed(u, c, l, w, d, sv)
  <2>. SUFFICES ASSUME Root \notin Denied, l[Root] # 0, Waits(u, Root, l[Root]), NEW x \in Children, w[x].on
                PROVE  \/ w[Root].serverFull /\ w[Root].server[x] = w[x].server[x]
                       \/ Bridged(u, x, l[Root])
                       \/ x \in sv /\ Held(u, x, l[Root]) /\ Brings(c, x, w[x].server[x], d[x])
    BY DEF Passed
  <2>1. v[x].on /\ v[Root].on /\ w[x].server = v[x].server /\ w[Root].server = v[Root].server
        /\ (v[Root].serverFull => w[Root].serverFull)
    BY <1>0 DEF SameServers, Covers
  <2>2. \/ v[Root].serverFull /\ v[Root].server[x] = v[x].server[x]
        \/ Bridged(s, x, l[Root])
        \/ x \in sv /\ Held(s, x, l[Root]) /\ Brings(c, x, v[x].server[x], d[x])
    BY <2>1 DEF Quiet, Passed, SameListens
  <2>. QED
    BY <2>1, <2>2 DEF SameListens
<1>. QED
  BY <1>1, <1>2, <1>3, <1>5, <1>6, <1>7 DEF Quiet

\* Listens of which something is on its way, by Sources.
LEMMA AskedWaits ==
  ASSUME NEW s, NEW c, NEW q, NEW spec, Asked(s, c, q, spec)
  PROVE  Waits(s, q, spec) \/ Waits(c, q, spec)
BY DEF Asked, Has, Waits

\* The server tells its listeners of new data e.
LEMMA QuietTells ==
  ASSUME NEW s, NEW c \in Seq(Messages), NEW r \in Seq(Messages), \A m : Has(r, m) => m.kind # "listen",
         NEW l, NEW v, NEW d, NEW e, NEW sv, NEW n,
         \A x \in Children :
           \/ Tells(r, x, e[x])
           \/ Silent(r, x) /\ (e[x] = d[x] \/ (Root \notin sv /\ x \notin sv)),
         Quiet(s, c, l, v, d, sv, n), Covers(l, v), Sources(s, c, l, v)
  PROVE  Quiet(s, c \o r, l, v, e, sv, n)
<1>. PICK u : u = c \o r
  OBVIOUS
<1>0. Root \in Paths /\ Children \subseteq Paths
  BY DEF Paths
<1>1. \A x, spec : Lengthens(c, r, u, x, spec)
  BY MessagesAdded
<1>. USE DEF Lengthens
<1>2. \A q, spec : Waits(u, q, spec) <=> Waits(c, q, spec)
  <2>1. \A q, spec : ~Waits(r, q, spec)
    BY DEF Waits, Has, IsListen
  <2>. QED
    BY <1>1, <2>1
<1>3. \A m : Has(u, m) <=> Has(c, m) \/ Has(r, m)
  BY HasConcat
<1>4. Numbered(s, u, n) /\ Judged(u) /\ Singly(s, u, l) /\ Decided(s, u, l, sv)
  <2>1. Numbered(s, u, n)
    BY <1>2 DEF Quiet, Numbered
  <2>2. Judged(u)
    BY <1>3 DEF Quiet, Judged
  <2>3. Singly(s, u, l)
    BY <1>2 DEF Quiet, Singly
  <2>4. Decided(s, u, l, sv)
    BY <1>2 DEF Quiet, Decided
  <2>. QED
    BY <2>1, <2>2, <2>3, <2>4
<1>5. ASSUME NEW x \in Children, NEW a, Brings(c, x, a, d[x]), Root \in sv \/ x \in sv
      PROVE  Brings(u, x, a, e[x])
  <2>1. CASE Tells(r, x, e[x])
    BY <1>1, <2>1 DEF Brings
  <2>2. CASE Silent(r, x) /\ e[x] = d[x]
    BY <1>1, <1>5, <2>2
  <2>. QED
    BY <1>5, <2>1, <2>2
<1>6. ASSUME NEW q \in Paths, Watched(s, l, q)
      PROVE  q \in sv
  BY <1>6 DEF Quiet, Decided, Watched, AskedLast, Waits
<1>7. Due(s, u, l, v, e)
  <2>. SUFFICES ASSUME NEW p \in Paths, v[p].on, Watched(s, l, From(v, p)), NEW x \in Below(p)
                PROVE  Brings(u, x, v[p].server[x], e[x])
    BY DEF Due
  <2>1. Brings(c, x, v[p].server[x], d[x]) /\ x \in Children
    BY BelowIs DEF Quiet, Due
  <2>2. From(v, p) \in Paths /\ (From(v, p) = Root \/ From(v, p) = p)
    BY <1>0 DEF From
  <2>3. Root \in sv \/ x \in sv
    BY <1>6, <2>2, BelowIs
  <2>. QED
    BY <1>5, <2>1, <2>3
<1>8. Readied(s, u, l, v)
  <2>. SUFFICES ASSUME Watched(s, l, Root), ~v[Root].serverFull
                PROVE  Prepared(u, l[Root])
    BY DEF Readied
  <2>1. v[Root].on
    BY <1>0 DEF Covers, Watched
  <2>2. Asked(s, c, Root, l[Root])
    BY <1>0, <2>1 DEF Sources, From
  <2>3. Waits(c, Root, l[Root])
    BY <2>2, AskedWaits DEF Watched
  <2>. QED
    BY <1>1, <2>3 DEF Quiet, Readied
<1>9. Passed(s, u, l, v, e, sv)
  BY <1>5 DEF Quiet, Passed
<1>. QED
  BY <1>4, <1>7, <1>8, <1>9 DEF Quiet

\* The server takes an unlisten.
LEMMA QuietUnlistens ==
  ASSUME NEW s \in Seq(Requests), s # <<>>, NEW h, h = s[1], h.kind = "unlisten", NEW u, u = Tail(s),
         NEW c, NEW l, NEW v, NEW d, NEW sv, NEW n, Quiet(s, c, l, v, d, sv, n)
  PROVE  Quiet(u, c, l, v, d, sv \ {h.path}, n)
<1>1. \A q, spec : Serves(s, u, q, spec)
  BY RequestServed
<1>. USE DEF Serves
<1>2. \A q, spec : ~IsListen(h, q, spec) /\ (q = h.path => IsUnlisten(h, q))
  BY DEF IsListen, IsUnlisten
<1>3. Numbered(u, c, n) /\ Judged(c) /\ Singly(u, c, l)
  BY <1>1 DEF Quiet, Numbered, Singly
<1>4. Decided(u, c, l, sv \ {h.path})
  BY <1>1, <1>2 DEF Quiet, Decided
<1>5. \A q : Watched(u, l, q) <=> Watched(s, l, q)
  BY <1>1, <1>2 DEF Watched
<1>6. Due(u, c, l, v, d) /\ Readied(u, c, l, v)
  BY <1>5 DEF Quiet, Due, Readied
<1>7. Passed(u, c, l, v, d, sv \ {h.path})
  <2>. SUFFICES ASSUME Root \notin Denied, l[Root] # 0, Waits(u, Root, l[Root]), NEW x \in Children, v[x].on
                PROVE  \/ v[Root].serverFull /\ v[Root].server[x] = v[x].server[x]
                       \/ Bridged(u, x, l[Root])
                       \/ /\ x \in sv \ {h.path} /\ Held(u, x, l[Root])
                          /\ Brings(c, x, v[x].server[x], d[x])
    BY DEF Passed
  <2>1. \/ v[Root].serverFull /\ v[Root].server[x] = v[x].server[x]
        \/ Bridged(s, x, l[Root])
        \/ x \in sv /\ Held(s, x, l[Root]) /\ Brings(c, x, v[x].server[x], d[x])
    BY <1>1 DEF Quiet, Passed
  <2>. QED
    BY <1>1, <1>2, <2>1
<1>. QED
  BY <1>3, <1>4, <1>6, <1>7 DEF Quiet

\* The server takes a listen and answers, with the data r unless the listener has them.
LEMMA QuietServes ==
  ASSUME NEW s \in Seq(Requests), s # <<>>, NEW h, h = s[1], h.kind = "listen", h.path \in Paths,
         h.path \notin Denied, NEW u, u = Tail(s),
         NEW c \in Seq(Messages), NEW r \in Seq(Messages), NEW l, NEW v, NEW d, NEW sv, NEW n,
         Quiet(s, c, l, v, d, sv, n), Covers(l, v),
         \A m : Has(r, m) /\ m.kind = "listen" => m.path = h.path /\ m.ok,
         \A m : Has(r, m) => m.kind # "merge",
         \A q, spec : Waits(r, q, spec) <=> IsListen(h, q, spec),
         \A x \in Children : Tells(r, x, d[x]) \/ Silent(r, x),
         \A x \in Below(h.path) :
           Tells(r, x, d[x]) \/ (Silent(r, x) /\ Silent(c, x) /\ v[h.path].server[x] = d[x]),
         h.path = Root => \/ \E m : Has(r, m) /\ IsWhole(m)
                          \/ \A m : Has(c, m) => m.kind # "merge"
  PROVE  Quiet(u, c \o r, l, v, d, sv \cup {h.path}, n)
<1>. PICK e, p0 : e = c \o r /\ p0 = h.path
  OBVIOUS
<1>0. Root \in Paths /\ Children \subseteq Paths
  BY DEF Paths
<1>1. \A q, spec : Serves(s, u, q, spec)
  BY RequestServed
<1>. USE DEF Serves
<1>2. \A x, spec : Lengthens(c, r, e, x, spec)
  BY MessagesAdded
<1>. USE DEF Lengthens
<1>3. \A q, spec : IsListen(h, q, spec) <=> q = p0 /\ spec = h.spec
  BY DEF IsListen
<1>4. \A m : Has(e, m) <=> Has(c, m) \/ Has(r, m)
  BY HasConcat
<1>5. \A q, spec : IsListen(h, q, spec) => Waits(s, q, spec)
  BY TailAt DEF Waits
<1>6. Numbered(u, e, n)
  BY <1>1, <1>2, <1>5 DEF Quiet, Numbered
<1>7. Judged(e)
  BY <1>4 DEF Quiet, Judged
<1>8. Singly(u, e, l)
  <2>. SUFFICES ASSUME NEW q \in Paths, l[q] # 0
                PROVE  Once(u, q, l[q]) /\ ~(Waits(u, q, l[q]) /\ Waits(e, q, l[q]))
    BY DEF Singly
  <2>1. Once(s, q, l[q]) /\ ~(Waits(s, q, l[q]) /\ Waits(c, q, l[q]))
    BY DEF Quiet, Singly
  <2>. QED
    BY <1>1, <1>2, <2>1
<1>9. Decided(u, e, l, sv \cup {p0})
  <2>. SUFFICES ASSUME NEW q \in Paths, l[q] # 0
                PROVE  \/ AskedLast(u, q, l[q])
                       \/ q \in Denied /\ Waits(e, q, l[q])
                       \/ q \notin Denied /\ q \in sv \cup {p0} /\ NoUnlisten(u, q)
    BY DEF Decided
  <2>1. \/ AskedLast(s, q, l[q])
        \/ q \in Denied /\ Waits(c, q, l[q])
        \/ q \notin Denied /\ q \in sv /\ NoUnlisten(s, q)
    BY DEF Quiet, Decided
  <2>. QED
    BY <1>1, <1>2, <1>3, <2>1
<1>10. ASSUME NEW x \in Children, NEW a, Brings(c, x, a, d[x])
       PROVE  Brings(e, x, a, d[x])
  <2>1. CASE Tells(r, x, d[x])
    BY <1>2, <2>1 DEF Brings
  <2>2. CASE Silent(r, x)
    BY <1>2, <1>10, <2>2
  <2>. QED
    BY <2>1, <2>2
<1>11. Due(u, e, l, v, d)
  <2>. SUFFICES ASSUME NEW p \in Paths, v[p].on, Watched(u, l, From(v, p)), NEW x \in Below(p)
                PROVE  Brings(e, x, v[p].server[x], d[x])
    BY DEF Due
  <2>. PICK q : q = From(v, p)
    OBVIOUS
  <2>1. q \in Paths /\ (q = Root \/ q = p) /\ x \in Children /\ Watched(u, l, q)
    BY <1>0, BelowIs DEF From
  <2>2. CASE Waits(s, q, l[q])
    <3>1. q = p0 /\ IsListen(h, q, l[q])
      BY <1>1, <1>3, <2>1, <2>2 DEF Watched
    <3>2. x \in Below(p0)
      BY <2>1, <3>1, BelowIs
    <3>3. CASE Tells(r, x, d[x])
      BY <1>2, <3>3 DEF Brings
    <3>4. CASE ~Tells(r, x, d[x])
      <4>1. Silent(r, x) /\ Silent(c, x) /\ v[p0].server[x] = d[x]
        BY <3>2, <3>4
      <4>2. Silent(e, x)
        BY <1>2, <4>1
      <4>3. CASE p = p0
        BY <4>1, <4>2, <4>3 DEF Brings
      <4>4. CASE p # p0
        <5>1. p0 = Root /\ p \in Children /\ x = p
          BY <2>1, <3>1, <4>4, BelowIs
        <5>2. Waits(s, Root, l[Root]) /\ Root \notin Denied /\ l[Root] # 0 /\ ~Waits(u, Root, l[Root])
          BY <2>1, <2>2, <3>1, <5>1 DEF Watched
        <5>3. ~Bridged(s, x, l[Root])
          <6>1. Once(s, Root, l[Root])
            BY <1>0, <5>2 DEF Quiet, Singly
          <6>2. x # Root /\ h.path = Root
            BY <2>1, <5>1, WritesAssumption
          <6>3. ~Bridged(u, x, l[Root])
            BY <5>2 DEF Bridged, Waits
          <6>. QED
            BY <1>1, <6>2, <6>3
        <5>4. \/ v[Root].serverFull /\ v[Root].server[x] = v[x].server[x]
              \/ Brings(c, x, v[x].server[x], d[x])
          BY <2>1, <5>1, <5>2, <5>3 DEF Quiet, Passed
        <5>5. v[x].server[x] = d[x]
          BY <4>1, <5>1, <5>4 DEF Silent, Tells, Brings
        <5>. QED
          BY <4>2, <5>1, <5>5 DEF Brings
      <4>. QED
        BY <4>3, <4>4
    <3>. QED
      BY <3>3, <3>4
  <2>3. CASE ~Waits(s, q, l[q])
    BY <2>1, <2>3, <1>10 DEF Quiet, Due, Watched
  <2>. QED
    BY <2>2, <2>3
<1>12. Readied(u, e, l, v)
  <2>. SUFFICES ASSUME Watched(u, l, Root), ~v[Root].serverFull
                PROVE  Prepared(e, l[Root])
    BY DEF Readied
  <2>1. CASE Waits(s, Root, l[Root])
    <3>1. p0 = Root
      BY <1>1, <1>3, <2>1 DEF Watched
    <3>2. CASE \E m : Has(r, m) /\ IsWhole(m)
      BY <1>2, <3>2
    <3>3. CASE \A m : Has(c, m) => m.kind # "merge"
      BY <1>4, <3>3 DEF Has, Prepared
    <3>. QED
      BY <3>1, <3>2, <3>3
  <2>2. CASE ~Waits(s, Root, l[Root])
    BY <2>2, <1>2 DEF Quiet, Readied, Watched
  <2>. QED
    BY <2>1, <2>2
<1>13. Passed(u, e, l, v, d, sv \cup {p0})
  <2>. SUFFICES ASSUME Root \notin Denied, l[Root] # 0, Waits(u, Root, l[Root]), NEW x \in Children, v[x].on
                PROVE  \/ v[Root].serverFull /\ v[Root].server[x] = v[x].server[x]
                       \/ Bridged(u, x, l[Root])
                       \/ /\ x \in sv \cup {p0} /\ Held(u, x, l[Root])
                          /\ Brings(e, x, v[x].server[x], d[x])
    BY DEF Passed
  <2>1. \/ v[Root].serverFull /\ v[Root].server[x] = v[x].server[x]
        \/ Bridged(s, x, l[Root])
        \/ x \in sv /\ Held(s, x, l[Root]) /\ Brings(c, x, v[x].server[x], d[x])
    BY <1>1 DEF Quiet, Passed
  <2>2. ~IsListen(h, Root, l[Root])
    BY <1>0, <1>1 DEF Quiet, Singly
  <2>3. ASSUME h.path = x
        PROVE  Brings(e, x, v[x].server[x], d[x])
    <3>1. x \in Below(h.path)
      BY <1>0, <2>3, WritesAssumption, BelowIs
    <3>2. CASE Tells(r, x, d[x])
      BY <1>2, <3>2 DEF Brings
    <3>3. CASE ~Tells(r, x, d[x])
      BY <1>2, <2>3, <3>1, <3>3 DEF Brings
    <3>. QED
      BY <3>2, <3>3
  <2>. QED
    BY <1>1, <1>10, <2>1, <2>2, <2>3
<1>. QED
  BY <1>6, <1>7, <1>8, <1>9, <1>11, <1>12, <1>13 DEF Quiet

\* The server refuses a listen.
LEMMA QuietRefuses ==
  ASSUME NEW s \in Seq(Requests), s # <<>>, NEW h, h = s[1], h.kind = "listen", h.path \in Paths,
         h.path \in Denied, Root \in Denied \/ Denied = {}, NEW u, u = Tail(s),
         NEW c \in Seq(Messages), NEW r \in Seq(Messages), NEW l, NEW v, NEW d, NEW sv, NEW n,
         Quiet(s, c, l, v, d, sv, n), Covers(l, v),
         \A m : Has(r, m) => m.kind = "listen" /\ m.path = h.path /\ ~m.ok,
         \A q, spec : Waits(r, q, spec) <=> IsListen(h, q, spec)
  PROVE  Quiet(u, c \o r, l, v, d, sv, n)
<1>. PICK e : e = c \o r
  OBVIOUS
<1>0. Root \in Paths /\ Children \subseteq Paths
  BY DEF Paths
<1>1. \A q, spec : Serves(s, u, q, spec)
  BY RequestServed
<1>. USE DEF Serves
<1>2. \A x : Silent(r, x)
  BY DEF Silent, Fits, Has
<1>3. \A x, spec : Lengthens(c, r, e, x, spec)
  BY MessagesAdded
<1>. USE DEF Lengthens
<1>4. \A q, spec : IsListen(h, q, spec) <=> q = h.path /\ spec = h.spec
  BY DEF IsListen
<1>5. \A m : Has(e, m) <=> Has(c, m) \/ Has(r, m)
  BY HasConcat
<1>6. \A q, spec : IsListen(h, q, spec) => Waits(s, q, spec)
  BY TailAt DEF Waits
<1>7. Numbered(u, e, n)
  BY <1>1, <1>3, <1>6 DEF Quiet, Numbered
<1>8. Judged(e)
  BY <1>5 DEF Quiet, Judged
<1>9. Singly(u, e, l)
  <2>. SUFFICES ASSUME NEW q \in Paths, l[q] # 0
                PROVE  Once(u, q, l[q]) /\ ~(Waits(u, q, l[q]) /\ Waits(e, q, l[q]))
    BY DEF Singly
  <2>1. Once(s, q, l[q]) /\ ~(Waits(s, q, l[q]) /\ Waits(c, q, l[q]))
    BY DEF Quiet, Singly
  <2>. QED
    BY <1>1, <1>3, <2>1
<1>10. Decided(u, e, l, sv)
  <2>. SUFFICES ASSUME NEW q \in Paths, l[q] # 0
                PROVE  \/ AskedLast(u, q, l[q])
                       \/ q \in Denied /\ Waits(e, q, l[q])
                       \/ q \notin Denied /\ q \in sv /\ NoUnlisten(u, q)
    BY DEF Decided
  <2>1. \/ AskedLast(s, q, l[q])
        \/ q \in Denied /\ Waits(c, q, l[q])
        \/ q \notin Denied /\ q \in sv /\ NoUnlisten(s, q)
    BY DEF Quiet, Decided
  <2>. QED
    BY <1>1, <1>3, <1>4, <2>1
<1>11. \A q : Watched(u, l, q) => Watched(s, l, q)
  BY <1>1, <1>4 DEF Watched
<1>12. Due(u, e, l, v, d)
  BY <1>2, <1>3, <1>11 DEF Quiet, Due
<1>13. Readied(u, e, l, v)
  BY <1>3, <1>11 DEF Quiet, Readied
<1>14. Passed(u, e, l, v, d, sv)
  BY DEF Passed
<1>. QED
  BY <1>7, <1>8, <1>9, <1>10, <1>12, <1>13, <1>14 DEF Quiet


\* Every view of w has its data from one of v with the same source, or from one of ps.
Drawn(v, w, ps) ==
  \A p \in Paths : w[p].on /\ From(w, p) \notin ps =>
    \E o \in Paths : /\ v[o].on /\ From(v, o) = From(w, p)
                     /\ \A x \in Below(p) : x \in Below(o) /\ w[p].server[x] = v[o].server[x]

\* The client asks by r for listens m of the paths ps, and gives up others, so that
\* listens l are k and views v are w, after messages c have become e.
Asking(c, e, l, k, v, w, r, ps, n, m) ==
  /\ m = n + 1 \/ (m = n /\ ps = {})
  /\ \A q, spec : Waits(r, q, spec) <=> q \in ps /\ spec = m
  /\ \A q \in Paths : q \in ps => k[q] = m /\ Once(r, q, m) /\ AskedLast(r, q, m)
  /\ \A q \in Paths : q \notin ps /\ k[q] # 0 =>
       k[q] = l[q] /\ NoUnlisten(r, q) /\ (Waits(c, q, l[q]) => Waits(e, q, l[q]))
  /\ \A a : Has(e, a) => Has(c, a)
  /\ \A x, a, b : Brings(c, x, a, b) => Brings(e, x, a, b)
  /\ Drawn(v, w, ps)
  /\ Root \in ps => ~v[Root].on /\ IsListen(r[1], Root, m) /\ \A x \in Children : w[x] = v[x]
  /\ Root \notin ps /\ k[Root] # 0 =>
       /\ w[Root] = v[Root] /\ (Prepared(c, l[Root]) => Prepared(e, l[Root]))
       /\ \A x \in Children : w[x].on =>
            w[x] = v[x] \/ (v[Root].serverFull /\ w[x].server[x] = v[Root].server[x])

\* The client asks for listens, gives others up, or only changes its views.
LEMMA QuietAsks ==
  ASSUME NEW s \in Seq(Requests), NEW r \in Seq(Requests), NEW u, u = s \o r,
         NEW c \in Seq(Messages), NEW e \in Seq(Messages), NEW l, NEW k, NEW v, NEW w, NEW d, NEW sv,
         NEW n \in Nat, NEW m, NEW ps, Root \in Denied \/ Denied = {},
         Quiet(s, c, l, v, d, sv, n), Covers(l, v), Asking(c, e, l, k, v, w, r, ps, n, m)
  PROVE  Quiet(u, e, k, w, d, sv, m)
<1>. USE DEF Asking, Drawn
<1>0. Root \in Paths /\ Children \subseteq Paths /\ Root \notin Children
  BY WritesAssumption DEF Paths
<1>1. \A q, spec : Extends(s, r, u, q, spec)
  BY RequestsAdded
<1>. USE DEF Extends
<1>2. \A q, spec : Waits(e, q, spec) => Waits(c, q, spec)
  BY DEF Waits, Has
<1>3. Numbered(u, e, m)
  <2>. SUFFICES ASSUME NEW q, NEW spec, Waits(u, q, spec) \/ Waits(e, q, spec)
                PROVE  spec \in 1 .. m
    BY DEF Numbered
  <2>1. CASE Waits(s, q, spec) \/ Waits(c, q, spec)
    BY <2>1 DEF Quiet, Numbered
  <2>2. CASE Waits(r, q, spec)
    BY <2>2
  <2>. QED
    BY <1>1, <1>2, <2>1, <2>2
<1>4. \A q : q \in ps => ~Waits(s, q, m) /\ ~Waits(c, q, m)
  <2>. SUFFICES ASSUME NEW q, q \in ps, Waits(s, q, m) \/ Waits(c, q, m)
                PROVE  FALSE
    OBVIOUS
  <2>1. m \in 1 .. n /\ m = n + 1
    BY DEF Quiet, Numbered
  <2>. QED
    BY <2>1
<1>5. Judged(e)
  BY DEF Quiet, Judged
<1>6. \A q \in Paths : q \notin ps /\ k[q] # 0 =>
        k[q] = l[q] /\ l[q] # 0 /\ NoUnlisten(r, q) /\ ~Waits(r, q, l[q])
  OBVIOUS
<1>7. Singly(u, e, k)
  <2>. SUFFICES ASSUME NEW q \in Paths, k[q] # 0
                PROVE  Once(u, q, k[q]) /\ ~(Waits(u, q, k[q]) /\ Waits(e, q, k[q]))
    BY DEF Singly
  <2>1. CASE q \in ps
    BY <1>1, <1>2, <1>4, <2>1
  <2>2. CASE q \notin ps
    BY <1>6, <2>2, <1>1, <1>2 DEF Quiet, Singly
  <2>. QED
    BY <2>1, <2>2
<1>8. Decided(u, e, k, sv)
  <2>. SUFFICES ASSUME NEW q \in Paths, k[q] # 0
                PROVE  \/ AskedLast(u, q, k[q])
                       \/ q \in Denied /\ Waits(e, q, k[q])
                       \/ q \notin Denied /\ q \in sv /\ NoUnlisten(u, q)
    BY DEF Decided
  <2>1. CASE q \in ps
    BY <1>1, <2>1
  <2>2. CASE q \notin ps
    BY <1>6, <2>2, <1>1 DEF Quiet, Decided
  <2>. QED
    BY <2>1, <2>2
<1>9. \A q \in Paths : Watched(u, k, q) => q \notin ps /\ k[q] = l[q] /\ Watched(s, l, q)
  BY <1>1, <1>6 DEF Watched
<1>10. \A p \in Paths : From(w, p) \in Paths
  BY <1>0 DEF From
<1>11. Due(u, e, k, w, d)
  <2>. SUFFICES ASSUME NEW p \in Paths, w[p].on, Watched(u, k, From(w, p)), NEW x \in Below(p)
                PROVE  Brings(e, x, w[p].server[x], d[x])
    BY DEF Due
  <2>1. PICK o \in Paths : /\ v[o].on /\ From(v, o) = From(w, p)
                           /\ x \in Below(o) /\ w[p].server[x] = v[o].server[x]
    BY <1>9, <1>10
  <2>2. Watched(s, l, From(v, o))
    BY <1>9, <1>10, <2>1
  <2>3. Brings(c, x, v[o].server[x], d[x])
    BY <2>1, <2>2 DEF Quiet, Due
  <2>. QED
    BY <2>1, <2>3
<1>12. Readied(u, e, k, w)
  <2>. SUFFICES ASSUME Watched(u, k, Root), ~w[Root].serverFull
                PROVE  Prepared(e, k[Root])
    BY DEF Readied
  <2>1. Root \notin ps /\ k[Root] = l[Root] /\ k[Root] # 0 /\ Watched(s, l, Root)
    BY <1>0, <1>9 DEF Watched
  <2>. QED
    BY <2>1 DEF Quiet, Readied
<1>13. Passed(u, e, k, w, d, sv)
  <2>. SUFFICES ASSUME Root \notin Denied, k[Root] # 0, Waits(u, Root, k[Root]), NEW x \in Children, w[x].on
                PROVE  \/ w[Root].serverFull /\ w[Root].server[x] = w[x].server[x]
                       \/ Bridged(u, x, k[Root])
                       \/ x \in sv /\ Held(u, x, k[Root]) /\ Brings(e, x, w[x].server[x], d[x])
    BY DEF Passed
  <2>1. CASE Root \in ps
    <3>1. /\ ~v[Root].on /\ IsListen(r[1], Root, m) /\ w[x] = v[x] /\ k[Root] = m
          /\ x \in Paths /\ x # Root /\ v[x].on /\ x \notin Denied /\ AskedLast(r, Root, m)
      BY <1>0, <2>1
    <3>2. 1 \in DOMAIN r
      <4>1. PICK i \in DOMAIN r : TRUE
        BY <3>1 DEF AskedLast
      <4>2. DOMAIN r = 1 .. Len(r) /\ Len(r) \in Nat
        OBVIOUS
      <4>. QED
        BY <4>1, <4>2
    <3>3. /\ NoUnlisten(s, x) => Held(u, x, m)
          /\ \A any : AskedLast(s, x, any) => Bridged(u, x, m)
      BY <3>1, <3>2, RootAsked
    <3>4. l[x] # 0 /\ From(v, x) = x
      BY <3>1 DEF Covers, From
    <3>5. \/ AskedLast(s, x, l[x])
          \/ x \in sv /\ NoUnlisten(s, x)
      BY <3>1, <3>4 DEF Quiet, Decided
    <3>6. CASE NoUnlisten(s, x) /\ x \in sv /\ Waits(s, x, l[x])
      <4>1. AskedLast(s, x, l[x])
        BY <3>6 DEF NoUnlisten, Waits, AskedLast
      <4>. QED
        BY <3>1, <3>3, <4>1
    <3>7. CASE NoUnlisten(s, x) /\ x \in sv /\ ~Waits(s, x, l[x])
      <4>1. Watched(s, l, From(v, x)) /\ x \in Below(x)
        BY <3>1, <3>4, <3>7, BelowIs DEF Watched
      <4>2. Brings(c, x, v[x].server[x], d[x])
        BY <3>1, <4>1 DEF Quiet, Due
      <4>. QED
        BY <3>1, <3>3, <3>7, <4>2
    <3>. QED
      BY <3>1, <3>3, <3>5, <3>6, <3>7
  <2>2. CASE Root \notin ps
    <3>1. /\ k[Root] = l[Root] /\ l[Root] # 0 /\ w[Root] = v[Root] /\ Waits(s, Root, l[Root])
          /\ w[x] = v[x] \/ (v[Root].serverFull /\ w[x].server[x] = v[Root].server[x])
      BY <1>0, <1>1, <1>6, <2>2
    <3>2. CASE w[x] = v[x]
      BY <3>1, <3>2, <1>1 DEF Quiet, Passed
    <3>. QED
      BY <3>1, <3>2
  <2>. QED
    BY <2>1, <2>2
<1>. QED
  BY <1>3, <1>5, <1>7, <1>8, <1>11, <1>12, <1>13 DEF Quiet

-----------------------------------------------------------------------------
(* What is sent.                                                            *)

\* SetToSeq lists nothing twice.
LEMMA ListedOnce ==
  ASSUME NEW S, IsFiniteSet(S)
  PROVE  \A i, j \in 1 .. Cardinality(S) : SetToSeq(S)[i] = SetToSeq(S)[j] => i = j
<1>1. PICK b : b \in Bijection(1 .. Cardinality(S), S)
  BY FS_CardinalityType DEF ExistsBijection
<1>2. SetToSeq(S) \in [1 .. Cardinality(S) -> S] /\ IsInjective(SetToSeq(S))
  BY <1>1, FS_CardinalityType DEF SetToSeq, Bijection, Injection, Surjection, IsInjective
<1>. QED
  BY <1>2 DEF IsInjective

\* startListening asks for each path once, and gives none up.
LEMMA StartAsks ==
  ASSUME NEW ps, ps \subseteq Paths, view \in [Paths -> Caches], specs \in Nat,
         NEW r, r = Start(ps), NEW q
  PROVE  /\ \A spec : Waits(r, q, spec) <=> q \in ps /\ spec = specs + 1
         /\ \A spec : Once(r, q, spec)
         /\ q \in ps => AskedLast(r, q, specs + 1)
         /\ NoUnlisten(r, q)
<1>1. IsFiniteSet(ps)
  BY ChildrenAssumption, FS_AddElement, FS_Subset DEF Paths
<1>. PICK n, s : n = Cardinality(ps) /\ s = SetToSeq(ps)
  OBVIOUS
<1>2. /\ n \in Nat /\ s \in [1 .. n -> ps]
      /\ \A x \in ps : \E i \in 1 .. n : s[i] = x
      /\ \A i, j \in 1 .. n : s[i] = s[j] => i = j
  BY <1>1, Listing, ListedOnce
<1>3. r = [i \in 1 .. n |-> [kind |-> "listen", path |-> s[i], spec |-> specs + 1,
                             node |-> view[s[i]].server]]
  BY DEF Start, ListenRequest
<1>4. DOMAIN r = 1 .. n /\ \A i \in 1 .. n :
        r[i].kind = "listen" /\ r[i].path = s[i] /\ r[i].spec = specs + 1
  BY <1>3
<1>5. \A i \in DOMAIN r : \A spec : IsListen(r[i], q, spec) <=> s[i] = q /\ spec = specs + 1
  BY <1>4 DEF IsListen
<1>6. \A i \in DOMAIN r : ~IsUnlisten(r[i], q) /\ s[i] \in ps
  BY <1>2, <1>4 DEF IsUnlisten
<1>7. \A spec : Waits(r, q, spec) <=> q \in ps /\ spec = specs + 1
  BY <1>2, <1>4, <1>5 DEF Waits
<1>8. \A spec : Once(r, q, spec)
  BY <1>2, <1>4, <1>5 DEF Once
<1>9. q \in ps => AskedLast(r, q, specs + 1)
  BY <1>2, <1>4, <1>5, <1>6 DEF AskedLast
<1>. QED
  BY <1>6, <1>7, <1>8, <1>9 DEF NoUnlisten

\* What is sent to stop listening asks for nothing and gives up these paths only.
LEMMA StopGives ==
  ASSUME NEW ps, ps \subseteq Paths, NEW r, r = Stop(ps), NEW q
  PROVE  /\ \A spec : ~Waits(r, q, spec)
         /\ q \notin ps => NoUnlisten(r, q)
<1>1. IsFiniteSet(ps)
  BY ChildrenAssumption, FS_AddElement, FS_Subset DEF Paths
<1>. PICK n, s : n = Cardinality(ps) /\ s = SetToSeq(ps)
  OBVIOUS
<1>2. n \in Nat /\ s \in [1 .. n -> ps]
  BY <1>1, Listing
<1>3. r = [i \in 1 .. n |-> [kind |-> "unlisten", path |-> s[i]]]
  BY DEF Stop, Unlisten
<1>4. DOMAIN r = 1 .. n /\ \A i \in 1 .. n : r[i].kind = "unlisten" /\ r[i].path \in ps
  BY <1>2, <1>3
<1>. QED
  BY <1>4 DEF Waits, NoUnlisten, IsListen, IsUnlisten

\* One listen, and then others given up.
LEMMA AsksOne ==
  ASSUME NEW a \in Requests, a.kind = "listen", NEW r, DOMAIN r = {1}, r[1] = a, NEW q
  PROVE  /\ \A any : Waits(r, q, any) <=> q = a.path /\ any = a.spec
         /\ \A any : Once(r, q, any)
         /\ AskedLast(r, a.path, a.spec) /\ NoUnlisten(r, q)
<1>1. DOMAIN r = {1} /\ r[1] = a
  OBVIOUS
<1>2. /\ \A any : IsListen(a, q, any) <=> q = a.path /\ any = a.spec
      /\ IsListen(a, a.path, a.spec) /\ ~IsUnlisten(a, q)
  BY DEF IsListen, IsUnlisten
<1>3. \A j \in {1} : ~(j > 1)
  OBVIOUS
<1>4. \A any : Waits(r, q, any) <=> q = a.path /\ any = a.spec
  BY <1>1, <1>2 DEF Waits
<1>5. \A any : Once(r, q, any)
  BY <1>1 DEF Once
<1>6. AskedLast(r, a.path, a.spec)
  BY <1>1, <1>2, <1>3 DEF AskedLast
<1>7. NoUnlisten(r, q)
  BY <1>1, <1>2 DEF NoUnlisten
<1>. QED
  BY <1>4, <1>5, <1>6, <1>7

\* The server tells its listeners of what a write changes.
LEMMA NoticesTell ==
  ASSUME NEW ids, ids \subseteq Nat, NEW record \in RecordsWith(ids), data \in Node,
         NEW new, new = Onto(record.data, data), NEW r, r = Notices(record), NEW x \in Children
  PROVE  \/ Tells(r, x, new[x])
         \/ Silent(r, x) /\ (new[x] = data[x] \/ (Root \notin serving /\ x \notin serving))
<1>1. /\ record.path \in Paths /\ DOMAIN record.data \subseteq Children
      /\ record.path # Root => DOMAIN record.data = {record.path} /\ record.path \in Children
      /\ \A c \in DOMAIN record.data : record.data[c] \in ids \cup {None}
  BY RecordIs
<1>2. new \in Node /\ \A c \in Children : new[c] = IF c \in DOMAIN record.data THEN record.data[c] ELSE data[c]
  <2>1. \A c \in DOMAIN record.data : record.data[c] \in Values
    BY <1>1 DEF Values
  <2>2. data \in [Children -> Values]
    BY DEF Node
  <2>3. /\ new \in [Children -> Values]
        /\ \A c \in Children : new[c] = IF c \in DOMAIN record.data THEN record.data[c] ELSE data[c]
    BY <2>1, <2>2, OntoIs
  <2>. QED
    BY <2>3 DEF Node
<1>3. \A p \in Paths, c \in Children : Only(p, new)[c] = IF c \in Below(p) THEN new[c] ELSE None
  BY <1>2, OnlyIs
<1>4. ASSUME NEW m, r = <<m>>
      PROVE  (Fits(m, x) => Tells(r, x, Given(m, x))) /\ (~Fits(m, x) => Silent(r, x))
  <2>1. DOMAIN r = {1} /\ r[1] = m
    BY <1>4
  <2>2. \A j \in {1} : ~(j > 1)
    OBVIOUS
  <2>. QED
    BY <2>1, <2>2 DEF Tells, Silent
<1>5. CASE Root \in serving /\ record.merge
  <2>. PICK m : m = MergeMessage(record.data)
    OBVIOUS
  <2>1. r = <<m>> /\ m = [kind |-> "merge", changed |-> record.data]
    BY <1>5 DEF Notices, MergeMessage
  <2>2. Fits(m, x) <=> x \in DOMAIN record.data
    BY <2>1 DEF Fits
  <2>3. Given(m, x) = record.data[x]
    BY <2>1 DEF Given
  <2>. QED
    BY <1>2, <1>4, <2>1, <2>2, <2>3
<1>6. CASE Root \in serving /\ ~record.merge
  <2>. PICK m : m = DataMessage(record.path, Only(record.path, new))
    OBVIOUS
  <2>1. r = <<m>> /\ m = [kind |-> "data", path |-> record.path, node |-> Only(record.path, new)]
    BY <1>6 DEF Notices, DataMessage
  <2>2. Fits(m, x) <=> record.path \in {Root, x}
    BY <2>1 DEF Fits
  <2>3. Given(m, x) = Only(record.path, new)[x]
    BY <2>1 DEF Given
  <2>4. record.path \in {Root, x} => x \in Below(record.path)
    BY <1>1, BelowIs
  <2>. QED
    BY <1>1, <1>2, <1>3, <1>4, <2>1, <2>2, <2>3, <2>4
<1>7. CASE Root \notin serving
  <2>. PICK cs : cs = {c \in DOMAIN record.data : c \in serving}
    OBVIOUS
  <2>1. cs \subseteq Children /\ cs \subseteq Paths /\ IsFiniteSet(cs) /\ Root \notin cs
    <3>1. cs \subseteq Children
      BY <1>1
    <3>. QED
      BY <3>1, ChildrenAssumption, FS_Subset, WritesAssumption DEF Paths
  <2>. PICK n, s : n = Cardinality(cs) /\ s = SetToSeq(cs)
    OBVIOUS
  <2>2. /\ n \in Nat /\ s \in [1 .. n -> cs]
        /\ \A c \in cs : \E i \in 1 .. n : s[i] = c
        /\ \A i, j \in 1 .. n : s[i] = s[j] => i = j
    BY <2>1, Listing, ListedOnce
  <2>3. r = [i \in 1 .. n |-> DataMessage(s[i], Only(s[i], new))]
    BY <1>7 DEF Notices
  <2>4. DOMAIN r = 1 .. n /\ \A i \in 1 .. n :
          r[i].kind = "data" /\ r[i].path = s[i] /\ r[i].node = Only(s[i], new) /\ s[i] # Root
    <3>1. \A i \in 1 .. n : s[i] \in cs /\ s[i] # Root
      BY <2>1, <2>2
    <3>2. DOMAIN r = 1 .. n /\ \A i \in 1 .. n :
            r[i] = [kind |-> "data", path |-> s[i], node |-> Only(s[i], new)]
      BY <2>3 DEF DataMessage
    <3>. QED
      BY <3>1, <3>2
  <2>5. \A i \in DOMAIN r : Fits(r[i], x) <=> s[i] = x
    BY <2>4 DEF Fits
  <2>6. CASE x \in cs
    <3>1. PICK i \in 1 .. n : s[i] = x
      BY <2>2, <2>6
    <3>2. \A j \in DOMAIN r : j > i => ~Fits(r[j], x)
      BY <2>2, <2>4, <2>5, <3>1
    <3>3. Given(r[i], x) = new[x]
      <4>1. x \in Paths /\ x \in Below(x)
        BY <2>1, <2>6, BelowIs
      <4>. QED
        BY <1>3, <2>4, <3>1, <4>1 DEF Given
    <3>. QED
      BY <2>4, <2>5, <3>1, <3>2, <3>3 DEF Tells
  <2>7. CASE x \notin cs
    <3>1. Silent(r, x)
      BY <2>2, <2>4, <2>5, <2>7 DEF Silent
    <3>. QED
      BY <1>2, <1>7, <2>7, <3>1
  <2>. QED
    BY <2>6, <2>7
<1>. QED
  BY <1>5, <1>6, <1>7

-----------------------------------------------------------------------------
(* What the views have from the server after each operation.                *)

\* Operations that keep the tree and what each view that is on has from the server.
LEMMA StaysSame ==
  ASSUME NEW t, Good(t), NEW r, Kept(t, r), ServersStay(t, r)
  PROVE  SameServers(t.view, r.view)
<1>1. \A p \in Paths : t.view[p] \in Caches /\ r.view[p] \in Caches
  BY ViewIs DEF Kept
<1>2. \A p \in Paths : r.view[p].on = t.view[p].on
  BY <1>1 DEF Kept, Caches
<1>. QED
  BY <1>2 DEF Kept, ServersStay, SameServers

\* A write of the user changes nothing that the views have from the server.
LEMMA UserWriteServers ==
  ASSUME NEW s, Good(s), NEW record \in Records, \A i \in DOMAIN s.all : s.all[i].id < record.id,
         NEW r, r = ApplyUserWrite(WithRecord(s, record), record)
  PROVE  SameServers(s.view, r.view)
<1>. PICK t : t = WithRecord(s, record)
  OBVIOUS
<1>. DEFINE one(p) ==
              IF p # Root /\ p \notin DOMAIN record.data THEN t.view[p]
              ELSE IF p = Root /\ (record.path # Root \/ record.merge)
              THEN UserWriteChildren(t.view[p], record.data)
              ELSE UserOverwriteAll(t.view[p], Only(p, Onto(record.data, Empty)))
            after == [p \in Paths |-> one(p)]
<1>1. r = ApplyToViews(t, after)
  BY DEF ApplyUserWrite
<1>2. s \in Trees /\ \A p \in Paths : s.view[p] \in Caches
  BY ViewIs DEF Good
<1>3. t \in Trees /\ t.view = s.view
  <2>1. Append(s.all, record) \in Seq(Records) /\ AddWrite(s.visible, record) \in Compounds
    BY <1>2, TreeIs, AppendAt, AddWriteIs
  <2>2. record.id \in -1 .. MaxWrites
    <3>1. record.id \in WriteIds
      BY RecordIs DEF Records
    <3>. QED
      BY <3>1, WritesAssumption DEF WriteIds
  <2>. PICK all, u : all = Append(s.all, record) /\ u = AddWrite(s.visible, record)
    OBVIOUS
  <2>3. t = [s EXCEPT !.all = all, !.visible = u, !.last = record.id]
    BY <1>2 DEF Trees, WithRecord
  <2>. QED
    BY <1>2, <2>1, <2>2, <2>3 DEF Trees
<1>4. ASSUME NEW p \in Paths
      PROVE  one(p).server = t.view[p].server
  BY <1>2, <1>3, ServersKept
<1>5. \A p \in Paths : after[p] = one(p)
  OBVIOUS
<1>. HIDE DEF one
<1>6. \A p \in Paths : after[p].server = t.view[p].server
  BY <1>4, <1>5
<1>. HIDE DEF after
<1>7. ServersStay(s, r)
  BY <1>1, <1>3, <1>6, ViewsBecome DEF ServersStay
<1>8. Kept(s, r)
  BY UserWriteKeeps
<1>. QED
  BY <1>7, <1>8, StaysSame

\* So does the answer to a listen.
LEMMA ListenCompleteServers ==
  ASSUME NEW t, Good(t), NEW path \in Paths, NEW r, r = ApplyListenComplete(t, path)
  PROVE  ServersStay(t, r)
<1>. DEFINE one(p) == IF path = Root \/ path = p THEN ListenComplete(t.view[p], t.visible, p, p)
                      ELSE IF p = Root THEN ListenComplete(t.view[p], t.visible, p, path)
                      ELSE t.view[p]
            after == [p \in Paths |-> one(p)]
<1>1. r = ApplyToViews(t, after)
  BY DEF ApplyListenComplete
<1>2. t \in Trees /\ \A p \in Paths : t.view[p] \in Caches
  BY ViewIs DEF Good
<1>3. ASSUME NEW p \in Paths
      PROVE  one(p).server = t.view[p].server
  BY <1>2, ListenServer
<1>4. \A p \in Paths : after[p] = one(p)
  OBVIOUS
<1>. HIDE DEF one
<1>5. \A p \in Paths : after[p].server = t.view[p].server
  BY <1>3, <1>4
<1>. HIDE DEF after
<1>. QED
  BY <1>1, <1>2, <1>5, ViewsBecome DEF ServersStay

\* Data of the server reach each view of what they are about.
LEMMA ServerDataTaken ==
  ASSUME NEW t, Good(t), NEW h \in Messages, h.kind = "data", NEW r, r = ApplyServerData(t, h.path, h.node),
         NEW p \in Paths, t.view[p].on
  PROVE  /\ \A x \in Below(p) : Takes(h, x, t.view[p].server[x], r.view[p].server[x])
         /\ p = Root /\ IsWhole(h) => r.view[p].serverFull
<1>. DEFINE one(q) == IF h.path = Root \/ h.path = q
                      THEN ServerOverwriteAll(t.view[q], t.visible, q, Only(q, h.node))
                      ELSE IF q = Root THEN ServerOverwriteChild(t.view[q], t.visible, h.path, h.node[h.path])
                      ELSE t.view[q]
            after == [q \in Paths |-> one(q)]
<1>1. r = ApplyToViews(t, after)
  BY DEF ApplyServerData
<1>2. t \in Trees /\ t.view[p] \in Caches /\ t.visible \in Compounds
  BY ViewIs DEF Good
<1>3. r.view[p] = one(p)
  <2>1. after[p] = one(p)
    OBVIOUS
  <2>. HIDE DEF after, one
  <2>. QED
    BY <1>1, <1>2, <2>1, ViewsBecome
<1>4. h.path \in Paths /\ h.node \in Node
  BY DEF Messages, Acks
<1>5. \A x : Takes(h, x, t.view[p].server[x], r.view[p].server[x]) <=>
        r.view[p].server[x] = IF h.path \in {Root, x} THEN h.node[x] ELSE t.view[p].server[x]
  BY DEF Takes, Fits, Given
<1>6. CASE h.path = Root \/ h.path = p
  <2>. PICK node : node = Only(p, h.node)
    OBVIOUS
  <2>1. node \in Node /\ \A x \in Below(p) : node[x] = h.node[x]
    BY <1>4, OnlyIs, BelowIs
  <2>2. r.view[p] = ServerOverwriteAll(t.view[p], t.visible, p, node)
    BY <1>3, <1>6
  <2>3. r.view[p].server = node /\ r.view[p].serverFull
    BY <1>2, <2>1, <2>2, OverwriteServer, ServerOverwriteAllGoes
  <2>4. \A x \in Below(p) : r.view[p].server[x] = h.node[x]
    BY <2>1, <2>3
  <2>5. \A x \in Below(p) : h.path \in {Root, x}
    BY <1>6, BelowIs, WritesAssumption DEF Paths
  <2>. QED
    BY <1>5, <2>3, <2>4, <2>5
<1>7. CASE ~(h.path = Root \/ h.path = p) /\ p = Root
  <2>1. h.path \in Children /\ h.node[h.path] \in Values
    BY <1>4, <1>7 DEF Paths, Node
  <2>2. r.view[p] = ServerOverwriteChild(t.view[p], t.visible, h.path, h.node[h.path])
    BY <1>3, <1>7
  <2>3. \A x \in Children : r.view[p].server[x] = IF x = h.path THEN h.node[h.path] ELSE t.view[p].server[x]
    BY <1>2, <2>1, <2>2, ServerOverwriteChildIs
  <2>4. Below(p) = Children /\ ~IsWhole(h)
    BY <1>7, BelowIs DEF IsWhole
  <2>5. \A x \in Children : h.path \in {Root, x} <=> x = h.path
    BY <1>7
  <2>. QED
    BY <1>5, <2>3, <2>4, <2>5
<1>8. CASE ~(h.path = Root \/ h.path = p) /\ p # Root
  BY <1>3, <1>8, BelowIs, <1>5
<1>. QED
  BY <1>6, <1>7, <1>8

\* So does a merge, except a view of the location that has nothing yet.
LEMMA ServerMergeTaken ==
  ASSUME NEW t, Good(t), NEW h \in Messages, h.kind = "merge", NEW r, r = ApplyServerMerge(t, h.changed),
         NEW p \in Paths, t.view[p].on
  PROVE  \A x \in Below(p) :
           \/ Takes(h, x, t.view[p].server[x], r.view[p].server[x])
           \/ p = Root /\ ~t.view[Root].serverFull
<1>. DEFINE one(q) == IF q = Root THEN ServerMerge(t.view[q], t.visible, h.changed)
                      ELSE IF q \in DOMAIN h.changed
                      THEN ServerOverwriteAll(t.view[q], t.visible, q, Only(q, Onto(h.changed, Empty)))
                      ELSE t.view[q]
            after == [q \in Paths |-> one(q)]
<1>1. r = ApplyToViews(t, after)
  BY DEF ApplyServerMerge
<1>2. t \in Trees /\ t.view[p] \in Caches /\ t.visible \in Compounds
  BY ViewIs DEF Good
<1>3. r.view[p] = one(p)
  <2>1. after[p] = one(p)
    OBVIOUS
  <2>. HIDE DEF after, one
  <2>. QED
    BY <1>1, <1>2, <2>1, ViewsBecome
<1>4. h.changed \in Changed(Nat)
  BY DEF Messages, Acks
<1>5. \A x : Takes(h, x, t.view[p].server[x], r.view[p].server[x]) <=>
        r.view[p].server[x] = IF x \in DOMAIN h.changed THEN h.changed[x] ELSE t.view[p].server[x]
  BY DEF Takes, Fits, Given
<1>6. CASE p = Root
  <2>1. r.view[p] = ServerMerge(t.view[p], t.visible, h.changed) /\ Below(p) = Children
    BY <1>3, <1>6, BelowIs
  <2>2. \/ ~t.view[p].serverFull
        \/ \A b \in Children :
             r.view[p].server[b] = IF b \in DOMAIN h.changed THEN h.changed[b] ELSE t.view[p].server[b]
    BY <1>2, <1>4, <2>1, ServerMergeIs
  <2>. QED
    BY <1>5, <1>6, <2>1, <2>2
<1>7. CASE p # Root /\ p \in DOMAIN h.changed
  <2>. PICK node : node = Only(p, Onto(h.changed, Empty))
    OBVIOUS
  <2>1. Below(p) = {p} /\ p \in Children
    BY <1>7, BelowIs
  <2>2. Onto(h.changed, Empty) \in Node /\ Onto(h.changed, Empty)[p] = h.changed[p]
    BY <1>4, <1>7, <2>1, OntoEmpty
  <2>3. node[p] = h.changed[p]
    BY <2>1, <2>2, OnlyIs
  <2>4. r.view[p] = ServerOverwriteAll(t.view[p], t.visible, p, node)
    BY <1>3, <1>7
  <2>5. r.view[p].server = node
    BY <1>2, <2>4, OverwriteServer
  <2>. QED
    BY <1>5, <1>7, <2>1, <2>3, <2>5
<1>8. CASE p # Root /\ p \notin DOMAIN h.changed
  BY <1>3, <1>8, BelowIs, <1>5
<1>. QED
  BY <1>6, <1>7, <1>8

-----------------------------------------------------------------------------
(* Every step of a client whose connection is not lost.                     *)

QuietNow == Quiet(toServer, toClient, listens, view, data, serving, specs)

\* The same after the step.
LEMMA QuietNext ==
  QuietNow' <=> Quiet(toServer', toClient', listens', view', data', serving', specs')
BY DEF QuietNow

\* What is so in every state of such a client.
LEMMA NowIs ==
  ASSUME Inv, MaxDrops = 0
  PROVE  /\ connected /\ Good(Tree) /\ Tree.view = view
         /\ toServer \in Seq(Requests) /\ toClient \in Seq(Messages)
         /\ listens \in [Paths -> Nat] /\ specs \in Nat /\ data \in Node /\ serving \in SUBSET Paths
         /\ view \in [Paths -> Caches] /\ heldAcks \in Seq(Acks)
         /\ Covers(listens, view) /\ Sources(toServer, toClient, listens, view)
<1>1. connected
  BY DEF Inv, NetInv, NeverLost
<1>2. Covers(listens, view) /\ Sources(toServer, toClient, listens, view)
  BY <1>1, CoversIs DEF Inv, ListenInv, NetInv
<1>3. view \in [Paths -> Caches] /\ Good(Tree)
  BY TypesAre DEF Inv
<1>. QED
  BY <1>1, <1>2, <1>3, TreeFields DEF Inv, ListenInv, Types

\* The client takes data.
LEMMA QuietData ==
  ASSUME Inv, MaxDrops = 0, QuietNow, TakeData
  PROVE  QuietNow'
<1>1. /\ Good(Tree) /\ Tree.view = view /\ toClient \in Seq(Messages) /\ toClient # <<>>
      /\ Covers(listens, view) /\ view \in [Paths -> Caches] /\ Root \in Paths
  BY NowIs DEF TakeData, Take, Paths
<1>. PICK h : h = toClient[1]
  OBVIOUS
<1>2. h \in Messages /\ Head(toClient) = h
  BY <1>1, TailAt
<1>3. h.kind = "data" /\ h.path \in Paths /\ h.node \in Node
  BY <1>2 DEF TakeData, Take, Messages, Acks
<1>. PICK r : r = ApplyServerData(Tree, h.path, h.node)
  OBVIOUS
<1>4. Kept(Tree, r)
  BY <1>1, <1>3, ApplyServerDataKeeps
<1>5. view' = r.view
  BY <1>2 DEF TakeData, Becomes
<1>6. \A p \in Paths : view'[p].on = view[p].on /\ (view[p].serverFull => view'[p].serverFull)
  <2>1. r.view \in [Paths -> Caches]
    BY <1>4, TreeIs DEF Kept, Good
  <2>2. \A p \in Paths : view'[p].on \in BOOLEAN /\ view[p].on \in BOOLEAN
    BY <1>1, <1>5, <2>1 DEF Caches
  <2>. QED
    BY <1>1, <1>4, <1>5, <2>2 DEF Kept
<1>7. \A p \in Paths : view[p].on =>
        /\ \A x \in Below(p) : Takes(h, x, view[p].server[x], view'[p].server[x])
        /\ p = Root /\ IsWhole(h) => view'[p].serverFull
  <2>. SUFFICES ASSUME NEW p \in Paths, view[p].on
                PROVE  /\ \A x \in Below(p) : Takes(h, x, view[p].server[x], view'[p].server[x])
                       /\ p = Root /\ IsWhole(h) => view'[p].serverFull
    OBVIOUS
  <2>1. Tree.view[p].on
    BY <1>1
  <2>2. /\ \A x \in Below(p) : Takes(h, x, Tree.view[p].server[x], r.view[p].server[x])
        /\ p = Root /\ IsWhole(h) => r.view[p].serverFull
    BY <1>1, <1>2, <1>3, <2>1, ServerDataTaken
  <2>. QED
    BY <1>1, <1>5, <2>2
<1>8. \A q, spec : ~IsListen(h, q, spec)
  BY <1>3 DEF IsListen
<1>9. Quiet(toServer, Tail(toClient), listens, view', data, serving, specs)
  BY <1>1, <1>6, <1>7, <1>8, QuietTakes DEF QuietNow
<1>. QED
  BY <1>9, QuietNext DEF TakeData, Take

\* It takes a merge.
LEMMA QuietMerge ==
  ASSUME Inv, MaxDrops = 0, QuietNow, TakeMerge
  PROVE  QuietNow'
<1>1. /\ Good(Tree) /\ Tree.view = view /\ toClient \in Seq(Messages) /\ toClient # <<>>
      /\ Covers(listens, view) /\ view \in [Paths -> Caches] /\ Root \in Paths
  BY NowIs DEF TakeMerge, Take, Paths
<1>. PICK h : h = toClient[1]
  OBVIOUS
<1>2. h \in Messages /\ Head(toClient) = h
  BY <1>1, TailAt
<1>3. h.kind = "merge" /\ h.changed \in Changed(Nat)
  BY <1>2 DEF TakeMerge, Take, Messages, Acks
<1>. PICK r : r = ApplyServerMerge(Tree, h.changed)
  OBVIOUS
<1>4. Kept(Tree, r)
  BY <1>1, <1>3, ApplyServerMergeKeeps
<1>5. view' = r.view
  BY <1>2 DEF TakeMerge, Becomes
<1>6. \A p \in Paths : view'[p].on = view[p].on /\ (view[p].serverFull => view'[p].serverFull)
  <2>1. r.view \in [Paths -> Caches]
    BY <1>4, TreeIs DEF Kept, Good
  <2>2. \A p \in Paths : view'[p].on \in BOOLEAN /\ view[p].on \in BOOLEAN
    BY <1>1, <1>5, <2>1 DEF Caches
  <2>. QED
    BY <1>1, <1>4, <1>5, <2>2 DEF Kept
<1>7. \A p \in Paths : view[p].on =>
        \A x \in Below(p) : \/ Takes(h, x, view[p].server[x], view'[p].server[x])
                            \/ p = Root /\ ~view[Root].serverFull /\ h.kind = "merge"
  <2>. SUFFICES ASSUME NEW p \in Paths, view[p].on, NEW x \in Below(p)
                PROVE  \/ Takes(h, x, view[p].server[x], view'[p].server[x])
                       \/ p = Root /\ ~view[Root].serverFull /\ h.kind = "merge"
    OBVIOUS
  <2>1. Tree.view[p].on
    BY <1>1
  <2>2. \/ Takes(h, x, Tree.view[p].server[x], r.view[p].server[x])
        \/ p = Root /\ ~Tree.view[Root].serverFull
    BY <1>1, <1>2, <1>3, <2>1, ServerMergeTaken
  <2>. QED
    BY <1>1, <1>3, <1>5, <2>2
<1>8. (\A q, spec : ~IsListen(h, q, spec)) /\ ~IsWhole(h)
  BY <1>3 DEF IsListen, IsWhole
<1>9. Quiet(toServer, Tail(toClient), listens, view', data, serving, specs)
  BY <1>1, <1>6, <1>7, <1>8, QuietTakes DEF QuietNow
<1>. QED
  BY <1>9, QuietNext DEF TakeMerge, Take

\* The user writes: nothing is asked for, and what the views have from the server stays.
LEMMA QuietWrites ==
  ASSUME Inv, MaxDrops = 0, QuietNow, UserWrite
  PROVE  QuietNow'
<1>1. /\ connected /\ Good(Tree) /\ Tree.view = view /\ toServer \in Seq(Requests)
      /\ Covers(listens, view) /\ written \in 0 .. MaxWrites
  BY NowIs DEF Inv, ListenInv, Types
<1>2. PICK record \in RecordsOf(written + 1) :
        /\ Becomes(ApplyUserWrite(WithRecord(Tree, record), record))
        /\ Send(<<PutRequest(record)>>)
  BY DEF UserWrite, WithRecord
<1>3. written < MaxWrites
      /\ UNCHANGED <<listens, heldAcks, connected, toClient, data, serving, specs, remote, drops>>
  BY DEF UserWrite
<1>4. record \in Records /\ record.id = written + 1
  <2>1. written + 1 \in WriteIds
    BY <1>1, <1>3, WritesAssumption DEF WriteIds
  <2>. QED
    BY <2>1, RecordsOfIs DEF Records
<1>5. \A i \in DOMAIN Tree.all : Tree.all[i].id < record.id
  <2>. SUFFICES ASSUME NEW i \in DOMAIN allWrites
                PROVE  allWrites[i].id < record.id
    BY TreeFields
  <2>1. allWrites[i].id <= lastWriteId /\ lastWriteId \in -1 .. MaxWrites /\ allWrites \in Seq(Records)
    BY TypesAre DEF Inv
  <2>2. allWrites[i] \in Records
    BY <2>1, LenProperties, ElementOfSeq
  <2>3. allWrites[i].id \in Int
    BY <2>2 DEF Records, RecordsWith, WriteIds
  <2>4. lastWriteId <= written
    BY DEF Inv, NetInv, Queued
  <2>. QED
    BY <1>1, <1>4, <2>1, <2>3, <2>4, WritesAssumption
<1>. PICK r : r = ApplyUserWrite(WithRecord(Tree, record), record)
  OBVIOUS
<1>6. SameServers(view, view')
  <2>. PICK t : t = Tree
    OBVIOUS
  <2>1. /\ Good(t) /\ record \in Records /\ \A i \in DOMAIN t.all : t.all[i].id < record.id
        /\ r = ApplyUserWrite(WithRecord(t, record), record)
    BY <1>1, <1>4, <1>5
  <2>2. SameServers(t.view, r.view)
    BY ONLY <2>1, UserWriteServers
  <2>3. view' = r.view
    BY <1>2 DEF Becomes
  <2>. QED
    BY <1>1, <2>2, <2>3
<1>. PICK m : m = PutRequest(record)
  OBVIOUS
<1>7. m \in Requests /\ IsPut(m)
  BY <1>4 DEF PutRequest, Requests, IsPut
<1>8. toServer' = toServer \o <<m>>
  BY <1>1, <1>2 DEF Send
<1>9. SameListens(toServer, toServer')
  BY <1>1, <1>7, <1>8, PutsListenNot
<1>10. Quiet(toServer', toClient, listens, view', data, serving, specs)
  BY <1>1, <1>6, <1>9, QuietSame DEF QuietNow
<1>. QED
  BY <1>3, <1>10, QuietNext

\* Another client writes: the server tells its listeners.
LEMMA QuietOthers ==
  ASSUME Inv, MaxDrops = 0, QuietNow, OtherClientWrites
  PROVE  QuietNow'
<1>1. /\ toClient \in Seq(Messages) /\ data \in Node /\ remote \in Nat
      /\ Covers(listens, view) /\ Sources(toServer, toClient, listens, view)
  BY NowIs DEF Inv, ListenInv, Types
<1>2. PICK record \in RecordsOf(MaxWrites + remote + 1) :
        data' = Onto(record.data, data) /\ toClient' = toClient \o Notices(record)
  BY DEF OtherClientWrites
<1>3. record \in RecordsWith(Nat)
  BY <1>1, WritesAssumption, RecordsOfIs
<1>. PICK r, e : r = Notices(record) /\ e = Onto(record.data, data)
  OBVIOUS
<1>4. r \in Seq(Messages) /\ \A m : Has(r, m) => m.kind # "listen"
  BY <1>1, <1>3, NoticesAre DEF IsNotice
<1>5. \A x \in Children :
        \/ Tells(r, x, e[x])
        \/ Silent(r, x) /\ (e[x] = data[x] \/ (Root \notin serving /\ x \notin serving))
  BY <1>1, <1>3, NoticesTell
<1>6. Quiet(toServer, toClient \o r, listens, view, e, serving, specs)
  BY <1>1, <1>4, <1>5, QuietTells DEF QuietNow
<1>7. UNCHANGED <<view, listens, toServer, serving, specs>>
  BY DEF OtherClientWrites, tree
<1>. QED
  BY <1>2, <1>6, <1>7, QuietNext

\* An acknowledgement tells nothing of the server's data.
LEMMA QuietAck ==
  ASSUME Inv, MaxDrops = 0, QuietNow, TakeAck
  PROVE  QuietNow'
<1>1. /\ Good(Tree) /\ Tree.view = view /\ toClient \in Seq(Messages) /\ toClient # <<>>
      /\ Covers(listens, view) /\ view \in [Paths -> Caches] /\ Root \in Paths
      /\ toServer \in Seq(Requests) /\ connected
  BY NowIs DEF TakeAck, Take, Paths
<1>. PICK h : h = toClient[1]
  OBVIOUS
<1>2. h \in Messages /\ Head(toClient) = h
  BY <1>1, TailAt
<1>3. IsAck(h) /\ h.kind = "ack"
  BY <1>2 DEF TakeAck, Take, IsAck
<1>4. h \in Acks
  BY <1>2, <1>3, AckIdIs
<1>5. SameServers(view, view')
  <2>1. CASE Holds
    BY <2>1 DEF TakeAck, tree, SameServers
  <2>2. CASE ~Holds
    <3>. PICK r, i : r = AckWrite(Tree, h) /\ i = Len(heldAcks) + 1
      OBVIOUS
    <3>1. view' = r.view
      BY <1>2, <2>2 DEF TakeAck, Becomes
    <3>2. puts # <<>> /\ puts[1].id = h.id /\ 1 \in DOMAIN puts
      <4>1. Flight(toServer, toClient, puts, TRUE)
        <5>1. connected = TRUE
          BY <1>1 DEF Inv, ListenInv, Types
        <5>. QED
          BY <5>1 DEF Inv, NetInv, InFlight
      <4>2. puts \in Seq(Records) /\ Rising(puts)
        BY PutsRise
      <4>3. puts # <<>> /\ puts[1].id = h.id
        BY <1>1, <1>3, <4>1, <4>2, FlightAck
      <4>. QED
        BY <4>2, <4>3, TailAt
    <3>3. i \in DOMAIN Tree.all /\ Tree.all[i].id = h.id
      BY <3>2, PutsRise, TreeFields
    <3>4. Kept(Tree, r) /\ ServersStay(Tree, r)
      BY <1>1, <1>4, <3>3, AckWriteKeeps
    <3>5. SameServers(Tree.view, r.view)
      BY <1>1, <3>4, StaysSame
    <3>. QED
      BY <1>1, <3>1, <3>5
  <2>. QED
    BY <2>1, <2>2
<1>6. /\ \A q, spec : ~IsListen(h, q, spec)
      /\ ~IsWhole(h)
      /\ \A x, a : Takes(h, x, a, a)
  BY <1>3 DEF IsListen, IsWhole, Takes, Fits
<1>7. \A p \in Paths : view[p].on => \A x \in Below(p) : Takes(h, x, view[p].server[x], view'[p].server[x])
  BY <1>5, <1>6 DEF SameServers
<1>8. Quiet(toServer, Tail(toClient), listens, view', data, serving, specs)
  BY <1>1, <1>5, <1>6, <1>7, QuietTakes DEF QuietNow, SameServers
<1>. QED
  BY <1>8, QuietNext DEF TakeAck, Take

\* The answer to a listen tells nothing.
LEMMA AnswerTells ==
  ASSUME NEW a \in Messages, a.kind = "listen", NEW r, r = <<a>>
  PROVE  /\ r \in Seq(Messages)
         /\ \A m : Has(r, m) <=> m = a
         /\ \A q, any : Waits(r, q, any) <=> q = a.path /\ any = a.spec
         /\ \A x : Silent(r, x)
<1>1. \A x : ~Fits(a, x)
  BY DEF Fits
<1>2. \A q, any : IsListen(a, q, any) <=> q = a.path /\ any = a.spec
  BY DEF IsListen
<1>3. r \in Seq(Messages)
  OBVIOUS
<1>4. DOMAIN r = {1} /\ r[1] = a
  OBVIOUS
<1>5. \A q, any : Waits(r, q, any) <=> q = a.path /\ any = a.spec
  BY <1>2, <1>4 DEF Waits
<1>6. \A x : Silent(r, x)
  BY <1>1, <1>4 DEF Silent
<1>7. \A m : Has(r, m) <=> m = a
  BY <1>4 DEF Has
<1>. QED
  BY <1>3, <1>5, <1>6, <1>7

\* The data of the path before it tell all there is below the path.
LEMMA DataTells ==
  ASSUME NEW a \in Messages, a.kind = "listen", NEW p \in Paths, a.path = p, data \in Node,
         NEW b \in Messages, b.kind = "data", b.path = p, b.node = Only(p, data),
         NEW r, DOMAIN r = {1, 2}, r[1] = b, r[2] = a
  PROVE  /\ \A m : Has(r, m) <=> m = a \/ m = b
         /\ \A q, any : Waits(r, q, any) <=> q = p /\ any = a.spec
         /\ \A x \in Children : Tells(r, x, data[x]) \/ Silent(r, x)
         /\ \A x \in Below(p) : Tells(r, x, data[x])
<1>3. DOMAIN r = {1, 2} /\ r[1] = b /\ r[2] = a
  OBVIOUS
<1>4. \A q, any : IsListen(a, q, any) <=> q = p /\ any = a.spec
  BY DEF IsListen
<1>5. \A q, any : ~IsListen(b, q, any)
  BY DEF IsListen
<1>6. \A q, any : Waits(r, q, any) <=> q = p /\ any = a.spec
  BY <1>3, <1>4, <1>5 DEF Waits
<1>7. \A x : ~Fits(a, x)
  BY DEF Fits
<1>8. \A x : (Fits(b, x) <=> p \in {Root, x}) /\ Given(b, x) = Only(p, data)[x]
  BY DEF Fits, Given
<1>9. ASSUME NEW x \in Children
      PROVE  /\ p \in {Root, x} => Tells(r, x, data[x])
             /\ p \notin {Root, x} => Silent(r, x)
  <2>1. p \in {Root, x} => x \in Below(p)
    BY BelowIs DEF Paths
  <2>2. p \in {Root, x} => Given(b, x) = data[x]
    BY <1>8, <2>1, OnlyIs
  <2>3. \A j \in {1, 2} : j > 1 => j = 2
    OBVIOUS
  <2>4. ASSUME p \in {Root, x}
        PROVE  Tells(r, x, data[x])
    <3>1. Fits(r[1], x) /\ Given(r[1], x) = data[x] /\ ~Fits(r[2], x)
      BY <1>3, <1>7, <1>8, <2>2, <2>4
    <3>2. 1 \in DOMAIN r /\ \A j \in DOMAIN r : j > 1 => ~Fits(r[j], x)
      BY <1>3, <2>3, <3>1
    <3>. QED
      BY <3>1, <3>2 DEF Tells
  <2>5. p \notin {Root, x} => Silent(r, x)
    BY <1>3, <1>7, <1>8 DEF Silent
  <2>. QED
    BY <2>4, <2>5
<1>10. \A x \in Below(p) : x \in Children /\ p \in {Root, x}
  BY BelowIs DEF Paths
<1>11. \A m : Has(r, m) <=> m = a \/ m = b
  BY <1>3 DEF Has
<1>12. \A x \in Children : Tells(r, x, data[x]) \/ Silent(r, x)
  BY <1>9
<1>13. \A x \in Below(p) : Tells(r, x, data[x])
  BY <1>9, <1>10
<1>. QED
  BY <1>6, <1>11, <1>12, <1>13

\* The server takes a request to listen.
LEMMA QuietListened ==
  ASSUME Inv, MaxDrops = 0, ~Races, QuietNow, toServer # <<>>, NEW h, h = toServer[1], h.kind = "listen",
         h.path \notin Denied, Serve(h, TRUE)
  PROVE  Quiet(Tail(toServer), toClient', listens, view, data', serving', specs)
<1>1. /\ toServer \in Seq(Requests) /\ toClient \in Seq(Messages) /\ data \in Node
      /\ Covers(listens, view) /\ view \in [Paths -> Caches]
  BY NowIs
<1>2. h.path \in Paths /\ h.spec \in Nat
  BY <1>1, TailAt DEF Requests
<1>. PICK a, b : a = Answer(h.path, h.spec, TRUE) /\ b = DataMessage(h.path, Only(h.path, data))
  OBVIOUS
<1>3. /\ serving' = serving \cup {h.path} /\ data' = data
      /\ toClient' = (toClient \o (IF HashMatches(h) THEN <<>> ELSE <<b>>)) \o <<a>>
  BY DEF Serve
<1>4. \A q, spec : IsListen(h, q, spec) <=> q = h.path /\ spec = h.spec
  BY DEF IsListen
<1>9. /\ Quiet(toServer, toClient, listens, view, data, serving, specs)
      /\ toServer # <<>> /\ h = toServer[1] /\ h.kind = "listen" /\ h.path \notin Denied
  BY DEF QuietNow
<1>7. a \in Messages /\ a.kind = "listen" /\ a.path = h.path /\ a.spec = h.spec /\ a.ok
  BY <1>2 DEF Answer, Messages
<1>8. b \in Messages /\ b.kind = "data" /\ b.path = h.path /\ b.node = Only(h.path, data)
  BY <1>1, <1>2, OnlyIs DEF DataMessage, Messages
<1>5. CASE HashMatches(h)
  <2>. PICK r : r = <<a>>
    OBVIOUS
  <2>1. /\ r \in Seq(Messages) /\ a.kind = "listen" /\ a.path = h.path /\ a.ok
        /\ \A m : Has(r, m) <=> m = a
        /\ \A q, any : Waits(r, q, any) <=> q = h.path /\ any = h.spec
        /\ \A x : Silent(r, x)
    <3>1. r = <<a>>
      OBVIOUS
    <3>2. /\ r \in Seq(Messages)
          /\ \A m : Has(r, m) <=> m = a
          /\ \A q, any : Waits(r, q, any) <=> q = a.path /\ any = a.spec
          /\ \A x : Silent(r, x)
      BY ONLY <1>7, <3>1, AnswerTells
    <3>. QED
      BY <1>7, <3>2
  <2>2. /\ view[h.path].server = Only(h.path, data)
        /\ \A i \in DOMAIN toClient : toClient[i].kind \notin {"data", "merge"}
    BY <1>5 DEF HashMatches
  <2>3. \A x : Silent(toClient, x)
    BY <2>2 DEF Silent, Fits
  <2>4. \A x \in Below(h.path) : view[h.path].server[x] = data[x]
    BY <1>1, <1>2, <2>2, OnlyIs, BelowIs
  <2>5. \A m : Has(toClient, m) => m.kind # "merge"
    BY <2>2 DEF Has
  <2>6. toClient' = toClient \o r
    BY <1>1, ConcatEmptySeq, <1>3, <1>5
  <2>7. /\ \A m : Has(r, m) /\ m.kind = "listen" => m.path = h.path /\ m.ok
        /\ \A m : Has(r, m) => m.kind # "merge"
        /\ \A q, spec : Waits(r, q, spec) <=> IsListen(h, q, spec)
        /\ \A x \in Children : Tells(r, x, data[x]) \/ Silent(r, x)
    BY <1>4, <2>1
  <2>8. \A x \in Below(h.path) :
          Tells(r, x, data[x]) \/ (Silent(r, x) /\ Silent(toClient, x) /\ view[h.path].server[x] = data[x])
    BY <2>1, <2>3, <2>4
  <2>9. Quiet(Tail(toServer), toClient \o r, listens, view, data, serving \cup {h.path}, specs)
    BY ONLY <1>1, <1>2, <1>9, <2>1, <2>5, <2>7, <2>8, QuietServes
  <2>10. serving' = serving \cup {h.path} /\ data' = data
    BY ONLY <1>3
  <2>. QED
    BY ONLY <2>6, <2>9, <2>10
<1>6. CASE ~HashMatches(h)
  <2>. PICK s, t : s = <<b>> /\ t = <<a>>
    OBVIOUS
  <2>. PICK r : r = s \o t
    OBVIOUS
  <2>1. /\ r \in Seq(Messages) /\ a.kind = "listen" /\ a.path = h.path /\ a.ok /\ b.kind = "data"
        /\ \A m : Has(r, m) <=> m = a \/ m = b
        /\ \A q, any : Waits(r, q, any) <=> q = h.path /\ any = h.spec
        /\ \A x \in Children : Tells(r, x, data[x]) \/ Silent(r, x)
        /\ \A x \in Below(h.path) : Tells(r, x, data[x])
    <3>. PICK p : p = h.path
      OBVIOUS
    <3>0. DOMAIN r = {1, 2} /\ r[1] = b /\ r[2] = a /\ r \in Seq(Messages)
      <4>1. s = <<b>> /\ t = <<a>>
        OBVIOUS
      <4>2. s \in Seq(Messages) /\ t \in Seq(Messages)
        BY ONLY <1>7, <1>8, <4>1, CountOne
      <4>3. Len(s) = 1 /\ s[1] = b /\ Len(t) = 1 /\ t[1] = a
        BY ONLY <4>1
      <4>4. r = s \o t
        OBVIOUS
      <4>5. /\ r \in Seq(Messages) /\ Len(r) = 1 + 1
            /\ \A i \in 1 .. 1 + 1 : r[i] = IF i <= 1 THEN s[i] ELSE t[i - 1]
        BY ONLY <4>2, <4>3, <4>4, ConcatProperties
      <4>. QED
        BY ONLY <4>3, <4>5
    <3>1. /\ DOMAIN r = {1, 2} /\ r[1] = b /\ r[2] = a /\ p \in Paths /\ data \in Node
          /\ a \in Messages /\ a.kind = "listen" /\ a.path = p
          /\ b \in Messages /\ b.kind = "data" /\ b.path = p /\ b.node = Only(p, data)
      BY <1>1, <1>2, <1>7, <1>8, <3>0
    <3>2. /\ \A m : Has(r, m) <=> m = a \/ m = b
          /\ \A q, any : Waits(r, q, any) <=> q = p /\ any = a.spec
          /\ \A x \in Children : Tells(r, x, data[x]) \/ Silent(r, x)
          /\ \A x \in Below(p) : Tells(r, x, data[x])
      BY ONLY <3>1, DataTells
    <3>. QED
      <4>1. p = h.path
        OBVIOUS
      <4>2. /\ \A q, any : Waits(r, q, any) <=> q = h.path /\ any = h.spec
            /\ \A x \in Below(h.path) : Tells(r, x, data[x])
        BY ONLY <1>7, <3>2, <4>1
      <4>. QED
        BY <1>7, <1>8, <3>0, <3>2, <4>2
  <2>2. toClient' = toClient \o r
    <3>1. s = <<b>> /\ t = <<a>>
      OBVIOUS
    <3>2. s \in Seq(Messages) /\ t \in Seq(Messages)
      BY ONLY <1>7, <1>8, <3>1, CountOne
    <3>3. (toClient \o s) \o t = toClient \o (s \o t)
      BY ONLY <1>1, <3>2, ConcatAssociative
    <3>. QED
      BY <1>3, <1>6, <3>3
  <2>3. /\ \A m : Has(r, m) /\ m.kind = "listen" => m.path = h.path /\ m.ok
        /\ \A m : Has(r, m) => m.kind # "merge"
        /\ \A q, spec : Waits(r, q, spec) <=> IsListen(h, q, spec)
    BY <1>4, <2>1
  <2>4. h.path = Root => \E m : Has(r, m) /\ IsWhole(m)
    BY <1>8, <2>1 DEF IsWhole
  <2>5. Quiet(Tail(toServer), toClient \o r, listens, view, data, serving \cup {h.path}, specs)
    BY ONLY <1>1, <1>2, <1>9, <2>1, <2>3, <2>4, QuietServes
  <2>6. serving' = serving \cup {h.path} /\ data' = data
    BY ONLY <1>3
  <2>. QED
    BY ONLY <2>2, <2>5, <2>6
<1>. QED
  BY <1>5, <1>6

\* The server takes a put, and tells its listeners before it acknowledges.
LEMMA QuietPut ==
  ASSUME Inv, MaxDrops = 0, QuietNow, toServer # <<>>, NEW h, h = toServer[1], h.kind = "put",
         NEW ok \in BOOLEAN, Serve(h, ok)
  PROVE  Quiet(Tail(toServer), toClient', listens, view, data', serving', specs)
<1>1. /\ toServer \in Seq(Requests) /\ toClient \in Seq(Messages) /\ data \in Node
      /\ Covers(listens, view) /\ Sources(toServer, toClient, listens, view)
  BY NowIs
<1>2. IsPut(h) /\ h.record \in Records /\ h.record.id \in WriteIds
  <2>1. h \in Requests
    BY <1>1, TailAt
  <2>2. IsPut(h) /\ h.record \in Records
    BY <2>1, PutRecordIs DEF IsPut
  <2>. QED
    BY <2>2, RecordIs DEF Records
<1>. PICK a : a = Ack(h.record.id, ok)
  OBVIOUS
<1>3. a \in Messages /\ a.kind = "ack"
  BY <1>2, AckIs DEF Ack
<1>. PICK k : k = <<a>>
  OBVIOUS
<1>4. k \in Seq(Messages) /\ (\A m : Has(k, m) => m.kind # "listen") /\ \A x : Silent(k, x)
  <2>1. k \in Seq(Messages) /\ DOMAIN k = {1} /\ k[1] = a
    BY <1>3
  <2>2. \A x : ~Fits(a, x)
    BY <1>3 DEF Fits
  <2>. QED
    BY <1>3, <2>1, <2>2 DEF Has, Silent
<1>5. SameListens(toServer, Tail(toServer)) /\ SameServers(view, view)
  BY <1>1, <1>2, PutsListenNot DEF SameServers
<1>6. CASE ok
  <2>. PICK n, e : n = Notices(h.record) /\ e = Onto(h.record.data, data)
    OBVIOUS
  <2>0. WriteIds \subseteq Nat
    BY WritesAssumption DEF WriteIds
  <2>1. data' = e /\ serving' = serving /\ toClient' = (toClient \o n) \o k
    BY <1>6 DEF Serve
  <2>2. n \in Seq(Messages) /\ \A m : Has(n, m) => m.kind # "listen"
    <3>1. n \in Seq(Messages) /\ \A m : Has(n, m) => IsNotice(m)
      BY <1>1, <1>2, <2>0, NoticesAre DEF Records
    <3>. QED
      BY <3>1 DEF IsNotice
  <2>3. \A x \in Children :
          \/ Tells(n, x, e[x])
          \/ Silent(n, x) /\ (e[x] = data[x] \/ (Root \notin serving /\ x \notin serving))
    BY <1>1, <1>2, <2>0, NoticesTell DEF Records
  <2>. PICK c : c = toClient \o n
    OBVIOUS
  <2>4. Quiet(toServer, c, listens, view, e, serving, specs)
    BY <1>1, <2>2, <2>3, QuietTells DEF QuietNow
  <2>5. c \in Seq(Messages)
    BY <1>1, <2>2, ConcatProperties
  <2>6. Sources(toServer, c, listens, view)
    BY <1>1, <2>2, HasConcat DEF Sources, Asked
  <2>7. Quiet(toServer, c \o k, listens, view, e, serving, specs)
    BY <1>1, <1>4, <2>4, <2>5, <2>6, QuietTells
  <2>8. Quiet(Tail(toServer), c \o k, listens, view, e, serving, specs)
    BY <1>1, <1>5, <2>7, QuietSame
  <2>. QED
    BY <2>1, <2>8
<1>7. CASE ~ok
  <2>1. data' = data /\ serving' = serving /\ toClient' = Append(toClient, a)
    BY <1>7 DEF Serve
  <2>2. toClient' = toClient \o k
    <3>1. Append(toClient, a) = toClient \o <<a>>
      BY ONLY <1>1, <1>3, AppendIsConcat
    <3>. QED
      BY <2>1, <3>1
  <2>3. Quiet(toServer, toClient \o k, listens, view, data, serving, specs)
    BY <1>1, <1>4, QuietTells DEF QuietNow
  <2>4. Quiet(Tail(toServer), toClient \o k, listens, view, data, serving, specs)
    BY <1>1, <1>5, <2>3, QuietSame
  <2>. QED
    BY <2>1, <2>2, <2>4
<1>. QED
  BY <1>6, <1>7

\* The server takes a request.
LEMMA QuietTurn ==
  ASSUME Inv, MaxDrops = 0, ~Races, Root \in Denied \/ Denied = {}, QuietNow, ServerTurn
  PROVE  QuietNow'
<1>1. /\ toServer \in Seq(Requests) /\ toClient \in Seq(Messages) /\ toServer # <<>>
      /\ Covers(listens, view) /\ toServer' = Tail(toServer)
  BY NowIs DEF ServerTurn
<1>. PICK h : h = toServer[1]
  OBVIOUS
<1>2. h \in Requests /\ Head(toServer) = h
  BY <1>1, TailAt
<1>3. PICK ok \in BOOLEAN : Serve(h, ok) /\ (h.kind = "listen" => ok = (h.path \notin Denied))
  BY <1>2 DEF ServerTurn
<1>4. UNCHANGED <<view, listens, specs>>
  BY DEF ServerTurn, tree
<1>5. Quiet(Tail(toServer), toClient', listens, view, data', serving', specs)
  <2>1. CASE h.kind = "listen" /\ h.path \notin Denied
    BY <1>3, <2>1, <1>1, QuietListened
  <2>2. CASE h.kind = "listen" /\ h.path \in Denied
    <3>1. h.path \in Paths /\ h.spec \in Nat
      BY <1>2, <2>2 DEF Requests
    <3>. PICK a, r : a = Answer(h.path, h.spec, FALSE) /\ r = <<a>>
      OBVIOUS
    <3>0. a \in Messages /\ a.kind = "listen" /\ a.path = h.path /\ a.spec = h.spec /\ ~a.ok
      BY <3>1 DEF Answer, Messages
    <3>2. /\ r \in Seq(Messages) /\ \A m : Has(r, m) <=> m = a
          /\ \A q, any : Waits(r, q, any) <=> q = h.path /\ any = h.spec
      <4>1. r = <<a>>
        OBVIOUS
      <4>2. /\ r \in Seq(Messages) /\ \A m : Has(r, m) <=> m = a
            /\ \A q, any : Waits(r, q, any) <=> q = a.path /\ any = a.spec
        BY ONLY <3>0, <4>1, AnswerTells
      <4>. QED
        BY <3>0, <4>2
    <3>3. data' = data /\ serving' = serving /\ toClient' = Append(toClient, a)
      BY <1>3, <2>2 DEF Serve
    <3>4. toClient' = toClient \o r
      <4>1. a \in Messages
        BY <3>1 DEF Answer, Messages
      <4>2. Append(toClient, a) = toClient \o <<a>>
        BY ONLY <1>1, <4>1, AppendIsConcat
      <4>. QED
        BY <3>3, <4>2
    <3>5. \A q, spec : Waits(r, q, spec) <=> IsListen(h, q, spec)
      BY <2>2, <3>2 DEF IsListen
    <3>7. \A m : Has(r, m) => m.kind = "listen" /\ m.path = h.path /\ ~m.ok
      BY <3>0, <3>2
    <3>6. Quiet(Tail(toServer), toClient \o r, listens, view, data, serving, specs)
      BY <1>1, <2>2, <3>1, <3>2, <3>5, <3>7, QuietRefuses DEF QuietNow
    <3>. QED
      BY <3>3, <3>4, <3>6
  <2>3. CASE h.kind = "unlisten"
    <3>1. serving' = serving \ {h.path} /\ toClient' = toClient /\ data' = data
      BY <1>3, <2>3 DEF Serve
    <3>2. Quiet(Tail(toServer), toClient, listens, view, data, serving \ {h.path}, specs)
      BY <1>1, <2>3, QuietUnlistens DEF QuietNow
    <3>. QED
      BY <3>1, <3>2
  <2>4. CASE h.kind = "put"
    BY <1>1, <1>3, <2>4, QuietPut
  <2>. QED
    BY <1>2, <2>1, <2>2, <2>3, <2>4 DEF Requests
<1>. QED
  BY <1>1, <1>4, <1>5, QuietNext

\* Nothing is asked for by no requests.
LEMMA NothingAsked ==
  /\ <<>> \in Seq(Requests) /\ Start({}) = <<>>
  /\ \A q, spec : ~Waits(<<>>, q, spec)
  /\ \A q : NoUnlisten(<<>>, q)
<1>1. Cardinality({}) = 0
  BY FS_EmptySet
<1>2. 1 .. 0 = {}
  OBVIOUS
<1>3. Start({}) = [i \in {} |-> LET p == SetToSeq({})[i] IN ListenRequest(p, specs + 1, view[p].server)]
  BY <1>1, <1>2 DEF Start
<1>4. \A s : s = [i \in {} |-> s[i]] => s = <<>>
  OBVIOUS
<1>5. Start({}) = <<>>
  BY <1>3, <1>4
<1>6. DOMAIN <<>> = {}
  OBVIOUS
<1>. QED
  BY <1>5, <1>6 DEF Waits, NoUnlisten

\* The answers that are held change nothing that the views have from the server.
LEMMA AcksStay ==
  ASSUME Inv, NEW t, Good(t), SameWrites(Tree, t), NEW v, v = t.view \/ v = AckAll(t, heldAcks).view
  PROVE  SameServers(t.view, v)
<1>. PICK z : z = AckAll(t, heldAcks)
  OBVIOUS
<1>1. Kept(t, z) /\ ServersStay(t, z)
  BY AckPutsKeeps
<1>2. SameServers(t.view, z.view)
  BY <1>1, StaysSame
<1>. QED
  BY <1>2 DEF SameServers

\* The client takes an answer that refuses no listen of it.
LEMMA QuietAnswered ==
  ASSUME Inv, MaxDrops = 0, QuietNow, TakeAnswer, NEW h, h = toClient[1],
         ~(listens[h.path] = h.spec /\ ~h.ok)
  PROVE  QuietNow'
<1>1. /\ Good(Tree) /\ Tree.view = view /\ toClient \in Seq(Messages) /\ toClient # <<>>
      /\ Covers(listens, view) /\ view \in [Paths -> Caches] /\ Root \in Paths
      /\ toServer \in Seq(Requests) /\ Quiet(toServer, toClient, listens, view, data, serving, specs)
  BY NowIs DEF TakeAnswer, Take, Paths, QuietNow
<1>2. h \in Messages /\ Head(toClient) = h
  BY <1>1, TailAt
<1>3. h.kind = "listen" /\ h.path \in Paths
  BY <1>2 DEF TakeAnswer, Take, Messages, Acks
<1>. PICK current, t :
      current = (listens[h.path] = h.spec) /\ t = (IF current THEN ApplyListenComplete(Tree, h.path) ELSE Tree)
  OBVIOUS
<1>4. /\ Good(t) /\ SameWrites(Tree, t) /\ SameServers(view, t.view)
      /\ Covers(listens, t.view)
      /\ current /\ view[Root].on /\ h.path = Root => t.view[Root].serverFull
  <2>1. CASE current
    <3>1. t = ApplyListenComplete(Tree, h.path)
      BY <2>1
    <3>2. /\ Kept(Tree, t) /\ SameWrites(Tree, t)
          /\ \A p \in Paths : Tree.view[p].on /\ h.path \in {Root, p} => t.view[p].serverFull
      BY <1>1, <1>3, <3>1, ApplyListenCompleteKeeps
    <3>3. ServersStay(Tree, t)
      BY <1>1, <1>3, <3>1, ListenCompleteServers
    <3>4. SameServers(Tree.view, t.view) /\ Covers(listens, t.view)
      BY <1>1, <3>2, <3>3, StaysSame, KeptCovers
    <3>. QED
      BY <1>1, <3>2, <3>4 DEF Kept
  <2>2. CASE ~current
    BY <2>2, <1>1 DEF SameWrites, SameServers
  <2>. QED
    BY <2>1, <2>2
<1>5. /\ toServer' = toServer /\ toClient' = Tail(toClient) /\ listens' = listens /\ specs' = specs
      /\ data' = data /\ serving' = serving
      /\ view' = t.view \/ view' = AckAll(t, heldAcks).view
  <2>1. /\ toServer' = toServer \o Start({}) /\ UNCHANGED <<listens, specs, data, serving>>
        /\ toClient' = Tail(toClient)
        /\ Becomes(t) \/ Becomes(AckAll(t, heldAcks))
    BY <1>2 DEF TakeAnswer, Take
  <2>2. toServer \o Start({}) = toServer
    BY <1>1, NothingAsked, ConcatEmptySeq
  <2>. QED
    BY <2>1, <2>2 DEF Becomes
<1>6. SameServers(t.view, view')
  BY <1>4, <1>5, AcksStay
<1>7. \A q \in Paths : IsListen(h, q, listens[q]) => current /\ h.path = q /\ q \notin Denied
  <2>1. Has(toClient, h)
    BY <1>1, TailAt DEF Has
  <2>2. h.ok <=> h.path \notin Denied
    BY <1>1, <1>3, <2>1 DEF Quiet, Judged
  <2>. QED
    BY <2>2 DEF IsListen
<1>8. ~IsWhole(h) /\ \A x, a : Takes(h, x, a, a)
  BY <1>3 DEF IsWhole, Takes, Fits
<1>9. Quiet(toServer, Tail(toClient), listens, t.view, data, serving, specs)
  <2>. PICK w : w = t.view
    OBVIOUS
  <2>1. /\ \A q \in Paths : q \in Denied => ~IsListen(h, q, listens[q])
        /\ \A p \in Paths : w[p].on = view[p].on
        /\ view[Root].serverFull => w[Root].serverFull
        /\ view[Root].on /\ (IsWhole(h) \/ IsListen(h, Root, listens[Root])) => w[Root].serverFull
    BY <1>1, <1>4, <1>7, <1>8 DEF SameServers
  <2>2. \A p \in Paths : view[p].on => \A x \in Below(p) : Takes(h, x, view[p].server[x], w[p].server[x])
    BY <1>4, <1>8 DEF SameServers
  <2>3. Quiet(toServer, Tail(toClient), listens, w, data, serving, specs)
    BY <1>1, <2>1, <2>2, QuietTakes
  <2>. QED
    BY <2>3
<1>10. SameListens(toServer, toServer)
  BY <1>1, PutsListenNot
<1>11. Quiet(toServer, Tail(toClient), listens, view', data, serving, specs)
  BY <1>4, <1>6, <1>9, <1>10, QuietSame
<1>. QED
  BY <1>5, <1>11, QuietNext

\* The view of path q goes off, and those of ps are listened to again.
Without(q, w, k, ps, m) ==
  /\ ps \subseteq Paths /\ q \notin ps /\ Root \notin ps
  /\ \A x \in Paths : x \in ps => k[x] = m
  /\ \A x \in Paths : x \notin ps /\ k[x] # 0 => k[x] = listens[x] /\ x # q
  /\ Drawn(view, w, ps)
  /\ k[Root] # 0 => q # Root /\ w[Root] = view[Root] /\ \A x \in Children : w[x].on => w[x] = view[x]

\* A view goes off that no other covers: those below are listened to again.
LEMMA WithoutAsks ==
  ASSUME Inv, MaxDrops = 0, NEW q \in Paths, ~(q # Root /\ view[Root].on),
         NEW w, \A x \in Paths : (x = q => ~w[x].on) /\ (x # q => w[x] = view[x]),
         NEW k, \A x \in Paths : k[x] = ListensWithout(q)[x], NEW ps, ps = Restarts(q),
         NEW m, m = specs + 1
  PROVE  Without(q, w, k, ps, m)
<1>1. view \in [Paths -> Caches] /\ Root \in Paths /\ Children \subseteq Paths /\ Root \notin Children
  BY NowIs, WritesAssumption DEF Paths
<1>2. \A x \in Paths : /\ x = q => ~w[x].on
                       /\ x # q => w[x] = view[x]
  OBVIOUS
<1>3. ps = IF q = Root THEN {c \in Children : view[c].on} ELSE {}
  BY DEF Restarts, ChildrenOn, On
<1>4. \A x \in Paths : k[x] = IF x = q THEN 0 ELSE IF x \in ps THEN specs + 1 ELSE listens[x]
  BY DEF ListensWithout
<1>5. ps \subseteq Paths /\ q \notin ps /\ Root \notin ps
  BY <1>1, <1>3
<1>6. ASSUME NEW p \in Paths, w[p].on, From(w, p) \notin ps
      PROVE  \E o \in Paths : /\ view[o].on /\ From(view, o) = From(w, p)
                              /\ \A x \in Below(p) : x \in Below(o) /\ w[p].server[x] = view[o].server[x]
  <2>1. p # q /\ w[p] = view[p]
    BY <1>2, <1>6
  <2>2. q # Root
    <3>1. CASE q = Root
      <4>1. p \in Children /\ From(w, p) = p
        BY <1>1, <1>2, <2>1, <3>1 DEF Paths, From
      <4>. QED
        BY <1>3, <1>6, <2>1, <3>1, <4>1
    <3>. QED
      BY <3>1
  <2>3. w[Root] = view[Root]
    BY <1>1, <1>2, <2>2
  <2>4. From(view, p) = From(w, p)
    BY <2>3 DEF From
  <2>. QED
    BY <1>6, <2>1, <2>4
<1>7. k[Root] # 0 => q # Root /\ w[Root] = view[Root] /\ \A x \in Children : w[x].on => w[x] = view[x]
  BY <1>1, <1>2, <1>4
<1>. QED
  BY <1>4, <1>5, <1>6, <1>7 DEF Drawn, Without

\* The client takes an answer that refuses a listen of it.
LEMMA QuietRefused ==
  ASSUME Inv, MaxDrops = 0, Root \in Denied \/ Denied = {}, QuietNow, TakeAnswer, NEW h, h = toClient[1],
         listens[h.path] = h.spec, ~h.ok
  PROVE  QuietNow'
<1>1. /\ Good(Tree) /\ Tree.view = view /\ toClient \in Seq(Messages) /\ toClient # <<>>
      /\ Covers(listens, view) /\ view \in [Paths -> Caches] /\ Root \in Paths /\ specs \in Nat
      /\ toServer \in Seq(Requests) /\ Quiet(toServer, toClient, listens, view, data, serving, specs)
  BY NowIs DEF TakeAnswer, Take, Paths, QuietNow
<1>. PICK e : e = Tail(toClient)
  OBVIOUS
<1>2. h \in Messages /\ Head(toClient) = h /\ e \in Seq(Messages)
  BY <1>1, TailAt
<1>3. h.kind = "listen" /\ h.path \in Paths
  BY <1>2 DEF TakeAnswer, Take, Messages, Acks
<1>. PICK q : q = h.path
  OBVIOUS
<1>4. /\ \A x, spec : x # q => ~IsListen(h, x, spec)
      /\ ~IsWhole(h) /\ \A x : ~Fits(h, x)
      /\ IsListen(h, q, listens[q])
  BY <1>3 DEF IsListen, IsWhole, Fits
<1>5. ~(q # Root /\ view[Root].on)
  <2>1. Waits(toClient, q, listens[q])
    BY <1>1, <1>4, TailAt DEF Waits
  <2>2. listens[q] # 0
    BY <1>1, <2>1 DEF Quiet, Numbered
  <2>. QED
    BY <1>1, <1>3, <2>2 DEF Covers
<1>. PICK k, ps, r, w, m :
      k = ListensWithout(q) /\ ps = Restarts(q) /\ r = Start(ps) /\ w = [view EXCEPT ![q] = NoView]
      /\ m = specs + 1
  OBVIOUS
<1>6. Without(q, w, k, ps, m)
  <2>1. /\ Inv /\ MaxDrops = 0 /\ q \in Paths /\ ~(q # Root /\ view[Root].on)
        /\ (\A x \in Paths : k[x] = ListensWithout(q)[x]) /\ ps = Restarts(q) /\ m = specs + 1
          /\ \A x \in Paths : (x = q => ~w[x].on) /\ (x # q => w[x] = view[x])
    BY <1>1, <1>3, <1>5 DEF NoView
  <2>. QED
    BY ONLY <2>1, WithoutAsks
<1>. USE DEF Without
<1>7. /\ r \in Seq(Requests)
      /\ \A x, spec : Waits(r, x, spec) <=> x \in ps /\ spec = m
      /\ \A x \in Paths : x \in ps => Once(r, x, m) /\ AskedLast(r, x, m)
      /\ \A x : NoUnlisten(r, x)
  <2>1. r \in Seq(Requests)
    BY <1>1, <1>6, StartIs
  <2>2. \A x : /\ \A spec : Waits(r, x, spec) <=> x \in ps /\ spec = m
               /\ \A spec : Once(r, x, spec)
               /\ x \in ps => AskedLast(r, x, m)
               /\ NoUnlisten(r, x)
    BY <1>1, <1>6, StartAsks
  <2>. QED
    BY <2>1, <2>2
<1>8. /\ \A a : Has(e, a) => Has(toClient, a)
      /\ \A x, a, b : Brings(toClient, x, a, b) => Brings(e, x, a, b)
      /\ \A x, spec : Waits(toClient, x, spec) => Waits(e, x, spec) \/ IsListen(h, x, spec)
      /\ q # Root /\ Prepared(toClient, listens[Root]) => Prepared(e, listens[Root])
  <2>1. \A a : Has(e, a) => Has(toClient, a)
    BY <1>1, HasTail
  <2>2. \A x, spec : Shortens(toClient, e, x, spec)
    BY <1>1, MessageTaken
  <2>. USE DEF Shortens
  <2>. QED
    BY <1>4, <2>1, <2>2
<1>9. \A x \in Paths : x \notin ps /\ k[x] # 0 =>
        k[x] = listens[x] /\ NoUnlisten(r, x) /\ (Waits(toClient, x, listens[x]) => Waits(e, x, listens[x]))
  BY <1>4, <1>6, <1>7, <1>8
<1>10. Root \notin ps /\ k[Root] # 0 =>
         /\ w[Root] = view[Root] /\ (Prepared(toClient, listens[Root]) => Prepared(e, listens[Root]))
         /\ \A x \in Children : w[x].on =>
              w[x] = view[x] \/ (view[Root].serverFull /\ w[x].server[x] = view[Root].server[x])
  BY <1>6, <1>8
<1>11. \A x \in Paths : x \in ps => k[x] = m /\ Once(r, x, m) /\ AskedLast(r, x, m)
  BY <1>6, <1>7
<1>12. Root \in Denied \/ Denied = {}
  OBVIOUS
<1>21. Asking(toClient, e, listens, k, view, w, r, ps, specs, m)
  <2>1. m = specs + 1
    OBVIOUS
  <2>. QED
    BY ONLY <1>6, <1>7, <1>8, <1>9, <1>10, <1>11, <2>1 DEF Asking
<1>. PICK u : u = toServer \o r
  OBVIOUS
<1>13. u = toServer \o r
  OBVIOUS
<1>14. Quiet(u, e, k, w, data, serving, m)
  BY ONLY <1>1, <1>2, <1>7, <1>12, <1>13, <1>21, QuietAsks
<1>. PICK t : t = Off(Tree, q)
  OBVIOUS
<1>15. Good(t) /\ SameWrites(Tree, t) /\ t.view = w
  <2>1. Good(Tree) /\ q \in Paths /\ t = Off(Tree, q)
    BY <1>1, <1>3
  <2>2. Good(t) /\ SameWrites(Tree, t) /\ t.view = [Tree.view EXCEPT ![q] = NoView]
    BY ONLY <2>1, OffKeeps
  <2>. QED
    BY <1>1, <2>2
<1>16. /\ toServer' = u /\ toClient' = e /\ listens' = k /\ specs' = m /\ data' = data /\ serving' = serving
       /\ view' = t.view \/ view' = AckAll(t, heldAcks).view
  BY <1>2 DEF TakeAnswer, Take, Becomes, Off
<1>17. SameServers(t.view, view')
  BY <1>15, <1>16, AcksStay
<1>18. Covers(k, w)
  BY <1>3, OffCovers
<1>19. SameListens(u, u)
  BY <1>1, <1>7, ConcatProperties, PutsListenNot
<1>20. Quiet(u, e, k, view', data, serving, m)
  BY <1>14, <1>15, <1>17, <1>18, <1>19, QuietSame
<1>. QED
  BY <1>16, <1>20, QuietNext

\* The client takes the answer to a listen.
LEMMA QuietAnswer ==
  ASSUME Inv, MaxDrops = 0, Root \in Denied \/ Denied = {}, QuietNow, TakeAnswer
  PROVE  QuietNow'
<1>. PICK h : h = toClient[1]
  OBVIOUS
<1>1. CASE listens[h.path] = h.spec /\ ~h.ok
  BY <1>1, QuietRefused
<1>2. CASE ~(listens[h.path] = h.spec /\ ~h.ok)
  BY <1>2, QuietAnswered
<1>. QED
  BY <1>1, <1>2

\* A step that asks for nothing.
LEMMA QuietShows ==
  ASSUME Inv, MaxDrops = 0, Root \in Denied \/ Denied = {}, QuietNow, NEW w, Drawn(view, w, {}),
         w[Root] = view[Root],
         \A x \in Children : w[x].on =>
           w[x] = view[x] \/ (view[Root].serverFull /\ w[x].server[x] = view[Root].server[x])
  PROVE  Quiet(toServer, toClient, listens, w, data, serving, specs)
<1>1. /\ toServer \in Seq(Requests) /\ toClient \in Seq(Messages) /\ specs \in Nat
      /\ Quiet(toServer, toClient, listens, view, data, serving, specs) /\ Covers(listens, view)
      /\ Root \in Denied \/ Denied = {}
  BY NowIs DEF QuietNow
<1>. PICK r : r = <<>>
  OBVIOUS
<1>2. /\ r \in Seq(Requests) /\ (\A x, spec : ~Waits(r, x, spec)) /\ (\A x : NoUnlisten(r, x))
  BY NothingAsked
<1>3. toServer = toServer \o r
  BY <1>1, ConcatEmptySeq
<1>4. Asking(toClient, toClient, listens, listens, view, w, r, {}, specs, specs)
  BY <1>2 DEF Asking
<1>. QED
  BY ONLY <1>1, <1>2, <1>3, <1>4, QuietAsks

\* An observer is removed.
LEMMA QuietRemoves ==
  ASSUME Inv, MaxDrops = 0, Root \in Denied \/ Denied = {}, QuietNow, NEW q \in Paths, RemoveObserver(q)
  PROVE  QuietNow'
<1>1. /\ toServer \in Seq(Requests) /\ toClient \in Seq(Messages) /\ specs \in Nat /\ connected
      /\ view \in [Paths -> Caches] /\ Root \in Paths
      /\ Quiet(toServer, toClient, listens, view, data, serving, specs) /\ Covers(listens, view)
  BY NowIs DEF QuietNow, Paths
<1>. PICK w : w = [view EXCEPT ![q] = NoView]
  OBVIOUS
<1>2. view' = w /\ UNCHANGED <<toClient, data, serving>>
  BY DEF RemoveObserver
<1>3. CASE q # Root /\ view[Root].on
  <2>1. UNCHANGED <<listens, specs, toServer>>
    BY <1>3 DEF RemoveObserver, On
  <2>2. \A x \in Paths : /\ x = q => ~w[x].on
                         /\ x # q => w[x] = view[x]
    BY <1>1 DEF NoView
  <2>3. w[Root] = view[Root] /\ \A p \in Paths : From(w, p) = From(view, p)
    BY <1>1, <1>3, <2>2 DEF From
  <2>4. \A p \in Paths : w[p].on => w[p] = view[p] /\ view[p].on
    BY <2>2
  <2>5. Drawn(view, w, {})
    BY <2>3, <2>4 DEF Drawn
  <2>6. \A x \in Children : w[x].on => w[x] = view[x]
    BY <2>4 DEF Paths
  <2>7. Quiet(toServer, toClient, listens, w, data, serving, specs)
    BY <2>3, <2>5, <2>6, QuietShows
  <2>. QED
    BY <1>2, <2>1, <2>7, QuietNext
<1>4. CASE ~(q # Root /\ view[Root].on)
  <2>. PICK k, ps, a, b, r, m :
        k = ListensWithout(q) /\ ps = Restarts(q) /\ a = Start(ps) /\ b = Stop({q}) /\ r = a \o b
        /\ m = specs + 1
    OBVIOUS
  <2>1. Without(q, w, k, ps, m)
    <3>1. /\ Inv /\ MaxDrops = 0 /\ q \in Paths /\ ~(q # Root /\ view[Root].on)
          /\ (\A x \in Paths : k[x] = ListensWithout(q)[x]) /\ ps = Restarts(q) /\ m = specs + 1
          /\ \A x \in Paths : (x = q => ~w[x].on) /\ (x # q => w[x] = view[x])
      BY <1>1, <1>4 DEF NoView
    <3>. QED
      BY ONLY <3>1, WithoutAsks
  <2>. USE DEF Without
  <2>2. a \in Seq(Requests) /\ b \in Seq(Requests) /\ r \in Seq(Requests)
    <3>1. a \in Seq(Requests)
      BY <1>1, <2>1, StartIs
    <3>2. b \in Seq(Requests)
      BY StopIs
    <3>. QED
      BY <3>1, <3>2, ConcatProperties
  <2>3. \A x : /\ \A spec : Waits(a, x, spec) <=> x \in ps /\ spec = m
               /\ \A spec : Once(a, x, spec)
               /\ x \in ps => AskedLast(a, x, m)
               /\ NoUnlisten(a, x)
    BY <1>1, <2>1, StartAsks
  <2>4. \A x : /\ \A spec : ~Waits(b, x, spec)
               /\ x # q => NoUnlisten(b, x)
    <3>1. {q} \subseteq Paths /\ b = Stop({q})
      OBVIOUS
    <3>2. \A x : /\ \A spec : ~Waits(b, x, spec)
                 /\ x \notin {q} => NoUnlisten(b, x)
      BY ONLY <3>1, StopGives
    <3>. QED
      BY <3>2
  <2>5. \A x, spec : Extends(a, b, r, x, spec)
    <3>1. r = a \o b
      OBVIOUS
    <3>. QED
      BY ONLY <2>2, <3>1, RequestsAdded
  <2>6. /\ \A x, spec : Waits(r, x, spec) <=> x \in ps /\ spec = m
        /\ \A x \in Paths : x \in ps => k[x] = m /\ Once(r, x, m) /\ AskedLast(r, x, m)
        /\ \A x \in Paths : x \notin ps /\ k[x] # 0 =>
             k[x] = listens[x] /\ NoUnlisten(r, x)
               /\ (Waits(toClient, x, listens[x]) => Waits(toClient, x, listens[x]))
    BY <2>1, <2>3, <2>4, <2>5 DEF Extends
  <2>7. /\ Root \in ps => ~view[Root].on /\ IsListen(r[1], Root, m) /\ \A x \in Children : w[x] = view[x]
        /\ Root \notin ps /\ k[Root] # 0 =>
             /\ w[Root] = view[Root] /\ (Prepared(toClient, listens[Root]) => Prepared(toClient, listens[Root]))
             /\ \A x \in Children : w[x].on =>
                  w[x] = view[x] \/ (view[Root].serverFull /\ w[x].server[x] = view[Root].server[x])
    BY <2>1
  <2>8. Asking(toClient, toClient, listens, k, view, w, r, ps, specs, m)
    <3>1. m = specs + 1
      OBVIOUS
    <3>2. \A x, c, d : Brings(toClient, x, c, d) => Brings(toClient, x, c, d)
      OBVIOUS
    <3>. QED
      BY ONLY <2>1, <2>6, <2>7, <3>1, <3>2 DEF Asking
  <2>. PICK u : u = toServer \o r
    OBVIOUS
  <2>9. u = toServer \o r /\ (Root \in Denied \/ Denied = {})
    OBVIOUS
  <2>10. Quiet(u, toClient, k, w, data, serving, m)
    BY ONLY <1>1, <2>2, <2>8, <2>9, QuietAsks
  <2>11. specs' = m /\ listens' = k /\ toServer' = u
    BY <1>4, <1>1 DEF RemoveObserver, On, Send
  <2>. QED
    BY <1>2, <2>10, <2>11, QuietNext
<1>. QED
  BY <1>3, <1>4

\* An observer is added below the view of the location, and takes what that has.
LEMMA QuietCovered ==
  ASSUME Inv, MaxDrops = 0, ~Late, Root \in Denied \/ Denied = {}, QuietNow,
         NEW p \in Paths, AddObserver(p), p # Root, view[Root].on
  PROVE  QuietNow'
<1>1. view \in [Paths -> Caches] /\ Root \in Paths /\ Children \subseteq Paths /\ Root \notin Children
  BY NowIs, WritesAssumption DEF Paths
<1>. PICK v, w : v = NewView(p) /\ w = [view EXCEPT ![p] = v]
  OBVIOUS
<1>2. view[Root].serverFull /\ UNCHANGED <<listens, specs, toServer, toClient, data, serving>>
  BY DEF AddObserver, On
<1>3. view' = w
  BY AddedKeeps DEF Inv
<1>4. v.server = Only(p, view[Root].server)
  BY <1>2 DEF NewView, ServerCacheFor, On
<1>5. \A x \in Paths : /\ x = p => w[x] = v
                       /\ x # p => w[x] = view[x]
  BY <1>1
<1>6. w[Root] = view[Root] /\ \A y \in Paths : From(w, y) = Root /\ From(view, y) = Root
  BY <1>1, <1>5 DEF From
<1>7. \A x \in Below(p) : x \in Below(Root) /\ v.server[x] = view[Root].server[x]
  BY <1>1, <1>4 DEF Only, Below, Paths
<1>8. Drawn(view, w, {})
  <2>1. ASSUME NEW y \in Paths, w[y].on
        PROVE  \E o \in Paths : /\ view[o].on /\ From(view, o) = From(w, y)
                                /\ \A x \in Below(y) : x \in Below(o) /\ w[y].server[x] = view[o].server[x]
    <3>1. CASE y = p
      <4>1. w[y] = v /\ From(view, Root) = From(w, y)
        BY <1>1, <1>5, <1>6, <3>1
      <4>2. \A x \in Below(y) : x \in Below(Root) /\ w[y].server[x] = view[Root].server[x]
        BY <1>7, <3>1, <4>1
      <4>. QED
        BY <1>1, <4>1, <4>2
    <3>2. CASE y # p
      BY <1>5, <1>6, <2>1, <3>2
    <3>. QED
      BY <3>1, <3>2
  <2>. QED
    BY <2>1 DEF Drawn
<1>9. ASSUME NEW x \in Children
      PROVE  w[x] = view[x] \/ (view[Root].serverFull /\ w[x].server[x] = view[Root].server[x])
  BY <1>1, <1>9, <1>2, <1>5, <1>7 DEF Below
<1>10. Quiet(toServer, toClient, listens, w, data, serving, specs)
  BY <1>6, <1>8, <1>9, QuietShows
<1>. QED
  BY <1>2, <1>3, <1>10, QuietNext

\* An observer is added that no view covers: its path is listened to.
LEMMA QuietUncovered ==
  ASSUME Inv, MaxDrops = 0, Root \in Denied \/ Denied = {}, QuietNow,
         NEW p \in Paths, AddObserver(p), ~(p # Root /\ view[Root].on)
  PROVE  QuietNow'
<1>1. /\ toServer \in Seq(Requests) /\ toClient \in Seq(Messages) /\ specs \in Nat /\ connected
      /\ view \in [Paths -> Caches] /\ Root \in Paths /\ Children \subseteq Paths /\ Root \notin Children
      /\ Quiet(toServer, toClient, listens, view, data, serving, specs) /\ Covers(listens, view)
  BY NowIs, WritesAssumption DEF QuietNow, Paths
<1>. PICK v, w, m, off, k, a, b, one, r, ps :
      v = NewView(p) /\ w = [view EXCEPT ![p] = v] /\ m = specs + 1 /\ off = Stops(p)
      /\ k = [q \in Paths |-> IF q = p THEN m ELSE IF q \in off THEN 0 ELSE listens[q]]
      /\ a = ListenRequest(p, m, v.server) /\ b = Stop(off) /\ one = <<a>> /\ r = one \o b /\ ps = {p}
  OBVIOUS
<1>2. view' = w /\ UNCHANGED <<toClient, data, serving>> /\ ~view[p].on
  BY AddedKeeps DEF Inv, AddObserver, On
<1>3. specs' = m /\ listens' = k /\ Send(r)
  BY DEF AddObserver, On
<1>4. v \in Caches /\ v.on /\ v.server \in Node /\ m \in Nat /\ m = specs + 1
  BY <1>1, NewViewIs DEF Inv, Caches
<1>5. \A x \in Paths : /\ x = p => w[x] = v
                       /\ x # p => w[x] = view[x]
  BY <1>1
<1>6. off \subseteq Paths /\ p \notin off /\ (p # Root => off = {}) /\ ~view[Root].on
  BY <1>1, <1>2 DEF Stops, ChildrenOn
<1>7. /\ one \in Seq(Requests) /\ one[1] = a /\ IsListen(a, p, m)
      /\ \A q : /\ \A spec : Waits(one, q, spec) <=> q = p /\ spec = m
                /\ \A spec : Once(one, q, spec)
                /\ AskedLast(one, p, m) /\ NoUnlisten(one, q)
  <2>1. /\ a \in Requests /\ a.kind = "listen" /\ a.path = p /\ a.spec = m
    BY <1>4 DEF ListenRequest, Requests
  <2>2. one \in Seq(Requests) /\ DOMAIN one = {1} /\ one[1] = a
    BY <2>1
  <2>3. \A q : /\ \A any : Waits(one, q, any) <=> q = a.path /\ any = a.spec
               /\ \A any : Once(one, q, any)
               /\ AskedLast(one, a.path, a.spec) /\ NoUnlisten(one, q)
    BY ONLY <2>1, <2>2, AsksOne
  <2>. QED
    BY <2>1, <2>2, <2>3 DEF IsListen
<1>8. b \in Seq(Requests) /\ \A q : /\ \A spec : ~Waits(b, q, spec)
                                    /\ q \notin off => NoUnlisten(b, q)
  <2>1. b = Stop(off) /\ off \subseteq Paths
    BY <1>6
  <2>2. b \in Seq(Requests)
    BY <2>1, StopIs
  <2>. QED
    BY ONLY <2>1, <2>2, StopGives
<1>9. r \in Seq(Requests) /\ \A q, spec : Extends(one, b, r, q, spec)
  <2>1. r = one \o b
    OBVIOUS
  <2>2. r \in Seq(Requests)
    BY <1>7, <1>8, <2>1, ConcatProperties
  <2>. QED
    BY ONLY <1>7, <1>8, <2>1, <2>2, RequestsAdded
<1>10. IsListen(r[1], p, m)
  <2>1. 1 \in DOMAIN one /\ one[1] = a
    BY <1>7
  <2>2. r[1] = a
    BY <1>7, <1>8, <2>1, ConcatAt
  <2>. QED
    BY <1>7, <2>2
<1>11. \A q \in Paths : q \notin ps /\ k[q] # 0 => q # p /\ q \notin off /\ k[q] = listens[q]
  OBVIOUS
<1>12. /\ \A q, spec : Waits(r, q, spec) <=> q \in ps /\ spec = m
       /\ \A q \in Paths : q \in ps => k[q] = m /\ Once(r, q, m) /\ AskedLast(r, q, m)
       /\ \A q \in Paths : q \notin ps /\ k[q] # 0 =>
            k[q] = listens[q] /\ NoUnlisten(r, q)
              /\ (Waits(toClient, q, listens[q]) => Waits(toClient, q, listens[q]))
  BY <1>6, <1>7, <1>8, <1>9, <1>11 DEF Extends
<1>13. Drawn(view, w, ps)
  <2>1. ASSUME NEW y \in Paths, w[y].on, From(w, y) \notin ps
        PROVE  /\ view[y].on /\ From(view, y) = From(w, y)
               /\ \A x \in Below(y) : x \in Below(y) /\ w[y].server[x] = view[y].server[x]
    <3>1. p # Root
      BY <1>4, <1>5, <2>1 DEF From
    <3>2. w[Root] = view[Root]
      BY <1>1, <1>5, <3>1
    <3>3. y # p
      BY <1>6, <2>1, <3>2 DEF From
    <3>4. w[y] = view[y]
      BY <1>5, <3>3
    <3>. QED
      BY <2>1, <3>2, <3>4 DEF From
  <2>. QED
    BY <2>1 DEF Drawn
<1>14. Root \in ps => ~view[Root].on /\ IsListen(r[1], Root, m) /\ \A x \in Children : w[x] = view[x]
  BY <1>1, <1>5, <1>6, <1>10
<1>15. ~(Root \notin ps /\ k[Root] # 0)
  BY <1>1, <1>6, <1>11 DEF Covers
<1>16. Asking(toClient, toClient, listens, k, view, w, r, ps, specs, m)
  <2>1. m = specs + 1
    OBVIOUS
  <2>2. \A x, c, d : Brings(toClient, x, c, d) => Brings(toClient, x, c, d)
    OBVIOUS
  <2>. QED
    BY ONLY <1>12, <1>13, <1>14, <1>15, <2>1, <2>2 DEF Asking
<1>. PICK u : u = toServer \o r
  OBVIOUS
<1>17. u = toServer \o r /\ (Root \in Denied \/ Denied = {})
  OBVIOUS
<1>18. Quiet(u, toClient, k, w, data, serving, m)
  BY ONLY <1>1, <1>9, <1>16, <1>17, QuietAsks
<1>19. toServer' = u
  BY <1>1, <1>3 DEF Send
<1>. QED
  BY <1>2, <1>3, <1>18, <1>19, QuietNext

\* Nothing is on its way and nothing is listened to.
LEMMA QuietStarts == Init => QuietNow
<1>. SUFFICES ASSUME Init
              PROVE  QuietNow
  OBVIOUS
<1>. USE DEF Init, WriteInit
<1>1. DOMAIN <<>> = {} /\ Root \in Paths /\ Children \subseteq Paths
  BY DEF Paths
<1>2. toServer = <<>> /\ toClient = <<>> /\ \A q \in Paths : listens[q] = 0 /\ ~view[q].on
  BY DEF NoView
<1>3. /\ Numbered(<<>>, <<>>, specs) /\ Judged(<<>>) /\ Singly(<<>>, <<>>, listens)
      /\ Decided(<<>>, <<>>, listens, serving)
  BY <1>1, <1>2 DEF Numbered, Judged, Singly, Decided, Waits, Has
<1>4. /\ Due(<<>>, <<>>, listens, view, data) /\ Readied(<<>>, <<>>, listens, view)
      /\ Passed(<<>>, <<>>, listens, view, data, serving)
  BY <1>1, <1>2 DEF Due, Readied, Passed, Watched
<1>. QED
  BY <1>2, <1>3, <1>4 DEF QuietNow, Quiet

\* Every step of a client whose connection is not lost.
LEMMA QuietStep ==
  ASSUME Inv, MaxDrops = 0, ~Late, ~Races, Root \in Denied \/ Denied = {}, QuietNow, [Next]_vars
  PROVE  QuietNow'
<1>1. ASSUME NEW p \in Paths, AddObserver(p)
      PROVE  QuietNow'
  BY <1>1, QuietCovered, QuietUncovered
<1>2. ASSUME NEW p \in Paths, RemoveObserver(p)
      PROVE  QuietNow'
  BY <1>2, QuietRemoves
<1>3. CASE UserWrite
  BY <1>3, QuietWrites
<1>4. CASE ServerTurn
  BY <1>4, QuietTurn
<1>5. CASE OtherClientWrites
  BY <1>5, QuietOthers
<1>6. CASE TakeData
  BY <1>6, QuietData
<1>7. CASE TakeMerge
  BY <1>7, QuietMerge
<1>8. CASE TakeAck
  BY <1>8, QuietAck
<1>9. CASE TakeAnswer
  BY <1>9, QuietAnswer
<1>10. CASE Disconnect
  BY <1>10 DEF Disconnect, Inv, ListenInv, Types
<1>11. CASE Connect
  BY <1>11, NowIs DEF Connect
<1>12. CASE UNCHANGED vars
  BY <1>12, QuietNext DEF vars, QuietNow
<1>. QED
  BY <1>1, <1>2, <1>3, <1>4, <1>5, <1>6, <1>7, <1>8, <1>9, <1>10, <1>11, <1>12 DEF Next

\* With nothing on its way, what the client has is what the server has.
LEMMA QuietShown ==
  ASSUME Inv, MaxDrops = 0, Root \in Denied \/ Denied = {}, QuietNow, TreeExact(Tree)
  PROVE  Converged
<1>. SUFFICES ASSUME toServer = <<>>, toClient = <<>>, heldAcks = <<>>
              PROVE  /\ allWrites = <<>>
                     /\ \A p \in Paths : On(p) => view[p].eventFull /\ view[p].event = Only(p, data)
  BY DEF Converged
<1>1. /\ connected /\ view \in [Paths -> Caches] /\ Root \in Paths /\ data \in Node
      /\ Children \subseteq Paths /\ Covers(listens, view)
      /\ Quiet(toServer, toClient, listens, view, data, serving, specs)
      /\ Sources(toServer, toClient, listens, view)
  BY NowIs DEF QuietNow, Paths
<1>2. /\ allWrites \in Seq(Records) /\ puts \in Seq(Records)
      /\ Layered(visibleWrites, allWrites) /\ \A p \in Paths : Shows(view[p], visibleWrites, p)
  BY TypesAre, TreeFields DEF Inv, ListenInv, Types, TreeExact, ViewsShow
<1>3. /\ \A m : ~Has(toServer, m) /\ ~Has(toClient, m)
      /\ \A q, spec : ~Waits(toServer, q, spec) /\ ~Waits(toClient, q, spec)
  BY DEF Has, Waits
<1>4. puts = <<>>
  <2>1. Flight(toServer, toClient, puts, connected)
    BY DEF Inv, NetInv, InFlight
  <2>2. \A r \in Records : ~Has(puts, r)
    BY <1>1, <1>3, <2>1 DEF Flight
  <2>3. ~(1 \in DOMAIN puts)
    <3>1. ASSUME 1 \in DOMAIN puts
          PROVE  FALSE
      <4>1. puts[1] \in Records
        BY <1>2, <3>1, ElementOfSeq, LenProperties
      <4>. QED
        BY <2>2, <3>1, <4>1 DEF Has
    <3>. QED
      BY <3>1
  <2>. QED
    BY <1>2, <2>3, LenProperties, EmptySeq
<1>5. allWrites = <<>>
  BY <1>4, <1>2, EmptySeq DEF Inv, NetInv, Queued
<1>6. ~visibleWrites.root /\ \A c \in Children : visibleWrites.node[c] = Unwritten
  BY <1>5, <1>2 DEF Layered
<1>7. ASSUME NEW p \in Paths, view[p].on
      PROVE  view[p].eventFull /\ view[p].event = Only(p, data)
  <2>1. view[p].serverFull
    BY <1>1, <1>3, <1>7 DEF Sources, Asked
  <2>2. /\ view[p].event = WithWrites(visibleWrites, p, view[p].server) /\ view[p].eventFull
        /\ \A c \in Children \ Below(p) : view[p].server[c] = None
    BY <1>2, <1>7, <2>1 DEF Shows
  <2>3. view[p].server \in Node
    BY <1>1 DEF Caches
  <2>. PICK q : q = From(view, p)
    OBVIOUS
  <2>4. q \in Paths /\ listens[q] # 0
    BY <1>1, <1>7 DEF From, Covers
  <2>5. q \notin Denied /\ Watched(toServer, listens, q)
    <3>1. Decided(toServer, toClient, listens, serving)
      BY <1>1 DEF Quiet
    <3>2. ~AskedLast(toServer, q, listens[q])
      BY DEF AskedLast
    <3>. QED
      BY <1>3, <2>4, <3>1, <3>2 DEF Decided, Watched
  <2>6. \A x \in Below(p) : view[p].server[x] = data[x]
    <3>1. Due(toServer, toClient, listens, view, data)
      BY <1>1 DEF Quiet
    <3>2. \A x \in Below(p) : Brings(toClient, x, view[p].server[x], data[x])
      BY <1>7, <2>5, <3>1 DEF Due
    <3>3. \A x, b : ~Tells(toClient, x, b)
      BY DEF Tells
    <3>. QED
      BY <3>2, <3>3 DEF Brings
  <2>7. \A c \in Children : view[p].event[c] = view[p].server[c]
    BY <1>6, <2>2 DEF WithWrites
  <2>8. \A c \in Children : view[p].event[c] = Only(p, data)[c]
    BY <2>2, <2>6, <2>7 DEF Only
  <2>9. view[p].event \in Node /\ Only(p, data) = [c \in Children |-> Only(p, data)[c]]
    BY <1>1 DEF Caches, Only
  <2>10. view[p].event = [c \in Children |-> view[p].event[c]]
    BY <2>9 DEF Node
  <2>. QED
    BY <2>2, <2>8, <2>9, <2>10
<1>. QED
  BY <1>5, <1>7 DEF On

\* A client whose connection is not lost, that observes nothing below an unanswered
\* listen, and whose hashes are up to date when the server compares them, shows the
\* server's data whenever nothing is on its way (Converged), whatever the order of
\* writes, refusals, observers, data and answers.  A right to read the location is one
\* to read what is below it.
THEOREM QuietClientsConverge ==
  ASSUME MaxDrops = 0, ~Late, ~Races, Root \in Denied \/ Denied = {}
  PROVE  Spec => []Converged
<1>1. Init => Inv /\ TreeExact(Tree) /\ QuietNow
  BY InitEstablishes, QuietStarts
<1>2. Inv /\ TreeExact(Tree) /\ QuietNow /\ [Next]_vars => Inv' /\ TreeExact(Tree)' /\ QuietNow'
  <2>1. Timely
    BY DEF Timely
  <2>2. ASSUME Inv, TreeExact(Tree), QuietNow, [Next]_vars
        PROVE  Inv' /\ TreeExact(Tree') /\ QuietNow'
    BY <2>1, <2>2, StepKeeps, QuietStep
  <2>. QED
    BY <2>2
<1>3. Inv /\ TreeExact(Tree) /\ QuietNow => Converged
  BY QuietShown
<1>. QED
  BY <1>1, <1>2, <1>3, PTL DEF Spec

=============================================================================
