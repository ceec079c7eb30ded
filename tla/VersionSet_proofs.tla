------------------------- MODULE VersionSet_proofs -------------------------
(***************************************************************************)
(* TLAPS proofs about VersionSet, for any numbers of keys, writes, levels  *)
(* and snapshots and any size limits: the levels stay sorted (LevelsExact) *)
(* and what a read meets first is newer (NewerFirst), and a client that    *)
(* never deletes reads every snapshot exactly (ReadsSnapshot).             *)
(***************************************************************************)
EXTENDS VersionSet, FiniteSetTheorems, WellFoundedInduction, TLAPS

-----------------------------------------------------------------------------
(***************************************************************************)
(* Internal keys are in a total order, and a set of them has ends.         *)
(***************************************************************************)
\* Entries that differ in their sequence numbers.
Ordered(W) == W \subseteq Entry /\ \A a, b \in W : a.seq = b.seq => a = b

LEMMA EntryTypes ==
  ASSUME NEW e \in Entry
  PROVE  e.key \in Nat /\ e.seq \in Nat /\ e.key \in Keys /\ e.seq \in 1 .. MaxSeq /\ e.del \in BOOLEAN
BY SizesAssumption DEF Entry, Keys

LEMMA BeforeIsOrder ==
  ASSUME NEW W, Ordered(W), NEW a \in W, NEW b \in W, NEW c \in W
  PROVE  /\ ~Before(a, a)
         /\ ~(Before(a, b) /\ Before(b, a))
         /\ Before(a, b) /\ Before(b, c) => Before(a, c)
         /\ a = b \/ Before(a, b) \/ Before(b, a)
<1>1. a \in Entry /\ b \in Entry /\ c \in Entry /\ (a.seq = b.seq => a = b)
  BY DEF Ordered
<1>2. /\ a.key \in Nat /\ b.key \in Nat /\ c.key \in Nat
      /\ a.seq \in Nat /\ b.seq \in Nat /\ c.seq \in Nat
  BY <1>1, EntryTypes
<1> QED
  BY <1>1, <1>2 DEF Before

LEMMA LeastNumber ==
  ASSUME NEW S, S \subseteq Nat, S # {}
  PROVE  \E n \in S : \A m \in S : n <= m
<1> DEFINE R == {p \in Nat \X Nat : p[1] < p[2]}
<1>1. IsWellFoundedOn(R, Nat)
  BY NatLessThanWellFounded DEF OpToRel
<1>2. \E n \in S : \A m \in S : <<m, n>> \notin R
  <2> HIDE DEF R
  <2> QED
    BY <1>1, WFMin
<1>3. \A n, m \in Nat : <<m, n>> \in R <=> m < n
  OBVIOUS
<1> HIDE DEF R
<1>4. PICK n \in S : \A m \in S : <<m, n>> \notin R
  BY <1>2
<1>5. \A m \in S : n \in Nat /\ m \in Nat /\ ~(m < n)
  BY <1>3, <1>4
<1>6. \A m \in S : n <= m
  BY <1>5
<1> QED
  BY <1>4, <1>6

LEMMA GreatestNumber ==
  ASSUME NEW S, NEW b \in Nat, S \subseteq 0 .. b, S # {}
  PROVE  \E n \in S : \A m \in S : m <= n
<1> DEFINE T == {b - m : m \in S}
<1>1. T \subseteq Nat /\ T # {}
  <2>1. \A m \in S : b - m \in Nat
    OBVIOUS
  <2>2. \E m \in S : b - m \in T
    OBVIOUS
  <2> QED
    BY <2>1, <2>2
<1>2. PICK t \in T : \A u \in T : t <= u
  <2> HIDE DEF T
  <2> QED
    BY <1>1, LeastNumber
<1>3. PICK n \in S : t = b - n
  OBVIOUS
<1>4. ASSUME NEW m \in S PROVE m <= n
  <2>1. t <= b - m
    BY <1>2
  <2> QED
    BY <1>3, <2>1
<1> QED
  BY <1>3, <1>4

LEMMA HasSmallest ==
  ASSUME NEW W, Ordered(W), NEW S, S \subseteq W, S # {}
  PROVE  \E e \in S : \A x \in S : ~Before(x, e)
<1>1. \A x \in S : x \in Entry /\ x.key \in Nat /\ x.seq \in 0 .. MaxSeq /\ x.seq \in Nat
  BY EntryTypes, SizesAssumption DEF Ordered
<1> DEFINE K == {x.key : x \in S}
<1>2. PICK k \in K : \A j \in K : k <= j
  <2>1. K \subseteq Nat /\ K # {}
    BY <1>1
  <2> HIDE DEF K
  <2> QED
    BY <2>1, LeastNumber
<1> DEFINE Q == {x.seq : x \in {y \in S : y.key = k}}
<1>3. PICK q \in Q : \A r \in Q : r <= q
  <2>1. Q \subseteq 0 .. MaxSeq /\ Q # {} /\ MaxSeq \in Nat
    BY <1>1, SizesAssumption
  <2> HIDE DEF Q, K
  <2> QED
    BY <2>1, GreatestNumber
<1>4. PICK e \in S : e.key = k /\ e.seq = q
  OBVIOUS
<1>5. ASSUME NEW x \in S PROVE ~Before(x, e)
  <2>1. k <= x.key
    BY <1>2
  <2>2. x.key = k => x.seq <= q
    BY <1>3
  <2> QED
    BY <1>1, <1>4, <2>1, <2>2 DEF Before
<1> QED
  BY <1>4, <1>5

LEMMA HasLargest ==
  ASSUME NEW W, Ordered(W), NEW S, S \subseteq W, S # {}
  PROVE  \E e \in S : \A x \in S : ~Before(e, x)
<1>1. \A x \in S : x \in Entry /\ x.key \in Nat /\ x.key \in 0 .. MaxKey /\ x.seq \in Nat
  BY EntryTypes, SizesAssumption DEF Ordered, Keys
<1> DEFINE K == {x.key : x \in S}
<1>2. PICK k \in K : \A j \in K : j <= k
  <2>1. K \subseteq 0 .. MaxKey /\ K # {} /\ MaxKey \in Nat
    BY <1>1, SizesAssumption
  <2> HIDE DEF K
  <2> QED
    BY <2>1, GreatestNumber
<1> DEFINE Q == {x.seq : x \in {y \in S : y.key = k}}
<1>3. PICK q \in Q : \A r \in Q : q <= r
  <2>1. Q \subseteq Nat /\ Q # {}
    BY <1>1
  <2> HIDE DEF Q, K
  <2> QED
    BY <2>1, LeastNumber
<1>4. PICK e \in S : e.key = k /\ e.seq = q
  OBVIOUS
<1>5. ASSUME NEW x \in S PROVE ~Before(e, x)
  <2>1. x.key <= k
    BY <1>2
  <2>2. x.key = k => q <= x.seq
    BY <1>3
  <2> QED
    BY <1>1, <1>4, <2>1, <2>2 DEF Before
<1> QED
  BY <1>4, <1>5

\* The tables that may hold entries of W.
Tables(W) == [number : Nat, entries : (SUBSET W) \ {{}}]

LEMMA SmallestOf ==
  ASSUME NEW W, Ordered(W), NEW f, f.entries \subseteq W, f.entries # {}
  PROVE  Smallest(f) \in f.entries /\ \A x \in f.entries : ~Before(x, Smallest(f))
<1>1. \E e \in f.entries : \A x \in f.entries : ~Before(x, e)
  BY HasSmallest
<1> QED
  BY <1>1 DEF Smallest

LEMMA LargestOf ==
  ASSUME NEW W, Ordered(W), NEW f, f.entries \subseteq W, f.entries # {}
  PROVE  Largest(f) \in f.entries /\ \A x \in f.entries : ~Before(Largest(f), x)
<1>1. \E e \in f.entries : \A x \in f.entries : ~Before(e, x)
  BY HasLargest
<1> QED
  BY <1>1 DEF Largest

\* A table begins with its smallest key and ends with its largest.
LEMMA Ends ==
  ASSUME NEW W, Ordered(W), NEW f \in Tables(W)
  PROVE  /\ Smallest(f) \in f.entries /\ Largest(f) \in f.entries
         /\ Smallest(f) \in W /\ Largest(f) \in W
         /\ Smallest(f).key \in Nat /\ Largest(f).key \in Nat
         /\ Smallest(f).seq \in Nat /\ Largest(f).seq \in Nat
         /\ Smallest(f).key <= Largest(f).key
         /\ \A x \in f.entries : ~Before(x, Smallest(f)) /\ ~Before(Largest(f), x)
<1>1. f.entries \subseteq W /\ f.entries # {}
  BY DEF Tables
<1>2. Smallest(f) \in f.entries /\ \A x \in f.entries : ~Before(x, Smallest(f))
  BY <1>1, SmallestOf
<1>3. Largest(f) \in f.entries /\ \A x \in f.entries : ~Before(Largest(f), x)
  BY <1>1, LargestOf
<1>4. /\ Smallest(f).key \in Nat /\ Largest(f).key \in Nat
      /\ Smallest(f).seq \in Nat /\ Largest(f).seq \in Nat
  BY <1>1, <1>2, <1>3, EntryTypes DEF Ordered
<1>5. ~Before(Largest(f), Smallest(f))
  BY <1>2, <1>3
<1>6. Smallest(f).key <= Largest(f).key
  BY <1>4, <1>5 DEF Before
<1> QED
  BY <1>1, <1>2, <1>3, <1>4, <1>6

\* GetRange: the range of some tables begins and ends with one of them.
LEMMA RangeFacts ==
  ASSUME NEW W, Ordered(W), NEW fs, fs \subseteq Tables(W), fs # {}
  PROVE  /\ RangeOf(fs).largest = LastKey(fs)
         /\ \E f \in fs : RangeOf(fs).smallest = Smallest(f)
         /\ \E f \in fs : LastKey(fs) = Largest(f)
         /\ \A f \in fs : ~Before(Smallest(f), RangeOf(fs).smallest) /\ ~Before(LastKey(fs), Largest(f))
         /\ \A f \in fs : RangeOf(fs).smallest.key <= Smallest(f).key
         /\ \A f \in fs : Largest(f).key <= LastKey(fs).key
         /\ RangeOf(fs).smallest.key \in Nat /\ LastKey(fs).key \in Nat
         /\ RangeOf(fs).smallest \in W /\ LastKey(fs) \in W
<1> DEFINE a == [entries |-> {Smallest(f) : f \in fs}]
           b == [entries |-> {Largest(f) : f \in fs}]
<1>1. \A f \in fs : /\ Smallest(f) \in W /\ Largest(f) \in W
                    /\ Smallest(f).key \in Nat /\ Largest(f).key \in Nat
                    /\ Smallest(f).seq \in Nat /\ Largest(f).seq \in Nat
  BY Ends
<1>2. a.entries \subseteq W /\ a.entries # {} /\ b.entries \subseteq W /\ b.entries # {}
  BY <1>1
<1>3. Smallest(a) \in a.entries /\ \A x \in a.entries : ~Before(x, Smallest(a))
  <2> HIDE DEF a
  <2> QED
    BY <1>2, SmallestOf
<1>4. Largest(b) \in b.entries /\ \A x \in b.entries : ~Before(Largest(b), x)
  <2> HIDE DEF b
  <2> QED
    BY <1>2, LargestOf
<1>5. RangeOf(fs).smallest = Smallest(a) /\ RangeOf(fs).largest = Largest(b) /\ LastKey(fs) = Largest(b)
  BY DEF RangeOf, LastKey
<1>6. /\ \E f \in fs : Smallest(a) = Smallest(f)
      /\ \E f \in fs : Largest(b) = Largest(f)
      /\ \A f \in fs : ~Before(Smallest(f), Smallest(a)) /\ ~Before(Largest(b), Largest(f))
  BY <1>3, <1>4
<1> HIDE DEF a, b
<1>7. /\ Smallest(a).key \in Nat /\ Largest(b).key \in Nat
      /\ Smallest(a).seq \in Nat /\ Largest(b).seq \in Nat
      /\ Smallest(a) \in W /\ Largest(b) \in W
  BY <1>1, <1>6
<1>8. \A f \in fs : Smallest(a).key <= Smallest(f).key /\ Largest(f).key <= Largest(b).key
  BY <1>1, <1>6, <1>7 DEF Before
<1> QED
  BY <1>5, <1>6, <1>7, <1>8

-----------------------------------------------------------------------------
(***************************************************************************)
(* What a compaction takes in.                                             *)
(***************************************************************************)
LEMMA ReachedFacts ==
  ASSUME NEW fs, NEW found, found \subseteq fs, NEW R, R \subseteq fs \X fs
  PROVE  /\ found \subseteq Reached(fs, found, R)
         /\ Reached(fs, found, R) \subseteq fs
         /\ \A p \in R : p[1] \in Reached(fs, found, R) => p[2] \in Reached(fs, found, R)
<1>1. ASSUME NEW p \in R, p[1] \in Reached(fs, found, R)
      PROVE  p[2] \in Reached(fs, found, R)
  <2>1. p[2] \in fs
    OBVIOUS
  <2>2. ASSUME NEW s \in SUBSET fs, found \subseteq s, \A q \in R : q[1] \in s => q[2] \in s
        PROVE  p[2] \in s
    BY <1>1, <2>2 DEF Reached
  <2> QED
    BY <2>1, <2>2 DEF Reached
<1>2. found \subseteq Reached(fs, found, R) /\ Reached(fs, found, R) \subseteq fs
  BY DEF Reached
<1> QED
  BY <1>1, <1>2

LEMMA ReachedLeast ==
  ASSUME NEW fs, NEW found, NEW R, NEW s \in SUBSET fs, found \subseteq s,
         \A p \in R : p[1] \in s => p[2] \in s
  PROVE  Reached(fs, found, R) \subseteq s
BY DEF Reached

\* Tables without a gap: a range of user keys that meets none of them lies
\* outside of them all.
Clear(F, x, y) == \A f \in F : ~Meets(f, x, y)
OneSide(F, x, y) == \/ \A f \in F : Largest(f).key < x
                    \/ \A f \in F : Smallest(f).key > y
Connected(F) == \A x, y \in Keys : x <= y /\ Clear(F, x, y) => OneSide(F, x, y)

LEMMA ConnectedReached ==
  ASSUME NEW W, Ordered(W), NEW fs, fs \subseteq Tables(W), NEW found, found \subseteq fs,
         NEW A, A \subseteq Tables(W), NEW R, R \subseteq Touching(fs), Connected(A \cup found)
  PROVE  Connected(A \cup Reached(fs, found, R))
<1> DEFINE S == Reached(fs, found, R)
<1>1. R \subseteq fs \X fs
  BY DEF Touching
<1>2. found \subseteq S /\ S \subseteq fs /\ \A p \in R : p[1] \in S => p[2] \in S
  BY <1>1, ReachedFacts
<1>3. SUFFICES ASSUME NEW x \in Keys, NEW y \in Keys, x <= y, Clear(A \cup S, x, y)
               PROVE  OneSide(A \cup S, x, y)
  BY DEF Connected
<1>4. OneSide(A \cup found, x, y)
  BY <1>2, <1>3 DEF Connected, Clear
<1>5. x \in Nat /\ y \in Nat
  BY SizesAssumption DEF Keys
<1>6. \A f \in fs : Smallest(f).key \in Nat /\ Largest(f).key \in Nat /\ Smallest(f).key <= Largest(f).key
  BY Ends
<1>7. \A p \in R : /\ p[1] \in fs /\ p[2] \in fs
                   /\ Smallest(p[1]).key <= Largest(p[2]).key /\ Largest(p[1]).key >= Smallest(p[2]).key
  BY DEF Touching, Meets
<1>8. \A f \in S : ~(Smallest(f).key <= y /\ Largest(f).key >= x)
  BY <1>3 DEF Clear, Meets
<1> DEFINE Low == {f \in S : Largest(f).key < x}
           High == {f \in S : Smallest(f).key > y}
<1>9. \A p \in R : p[1] \in Low => p[2] \in Low
  BY <1>2, <1>3, <1>5, <1>6, <1>7, <1>8
<1>10. \A p \in R : p[1] \in High => p[2] \in High
  BY <1>2, <1>3, <1>5, <1>6, <1>7, <1>8
<1>11. Low \in SUBSET fs /\ High \in SUBSET fs
  BY <1>2
<1>12. CASE \A f \in A \cup found : Largest(f).key < x
  <2>1. found \subseteq Low
    BY <1>2, <1>12
  <2>2. S \subseteq Low
    <3> HIDE DEF Low
    <3> QED
      BY <1>9, <1>11, <2>1, ReachedLeast
  <2> QED
    BY <1>12, <2>2 DEF OneSide
<1>13. CASE \A f \in A \cup found : Smallest(f).key > y
  <2>1. found \subseteq High
    BY <1>2, <1>13
  <2>2. S \subseteq High
    <3> HIDE DEF High
    <3> QED
      BY <1>10, <1>11, <2>1, ReachedLeast
  <2> QED
    BY <1>13, <2>2 DEF OneSide
<1> QED
  BY <1>4, <1>12, <1>13 DEF OneSide

\* What meets the range of tables without a gap leaves none.
LEMMA ConnectedMeeting ==
  ASSUME NEW W, Ordered(W), NEW A, A \subseteq Tables(W), A # {}, Connected(A),
         NEW S, S \subseteq Tables(W),
         \A f \in S : Meets(f, RangeOf(A).smallest.key, RangeOf(A).largest.key)
  PROVE  Connected(A \cup S)
<1>1. SUFFICES ASSUME NEW x \in Keys, NEW y \in Keys, x <= y, Clear(A \cup S, x, y)
               PROVE  OneSide(A \cup S, x, y)
  BY DEF Connected
<1>2. OneSide(A, x, y)
  BY <1>1 DEF Connected, Clear
<1>3. x \in Nat /\ y \in Nat
  BY SizesAssumption DEF Keys
<1> DEFINE lo == RangeOf(A).smallest.key
           hi == RangeOf(A).largest.key
<1>4. /\ lo \in Nat /\ hi \in Nat
      /\ \E f \in A : lo = Smallest(f).key
      /\ \E f \in A : hi = Largest(f).key
  BY RangeFacts
<1>5. \A f \in S : Smallest(f).key \in Nat /\ Largest(f).key \in Nat
  BY Ends
<1>6. \A f \in S : Smallest(f).key <= hi /\ Largest(f).key >= lo
  BY DEF Meets
<1>7. \A f \in S : ~(Smallest(f).key <= y /\ Largest(f).key >= x)
  BY <1>1 DEF Clear, Meets
<1>8. CASE \A f \in A : Largest(f).key < x
  <2>1. hi < x
    BY <1>4, <1>8
  <2>2. \A f \in S : Largest(f).key < x
    BY <1>1, <1>3, <1>4, <1>5, <1>6, <1>7, <2>1
  <2> QED
    BY <1>8, <2>2 DEF OneSide
<1>9. CASE \A f \in A : Smallest(f).key > y
  <2>1. lo > y
    BY <1>4, <1>9
  <2>2. \A f \in S : Smallest(f).key > y
    BY <1>1, <1>3, <1>4, <1>5, <1>6, <1>7, <2>1
  <2> QED
    BY <1>9, <2>2 DEF OneSide
<1> QED
  BY <1>2, <1>8, <1>9 DEF OneSide

\* Tables that all hold keys on both sides of one leave none either.
LEMMA ConnectedAround ==
  ASSUME NEW W, Ordered(W), NEW A, A \subseteq Tables(W), NEW b \in Nat, NEW e \in Nat, e <= b + 1,
         \A f \in A : Meets(f, b, e)
  PROVE  Connected(A)
<1>1. SUFFICES ASSUME NEW x \in Keys, NEW y \in Keys, x <= y, Clear(A, x, y)
               PROVE  OneSide(A, x, y)
  BY DEF Connected
<1>2. x \in Nat /\ y \in Nat
  BY SizesAssumption DEF Keys
<1>3. \A f \in A : Smallest(f).key \in Nat /\ Largest(f).key \in Nat
  BY Ends
<1>4. \A f \in A : Smallest(f).key <= e /\ Largest(f).key >= b
  BY DEF Meets
<1>5. \A f \in A : ~(Smallest(f).key <= y /\ Largest(f).key >= x)
  BY <1>1 DEF Clear, Meets
<1>6. CASE b < x
  BY <1>1, <1>2, <1>3, <1>4, <1>5, <1>6 DEF OneSide
<1>7. CASE b >= x
  <2>1. \A f \in A : Smallest(f).key > y
    BY <1>2, <1>3, <1>4, <1>5, <1>7
  <2> QED
    BY <2>1 DEF OneSide
<1> QED
  BY <1>2, <1>6, <1>7

LEMMA ConnectedOne ==
  ASSUME NEW W, Ordered(W), NEW f \in Tables(W)
  PROVE  Connected({f})
<1>1. f \in Tables(W) /\ Smallest(f).key \in Nat /\ Largest(f).key \in Nat
  BY Ends
<1> QED
  BY <1>1, SizesAssumption DEF Connected, Clear, OneSide, Meets, Keys

\* A's entries are newer than those of B for the same user key.
NewerThan(A, B) == \A a \in A, b \in B : a.key = b.key => a.seq > b.seq

\* The tables of a sorted level; of those, which are on one side of others.
Apart(fs) ==
  \A f, g \in fs : f = g \/ Before(Largest(f), Smallest(g)) \/ Before(Largest(g), Smallest(f))

\* What AddBoundaryInputs may be given: at level 0 all that overlap, above it
\* tables after which the level goes on with another user key, or which end
\* where the last one does.
Closed(fs, picked) == \A p \in Touching(fs) : p[1] \in picked => p[2] \in picked
Ended(fs, picked) ==
  \A f \in picked, g \in fs \ picked :
    Before(Largest(f), Smallest(g)) /\ Smallest(g).key = Largest(f).key
      => g \in BoundaryFiles(fs, LastKey(picked))
Pickable(level, fs, picked) ==
  /\ picked \subseteq fs /\ picked # {}
  /\ level = 0 => Closed(fs, picked)
  /\ level # 0 => Apart(fs) /\ Ended(fs, picked)

\* What stays behind is newer, for the same user keys.
Severed(fs, ins) == \A f \in ins, g \in fs \ ins : NewerThan(g.entries, f.entries)

\* The pairs that AddBoundaryInputs follows.
NextPairs(fs, inputs) ==
  {p \in fs \X fs : /\ ~Before(Largest(p[1]), LastKey(inputs))
                    /\ p[2] \in NextBoundary(fs, Largest(p[1]))}

LEMMA BoundaryPairs ==
  ASSUME NEW level
  PROVE  \A inputs : AddBoundaryInputs(level, inputs)
                       = Reached(levels[level], inputs, NextPairs(levels[level], inputs))
BY DEF AddBoundaryInputs, NextPairs

\* A boundary file begins where the one before it ends.
LEMMA NextTouches ==
  ASSUME NEW W, Ordered(W), NEW fs, fs \subseteq Tables(W), NEW inputs
  PROVE  NextPairs(fs, inputs) \subseteq Touching(fs)
<1> SUFFICES ASSUME NEW p \in NextPairs(fs, inputs)
             PROVE  p \in Touching(fs)
  OBVIOUS
<1>1. /\ p \in fs \X fs /\ p[1] \in fs /\ p[2] \in fs
      /\ Smallest(p[2]).key = Largest(p[1]).key
  BY DEF NextPairs, NextBoundary, BoundaryFiles
<1>2. /\ Smallest(p[1]).key \in Nat /\ Largest(p[1]).key \in Nat /\ Smallest(p[1]).key <= Largest(p[1]).key
      /\ Smallest(p[2]).key \in Nat /\ Largest(p[2]).key \in Nat /\ Smallest(p[2]).key <= Largest(p[2]).key
  BY <1>1, Ends
<1>3. Meets(p[1], Smallest(p[2]).key, Largest(p[2]).key)
  BY <1>1, <1>2 DEF Meets
<1> QED
  BY <1>1, <1>3 DEF Touching

\* Tables of level 0 that do not touch have no user key in common.
LEMMA Untouched ==
  ASSUME NEW W, Ordered(W), NEW fs, fs \subseteq Tables(W), NEW f \in fs, NEW g \in fs,
         <<f, g>> \notin Touching(fs)
  PROVE  \A a \in g.entries, b \in f.entries : a.key # b.key
<1> SUFFICES ASSUME NEW a \in g.entries, NEW b \in f.entries, a.key = b.key
             PROVE  FALSE
  OBVIOUS
<1>1. a \in W /\ b \in W /\ a.key \in Nat /\ b.key \in Nat /\ a.seq \in Nat /\ b.seq \in Nat
  BY EntryTypes DEF Tables, Ordered
<1>2. /\ ~Before(b, Smallest(f)) /\ ~Before(Largest(f), b)
      /\ ~Before(a, Smallest(g)) /\ ~Before(Largest(g), a)
      /\ Smallest(f).key \in Nat /\ Largest(f).key \in Nat
      /\ Smallest(g).key \in Nat /\ Largest(g).key \in Nat
  BY Ends
<1>3. Smallest(f).key <= b.key /\ b.key <= Largest(f).key /\ Smallest(g).key <= a.key /\ a.key <= Largest(g).key
  BY <1>1, <1>2 DEF Before
<1>4. Meets(f, Smallest(g).key, Largest(g).key)
  BY <1>1, <1>2, <1>3 DEF Meets
<1> QED
  BY <1>4 DEF Touching

\* Every set of tables has one that begins first, and one that ends last.
LEMMA FirstStart ==
  ASSUME NEW W, Ordered(W), NEW fs, fs \subseteq Tables(W), fs # {}
  PROVE  \E f \in fs : \A g \in fs : ~Before(Smallest(g), Smallest(f))
<1> DEFINE S == {Smallest(f) : f \in fs}
<1>1. S \subseteq W /\ S # {}
  BY Ends
<1>2. PICK e \in S : \A x \in S : ~Before(x, e)
  <2> HIDE DEF S
  <2> QED
    BY <1>1, HasSmallest
<1> QED
  BY <1>2

LEMMA LastEnd ==
  ASSUME NEW W, Ordered(W), NEW fs, fs \subseteq Tables(W), fs # {}
  PROVE  \E f \in fs : \A g \in fs : ~Before(Largest(f), Largest(g))
<1> DEFINE S == {Largest(f) : f \in fs}
<1>1. S \subseteq W /\ S # {}
  BY Ends
<1>2. PICK e \in S : \A x \in S : ~Before(e, x)
  <2> HIDE DEF S
  <2> QED
    BY <1>1, HasLargest
<1> QED
  BY <1>2

\* At level 0 nothing comes along, since everything that overlaps is there.
LEMMA BoundaryAtZero ==
  ASSUME NEW W, Ordered(W), NEW fs, fs \subseteq Tables(W), NEW picked, picked \subseteq fs, Closed(fs, picked)
  PROVE  Reached(fs, picked, NextPairs(fs, picked)) = picked
<1>1. NextPairs(fs, picked) \subseteq Touching(fs) /\ Touching(fs) \subseteq fs \X fs
  BY NextTouches DEF Touching
<1>2. \A p \in NextPairs(fs, picked) : p[1] \in picked => p[2] \in picked
  BY <1>1 DEF Closed
<1>3. Reached(fs, picked, NextPairs(fs, picked)) \subseteq picked
  BY <1>2, ReachedLeast
<1>4. picked \subseteq Reached(fs, picked, NextPairs(fs, picked))
  BY <1>1, ReachedFacts
<1> QED
  BY <1>3, <1>4

\* Above it, no table after the inputs begins in a user key in which one ends.
LEMMA NothingOnTheBoundary ==
  ASSUME NEW W, Ordered(W), NEW fs, fs \subseteq Tables(W), Apart(fs),
         NEW picked, picked \subseteq fs, picked # {}, Ended(fs, picked),
         NEW ins, ins = Reached(fs, picked, NextPairs(fs, picked)),
         NEW f \in ins, NEW g \in fs \ ins, Before(Largest(f), Smallest(g))
  PROVE  Smallest(g).key # Largest(f).key
<1> SUFFICES ASSUME Smallest(g).key = Largest(f).key
             PROVE  FALSE
  OBVIOUS
<1> DEFINE R == NextPairs(fs, picked)
           T == {h \in fs : ~Before(Largest(h), LastKey(picked))}
<1>1. R \subseteq fs \X fs
  BY DEF NextPairs
<1>2. picked \subseteq ins /\ ins \subseteq fs /\ \A p \in R : p[1] \in ins => p[2] \in ins
  BY <1>1, ReachedFacts
<1>3. picked \subseteq Tables(W)
  OBVIOUS
<1>4. /\ LastKey(picked) \in W
      /\ \E h \in picked : LastKey(picked) = Largest(h)
      /\ \A h \in picked : ~Before(LastKey(picked), Largest(h))
  BY <1>3, RangeFacts
<1>5. \A h \in fs : Largest(h) \in W /\ Smallest(h) \in W /\ Smallest(h).key <= Largest(h).key
                    /\ ~Before(Largest(h), Smallest(h))
                    /\ Largest(h).key \in Nat /\ Largest(h).seq \in Nat
                    /\ Smallest(h).key \in Nat /\ Smallest(h).seq \in Nat
  BY Ends
<1>6. LastKey(picked).key \in Nat /\ LastKey(picked).seq \in Nat
  BY <1>4, <1>5, <1>2
\* Everything that is reached was picked or ends after that.
<1>7. \A h \in ins : h \in picked \/ h \in T
  <2> DEFINE s == picked \cup {h \in ins : h \in T}
  <2>1. s \in SUBSET fs /\ picked \subseteq s
    BY <1>2
  <2>2. ASSUME NEW p \in R, p[1] \in s
        PROVE  p[2] \in s
    <3>1. p[1] \in ins /\ p[1] \in fs /\ p[2] \in fs /\ p[2] \in ins
      BY <1>1, <1>2, <2>2
    <3>2. ~Before(Largest(p[1]), LastKey(picked)) /\ Before(Largest(p[1]), Smallest(p[2]))
      BY DEF NextPairs, NextBoundary, BoundaryFiles
    <3>3. ~Before(Largest(p[2]), LastKey(picked))
      BY <1>5, <1>6, <3>1, <3>2 DEF Before
    <3> QED
      BY <3>1, <3>3
  <2>3. ins \subseteq s
    <3> HIDE DEF s, R
    <3> QED
      BY <2>1, <2>2, ReachedLeast DEF R
  <2> QED
    BY <2>3
\* One of those that g begins in ends last: but the next file comes before g.
<1> DEFINE Q == {h \in ins : h \in T /\ g \in BoundaryFiles(fs, Largest(h))}
<1>8. Q # {}
  <2>1. CASE f \in picked
    <3>1. g \in fs \ picked
      BY <1>2
    <3>2. g \in BoundaryFiles(fs, LastKey(picked))
      BY <2>1, <3>1 DEF Ended
    <3>3. PICK h \in picked : LastKey(picked) = Largest(h)
      BY <1>4
    <3>4. h \in ins /\ h \in fs /\ ~Before(Largest(h), LastKey(picked))
      BY <1>2, <1>5, <1>6, <3>3 DEF Before
    <3> QED
      BY <3>2, <3>3, <3>4
  <2>2. CASE f \in T
    <3>1. g \in BoundaryFiles(fs, Largest(f))
      BY DEF BoundaryFiles
    <3> QED
      BY <2>2, <3>1
  <2> QED
    BY <1>7, <2>1, <2>2
<1>9. PICK h \in Q : \A i \in Q : ~Before(Largest(h), Largest(i))
  <2>1. Q \subseteq Tables(W)
    BY <1>2
  <2> HIDE DEF Q
  <2> QED
    BY <1>8, <2>1, LastEnd
<1>10. h \in ins /\ h \in fs /\ g \in BoundaryFiles(fs, Largest(h)) /\ ~Before(Largest(h), LastKey(picked))
  BY <1>2
<1>11. PICK n \in BoundaryFiles(fs, Largest(h)) :
         \A i \in BoundaryFiles(fs, Largest(h)) : ~Before(Smallest(i), Smallest(n))
  <2>1. BoundaryFiles(fs, Largest(h)) \subseteq Tables(W)
    BY DEF BoundaryFiles
  <2> QED
    BY <1>10, <2>1, FirstStart
<1>12. n \in fs /\ n \in NextBoundary(fs, Largest(h)) /\ Before(Largest(h), Smallest(n))
       /\ Smallest(n).key = Largest(h).key
  BY <1>11 DEF NextBoundary, BoundaryFiles
<1>13. <<h, n>> \in R
  BY <1>10, <1>12 DEF NextPairs
<1>14. n \in ins
  <2> HIDE DEF R
  <2> QED
    BY <1>2, <1>10, <1>13
<1>15. n # g /\ ~Before(Smallest(g), Smallest(n))
  BY <1>10, <1>11, <1>14
<1>16. Smallest(g).key = Largest(h).key
  BY <1>10 DEF BoundaryFiles
<1>17. Before(Largest(n), Smallest(g)) \/ Before(Largest(g), Smallest(n))
  BY <1>12, <1>15 DEF Apart
<1>18. Before(Largest(n), Smallest(g)) /\ Largest(n).key = Smallest(g).key
  BY <1>5, <1>12, <1>15, <1>16, <1>17 DEF Before
<1>19. n \in Q
  <2>1. g \in BoundaryFiles(fs, Largest(n))
    BY <1>18 DEF BoundaryFiles
  <2>2. ~Before(Largest(n), LastKey(picked))
    BY <1>5, <1>6, <1>10, <1>12 DEF Before
  <2> QED
    BY <1>12, <1>14, <2>1, <2>2
<1>20. Before(Largest(h), Largest(n))
  BY <1>5, <1>10, <1>12 DEF Before
<1> QED
  BY <1>9, <1>19, <1>20

LEMMA BoundaryFacts ==
  ASSUME NEW W, Ordered(W), NEW level, NEW fs, fs \subseteq Tables(W),
         NEW picked, Pickable(level, fs, picked),
         NEW ins, ins = Reached(fs, picked, NextPairs(fs, picked))
  PROVE  /\ picked \subseteq ins /\ ins \subseteq fs
         /\ Severed(fs, ins)
<1>1. picked \subseteq fs /\ picked # {}
  BY DEF Pickable
<1>2. NextPairs(fs, picked) \subseteq Touching(fs) /\ NextPairs(fs, picked) \subseteq fs \X fs
  BY NextTouches DEF NextPairs
<1>3. picked \subseteq ins /\ ins \subseteq fs
  BY <1>1, <1>2, ReachedFacts
<1>5. CASE level = 0
  <2>1. Closed(fs, picked)
    BY <1>5 DEF Pickable
  <2>2. ins = picked
    BY <1>1, <2>1, BoundaryAtZero
  <2>3. ASSUME NEW f \in ins, NEW g \in fs \ ins
        PROVE  NewerThan(g.entries, f.entries)
    <3>1. <<f, g>> \notin Touching(fs)
      BY <2>1, <2>2 DEF Closed
    <3>2. f \in fs /\ g \in fs
      BY <1>3
    <3> QED
      BY <3>1, <3>2, Untouched DEF NewerThan
  <2> QED
    BY <1>3, <2>3 DEF Severed
<1>6. CASE level # 0
  <2>1. Apart(fs) /\ Ended(fs, picked)
    BY <1>6 DEF Pickable
  <2>2. ASSUME NEW f \in ins, NEW g \in fs \ ins, NEW a \in g.entries, NEW b \in f.entries, a.key = b.key
        PROVE  a.seq > b.seq
    <3>1. f \in fs /\ g \in fs /\ f # g
      BY <1>3
    <3>2. /\ ~Before(b, Smallest(f)) /\ ~Before(Largest(f), b)
          /\ ~Before(a, Smallest(g)) /\ ~Before(Largest(g), a)
          /\ Smallest(f).key \in Nat /\ Largest(f).key \in Nat
          /\ Smallest(g).key \in Nat /\ Largest(g).key \in Nat
          /\ Smallest(f).seq \in Nat /\ Largest(f).seq \in Nat
          /\ Smallest(g).seq \in Nat /\ Largest(g).seq \in Nat
      BY <3>1, Ends
    <3>3. a \in W /\ b \in W /\ a.key \in Nat /\ b.key \in Nat /\ a.seq \in Nat /\ b.seq \in Nat
      BY <3>1, EntryTypes DEF Tables, Ordered
    <3>4. Before(Largest(f), Smallest(g)) => Smallest(g).key # Largest(f).key
      BY <1>1, <2>1, <3>1, NothingOnTheBoundary
    <3>5. Before(Largest(f), Smallest(g)) \/ Before(Largest(g), Smallest(f))
      BY <2>1, <3>1 DEF Apart
    <3>6. Before(a, b)
      BY <2>2, <3>2, <3>3, <3>4, <3>5 DEF Before
    <3> QED
      BY <2>2, <3>3, <3>6 DEF Before
  <2> QED
    BY <1>3, <2>2 DEF Severed, NewerThan
<1> QED
  BY <1>5, <1>6

LEMMA BoundaryConnected ==
  ASSUME NEW W, Ordered(W), NEW fs, fs \subseteq Tables(W), NEW picked, picked \subseteq fs,
         NEW ins, ins = Reached(fs, picked, NextPairs(fs, picked)),
         NEW A, A \subseteq Tables(W), Connected(A \cup picked)
  PROVE  Connected(A \cup ins)
<1>1. NextPairs(fs, picked) \subseteq Touching(fs)
  BY NextTouches
<1> QED
  BY <1>1, ConnectedReached

-----------------------------------------------------------------------------
(***************************************************************************)
(* The inputs of a compaction.                                             *)
(***************************************************************************)
\* Levels of tables over W, sorted from level 1 on.
LevelsOver(W) ==
  /\ levels \in [Levels -> SUBSET Tables(W)]
  /\ \A l \in Levels : IsFiniteSet(levels[l])
  /\ \A l \in Levels \ {0} : Apart(levels[l])

LEMMA FirstComes ==
  ASSUME NEW W, Ordered(W), NEW fs, fs \subseteq Tables(W), fs # {}
  PROVE  \E f \in fs : \A g \in fs : ~Comes(g, f)
<1>1. PICK h \in fs : \A g \in fs : ~Before(Smallest(g), Smallest(h))
  BY FirstStart
<1> DEFINE N == {f.number : f \in {g \in fs : Smallest(g) = Smallest(h)}}
<1>2. N \subseteq Nat /\ N # {}
  BY DEF Tables
<1>3. PICK n \in N : \A m \in N : n <= m
  <2> HIDE DEF N
  <2> QED
    BY <1>2, LeastNumber
<1>4. PICK f \in fs : Smallest(f) = Smallest(h) /\ f.number = n
  OBVIOUS
<1>5. ASSUME NEW g \in fs, Comes(g, f)
      PROVE  FALSE
  <2>1. ~Before(Smallest(g), Smallest(f))
    BY <1>1, <1>4
  <2>2. Smallest(g) = Smallest(h) /\ g.number < n
    BY <1>4, <1>5, <2>1 DEF Comes
  <2>3. g.number \in N /\ g.number \in Nat /\ n \in Nat
    BY <1>2, <2>2
  <2> HIDE DEF N
  <2> QED
    BY <1>3, <2>2, <2>3
<1> QED
  BY <1>4, <1>5

LEMMA ComesIsOrder ==
  ASSUME NEW W, Ordered(W), NEW f \in Tables(W), NEW g \in Tables(W), NEW h \in Tables(W),
         Comes(f, g), Comes(g, h)
  PROVE  Comes(f, h)
<1>1. /\ Smallest(f) \in W /\ Smallest(g) \in W /\ Smallest(h) \in W
      /\ f.number \in Nat /\ g.number \in Nat /\ h.number \in Nat
  BY Ends DEF Tables
<1>2. Before(Smallest(f), Smallest(g)) /\ Before(Smallest(g), Smallest(h)) => Before(Smallest(f), Smallest(h))
  BY <1>1, BeforeIsOrder
<1> QED
  BY <1>1, <1>2 DEF Comes

\* CompactRange takes whole tables from the first one on.
LEMMA RoundFacts ==
  ASSUME NEW W, Ordered(W), IsFiniteSet(W), NEW fs, fs \subseteq Tables(W), fs # {}
  PROVE  /\ FirstRound(fs) \subseteq fs /\ FirstRound(fs) # {}
         /\ \A f \in FirstRound(fs), g \in fs : Comes(g, f) => g \in FirstRound(fs)
<1> DEFINE E(f) == UNION {h.entries : h \in {g \in fs : Comes(g, f)}}
<1>1. \A f : E(f) \subseteq W
  BY DEF Tables
<1>2. FirstRound(fs) = {f \in fs : Cardinality(E(f)) < MaxFileSize}
  BY DEF FirstRound, TotalFileSize
<1>3. FirstRound(fs) # {}
  <2>1. PICK f \in fs : \A g \in fs : ~Comes(g, f)
    BY FirstComes
  <2>2. E(f) = {}
    BY <2>1
  <2>3. Cardinality(E(f)) < MaxFileSize
    <3>1. MaxFileSize \in Nat /\ MaxFileSize > 0
      BY SizesAssumption
    <3>2. Cardinality(E(f)) = 0
      BY <2>2, FS_EmptySet
    <3> HIDE DEF E
    <3> QED
      BY <3>1, <3>2
  <2> QED
    BY <1>2, <2>3
<1>4. ASSUME NEW f \in FirstRound(fs), NEW g \in fs, Comes(g, f)
      PROVE  g \in FirstRound(fs)
  <2>1. f \in fs /\ Cardinality(E(f)) < MaxFileSize
    BY <1>2
  <2>2. \A h \in fs : Comes(h, g) => Comes(h, f)
    BY <1>4, <2>1, ComesIsOrder
  <2>3. E(g) \subseteq E(f)
    BY <2>2
  <2>4. IsFiniteSet(E(f)) /\ IsFiniteSet(E(g))
    BY <1>1, FS_Subset
  <2> HIDE DEF E
  <2>5. Cardinality(E(g)) <= Cardinality(E(f)) /\ Cardinality(E(g)) \in Nat /\ Cardinality(E(f)) \in Nat
    BY <2>3, <2>4, FS_Subset, FS_CardinalityType
  <2> QED
    BY <1>2, <2>1, <2>5, SizesAssumption
<1> QED
  BY <1>2, <1>3, <1>4

\* A level above 0: what overlaps a range may be compacted, and so may the
\* first tables of that.
LEMMA OverlappingEnded ==
  ASSUME NEW W, Ordered(W), NEW fs, fs \subseteq Tables(W), Apart(fs), NEW b \in Nat, NEW e \in Nat,
         NEW picked, picked \subseteq Overlapping(fs, b, e), picked # {},
         \A f \in picked, g \in Overlapping(fs, b, e) : Comes(g, f) => g \in picked
  PROVE  Ended(fs, picked)
<1>1. SUFFICES ASSUME NEW f \in picked, NEW g \in fs \ picked,
                      Before(Largest(f), Smallest(g)), Smallest(g).key = Largest(f).key
               PROVE  g \in BoundaryFiles(fs, LastKey(picked))
  BY DEF Ended
<1>2. picked \subseteq fs /\ picked \subseteq Tables(W) /\ \A h \in picked : Meets(h, b, e)
  BY DEF Overlapping
<1>3. \A h \in fs : /\ Largest(h) \in W /\ Smallest(h) \in W /\ Smallest(h).key <= Largest(h).key
                    /\ ~Before(Largest(h), Smallest(h))
                    /\ Largest(h).key \in Nat /\ Largest(h).seq \in Nat
                    /\ Smallest(h).key \in Nat /\ Smallest(h).seq \in Nat
  BY Ends
<1>4. PICK h \in picked : LastKey(picked) = Largest(h)
  BY <1>2, RangeFacts
<1>5. ~Before(Largest(h), Largest(f))
  BY <1>2, <1>4, RangeFacts
<1>6. f \in fs /\ h \in fs /\ g \in fs /\ g # f /\ g # h
  BY <1>2
<1>7. f = h \/ Before(Largest(f), Smallest(h)) \/ Before(Largest(h), Smallest(f))
  BY <1>6 DEF Apart
<1>8. Smallest(h).key <= e /\ Largest(h).key >= b /\ Smallest(f).key <= e /\ Largest(f).key >= b
  BY <1>2 DEF Meets
<1>9. CASE g \in Overlapping(fs, b, e)
  <2>1. ~Comes(g, h)
    BY <1>9
  <2>2. ~Before(Smallest(g), Smallest(h))
    BY <2>1 DEF Comes
  <2>3. Before(Largest(h), Smallest(g)) \/ Before(Largest(g), Smallest(h))
    BY <1>6 DEF Apart
  <2>4. Before(Largest(h), Smallest(g))
    BY <1>3, <1>6, <2>2, <2>3 DEF Before
  <2>5. Smallest(g).key = Largest(h).key
    BY <1>1, <1>3, <1>5, <1>6, <2>4 DEF Before
  <2> QED
    BY <1>4, <1>6, <2>4, <2>5 DEF BoundaryFiles
<1>10. CASE g \notin Overlapping(fs, b, e)
  <2>1. ~(Smallest(g).key <= e /\ Largest(g).key >= b)
    BY <1>6, <1>10 DEF Overlapping, Meets
  <2>2. Smallest(g).key > e
    BY <1>1, <1>3, <1>6, <1>8, <2>1
  <2>3. f = h
    BY <1>1, <1>3, <1>5, <1>6, <1>7, <1>8, <2>2 DEF Before
  <2> QED
    BY <1>1, <1>4, <1>6, <2>3 DEF BoundaryFiles
<1> QED
  BY <1>9, <1>10

LEMMA OverlapFacts ==
  ASSUME NEW W, Ordered(W), LevelsOver(W), NEW level \in Levels, NEW b \in Nat, NEW e \in Nat,
         NEW S, S = GetOverlappingInputs(level, b, e)
  PROVE  /\ S \subseteq levels[level]
         /\ Overlapping(levels[level], b, e) \subseteq S
         /\ S # {} => Pickable(level, levels[level], S)
         /\ e <= b + 1 => Connected(S)
         /\ \A A \in SUBSET Tables(W) :
              Connected(A \cup Overlapping(levels[level], b, e)) => Connected(A \cup S)
<1> DEFINE fs == levels[level]
           O == Overlapping(fs, b, e)
<1>1. fs \subseteq Tables(W) /\ O \subseteq fs /\ O \subseteq Tables(W)
  BY DEF LevelsOver, Overlapping
<1>2. Touching(fs) \subseteq fs \X fs
  BY DEF Touching
<1>3. e <= b + 1 => Connected(O)
  <2>1. \A f \in O : Meets(f, b, e)
    BY DEF Overlapping
  <2> QED
    BY <1>1, <2>1, ConnectedAround
<1>4. CASE level = 0
  <2>1. S = Reached(fs, O, Touching(fs))
    BY <1>4 DEF GetOverlappingInputs
  <2>2. O \subseteq S /\ S \subseteq fs /\ \A p \in Touching(fs) : p[1] \in S => p[2] \in S
    <3> HIDE DEF O, fs
    <3> QED
      BY <1>1, <1>2, <2>1, ReachedFacts
  <2>3. \A A \in SUBSET Tables(W) : Connected(A \cup O) => Connected(A \cup S)
    <3> HIDE DEF O, fs
    <3> QED
      BY <1>1, <2>1, ConnectedReached
  <2>4. Connected(O) => Connected(S)
    <3>1. {} \cup O = O /\ {} \cup S = S /\ {} \in SUBSET Tables(W)
      OBVIOUS
    <3> HIDE DEF O
    <3> QED
      BY <2>3, <3>1
  <2> QED
    BY <1>3, <1>4, <2>2, <2>3, <2>4 DEF Pickable, Closed
<1>5. CASE level # 0
  <2>1. S = O
    BY <1>5 DEF GetOverlappingInputs
  <2>2. Apart(fs)
    BY <1>5 DEF LevelsOver
  <2>3. S # {} => Ended(fs, S)
    BY <1>1, <2>1, <2>2, OverlappingEnded
  <2> QED
    BY <1>1, <1>3, <1>5, <2>1, <2>2, <2>3 DEF Pickable
<1> QED
  BY <1>4, <1>5

\* A table on one side of others.
Aside(F, g) == \/ \A f \in F : Before(Largest(f), Smallest(g))
               \/ \A f \in F : Before(Largest(g), Smallest(f))

\* The inputs of a compaction of a level: what stays above them is newer,
\* what stays beside them is outside of their range, which has no gap.
Inputs(level, ins0, ins1) ==
  /\ level \in 0 .. NumLevels - 2
  /\ ins0 \subseteq levels[level] /\ ins0 # {}
  /\ ins1 \subseteq levels[level + 1]
  /\ Severed(levels[level], ins0)
  /\ \A g \in levels[level + 1] \ ins1 : Aside(ins0 \cup ins1, g)
  /\ Connected(ins0 \cup ins1)

LEMMA LevelTypes ==
  /\ 0 \in Levels /\ NumLevels \in Nat /\ NumLevels >= 2
  /\ \A level \in 0 .. NumLevels - 2 :
       level \in Levels /\ level + 1 \in Levels \ {0} /\ level + 1 \in Levels
BY SizesAssumption DEF Levels

\* The parents of some tables of a level.
LEMMA ParentFacts ==
  ASSUME NEW W, Ordered(W), LevelsOver(W), NEW level \in 0 .. NumLevels - 2,
         NEW F, F \subseteq levels[level], F # {}
  PROVE  LET P == OverlappingRange(level + 1, RangeOf(F))
         IN  /\ P = Overlapping(levels[level + 1], RangeOf(F).smallest.key, RangeOf(F).largest.key)
             /\ P \subseteq levels[level + 1]
             /\ F \subseteq Tables(W) /\ P \subseteq Tables(W)
             /\ \A g \in levels[level + 1] \ P : Aside(F \cup P, g)
             /\ Connected(F) => Connected(F \cup P)
<1> DEFINE P == OverlappingRange(level + 1, RangeOf(F))
<1> HIDE DEF P
<1> DEFINE fs == levels[level + 1]
           lo == RangeOf(F).smallest.key
           hi == RangeOf(F).largest.key
<1>1. level \in Levels /\ level + 1 \in Levels \ {0} /\ level + 1 # 0
  BY LevelTypes, SizesAssumption
<1>2. F \subseteq Tables(W) /\ fs \subseteq Tables(W) /\ Apart(fs)
  BY <1>1 DEF LevelsOver
<1>3. P = Overlapping(fs, lo, hi)
  BY <1>1 DEF P, OverlappingRange, GetOverlappingInputs
<1>4. P \subseteq fs /\ P \subseteq Tables(W) /\ \A p \in fs : p \in P <=> Meets(p, lo, hi)
  BY <1>2, <1>3 DEF Overlapping
<1>5. /\ lo \in Nat /\ hi \in Nat
      /\ \A f \in F : lo <= Smallest(f).key /\ Largest(f).key <= hi
  BY <1>2, RangeFacts
<1>6. \A h \in Tables(W) : /\ Smallest(h).key <= Largest(h).key
                           /\ Largest(h).key \in Nat /\ Largest(h).seq \in Nat
                           /\ Smallest(h).key \in Nat /\ Smallest(h).seq \in Nat
  BY Ends
<1>7. ASSUME NEW g \in fs \ P
      PROVE  Aside(F \cup P, g)
  <2>1. ~(Smallest(g).key <= hi /\ Largest(g).key >= lo)
    BY <1>4 DEF Meets
  <2>2. \A p \in P : Smallest(p).key <= hi /\ Largest(p).key >= lo
    BY <1>4 DEF Meets
  <2>3. \A p \in P : Before(Largest(p), Smallest(g)) \/ Before(Largest(g), Smallest(p))
    BY <1>2, <1>4 DEF Apart
  <2>4. g \in Tables(W)
    BY <1>2
  <2>5. CASE Smallest(g).key > hi
    <3>1. \A f \in F : Before(Largest(f), Smallest(g))
      BY <1>2, <1>5, <1>6, <2>4, <2>5 DEF Before
    <3>2. \A p \in P : Before(Largest(p), Smallest(g))
      BY <1>4, <1>5, <1>6, <2>2, <2>3, <2>4, <2>5 DEF Before
    <3> QED
      BY <3>1, <3>2 DEF Aside
  <2>6. CASE Largest(g).key < lo
    <3>1. \A f \in F : Before(Largest(g), Smallest(f))
      BY <1>2, <1>5, <1>6, <2>4, <2>6 DEF Before
    <3>2. \A p \in P : Before(Largest(g), Smallest(p))
      BY <1>4, <1>5, <1>6, <2>2, <2>3, <2>4, <2>6 DEF Before
    <3> QED
      BY <3>1, <3>2 DEF Aside
  <2> QED
    BY <1>5, <1>6, <2>1, <2>4, <2>5, <2>6
<1>8. Connected(F) => Connected(F \cup P)
  BY <1>2, <1>4, ConnectedMeeting
<1> QED
  BY <1>2, <1>3, <1>4, <1>7, <1>8 DEF P

\* The range of more tables is wider.
LEMMA WiderRange ==
  ASSUME NEW W, Ordered(W), NEW F, NEW G, F \subseteq G, G \subseteq Tables(W), F # {}
  PROVE  /\ RangeOf(G).smallest.key <= RangeOf(F).smallest.key
         /\ RangeOf(F).largest.key <= RangeOf(G).largest.key
         /\ \A h \in Tables(W) : Meets(h, RangeOf(F).smallest.key, RangeOf(F).largest.key)
              => Meets(h, RangeOf(G).smallest.key, RangeOf(G).largest.key)
<1>1. F \subseteq Tables(W) /\ G # {}
  OBVIOUS
<1>2. /\ RangeOf(G).smallest.key \in Nat /\ RangeOf(G).largest.key \in Nat
      /\ \A f \in G : RangeOf(G).smallest.key <= Smallest(f).key /\ Largest(f).key <= RangeOf(G).largest.key
  BY <1>1, RangeFacts
<1>3. /\ RangeOf(F).smallest.key \in Nat /\ RangeOf(F).largest.key \in Nat
      /\ \E f \in F : RangeOf(F).smallest.key = Smallest(f).key
      /\ \E f \in F : RangeOf(F).largest.key = Largest(f).key
  BY <1>1, RangeFacts
<1>4. /\ RangeOf(G).smallest.key <= RangeOf(F).smallest.key
      /\ RangeOf(F).largest.key <= RangeOf(G).largest.key
  BY <1>2, <1>3
<1>5. \A h \in Tables(W) : Smallest(h).key \in Nat /\ Largest(h).key \in Nat
  BY Ends
<1> QED
  BY <1>2, <1>3, <1>4, <1>5 DEF Meets

LEMMA AddBoundaryFacts ==
  ASSUME NEW W, Ordered(W), LevelsOver(W), NEW level \in Levels,
         NEW picked, Pickable(level, levels[level], picked)
  PROVE  /\ picked \subseteq AddBoundaryInputs(level, picked)
         /\ AddBoundaryInputs(level, picked) \subseteq levels[level]
         /\ Severed(levels[level], AddBoundaryInputs(level, picked))
<1>1. levels[level] \subseteq Tables(W)
  BY DEF LevelsOver
<1>2. AddBoundaryInputs(level, picked) = Reached(levels[level], picked, NextPairs(levels[level], picked))
  BY BoundaryPairs
<1> QED
  BY <1>1, <1>2, BoundaryFacts

LEMMA AddBoundaryConnected ==
  ASSUME NEW W, Ordered(W), LevelsOver(W), NEW level \in Levels,
         NEW picked, picked \subseteq levels[level], NEW A, A \subseteq Tables(W), Connected(A \cup picked)
  PROVE  Connected(A \cup AddBoundaryInputs(level, picked))
<1>1. levels[level] \subseteq Tables(W)
  BY DEF LevelsOver
<1>2. AddBoundaryInputs(level, picked) = Reached(levels[level], picked, NextPairs(levels[level], picked))
  BY BoundaryPairs
<1> QED
  BY <1>1, <1>2, BoundaryConnected

\* The first set of inputs, before it is enlarged.
LEMMA SmallerFacts ==
  ASSUME NEW W, Ordered(W), LevelsOver(W), NEW level \in 0 .. NumLevels - 2,
         NEW picked, Pickable(level, levels[level], picked), Connected(picked),
         NEW a0, a0 = AddBoundaryInputs(level, picked),
         NEW a1, a1 = OverlappingRange(level + 1, RangeOf(a0))
  PROVE  Inputs(level, a0, a1)
<1>1. level \in Levels /\ levels[level] \subseteq Tables(W)
  BY LevelTypes DEF LevelsOver
<1>3. picked \subseteq a0 /\ a0 \subseteq levels[level] /\ Severed(levels[level], a0)
  BY <1>1, AddBoundaryFacts
<1>4. Connected(a0)
  <2>1. {} \cup picked = picked /\ {} \cup a0 = a0 /\ {} \subseteq Tables(W)
    OBVIOUS
  <2>2. picked \subseteq levels[level]
    BY DEF Pickable
  <2>3. Connected({} \cup a0)
    BY <1>1, <2>1, <2>2, AddBoundaryConnected
  <2> QED
    BY <2>1, <2>3
<1>5. a0 # {}
  BY <1>3 DEF Pickable
<1>6. /\ a1 \subseteq levels[level + 1]
      /\ \A g \in levels[level + 1] \ a1 : Aside(a0 \cup a1, g)
      /\ Connected(a0 \cup a1)
  BY <1>3, <1>4, <1>5, ParentFacts
<1> QED
  BY <1>3, <1>5, <1>6 DEF Inputs

\* The larger one costs no more parents: they are the same.
LEMMA LargerFacts ==
  ASSUME NEW W, Ordered(W), LevelsOver(W), NEW level \in 0 .. NumLevels - 2,
         NEW a0, NEW a1, Inputs(level, a0, a1), a1 = OverlappingRange(level + 1, RangeOf(a0)),
         NEW Q, Q = OverlappingRange(level, RangeOf(a0 \cup a1)),
         NEW x0, x0 = AddBoundaryInputs(level, Q),
         NEW x1, x1 = OverlappingRange(level + 1, RangeOf(x0)),
         Cardinality(x1) = Cardinality(a1)
  PROVE  Inputs(level, x0, x1)
<1> DEFINE fs == levels[level]
           A == a0 \cup a1
           lo == RangeOf(A).smallest.key
           hi == RangeOf(A).largest.key
<1>1. level \in Levels /\ level + 1 \in Levels /\ fs \subseteq Tables(W)
  BY LevelTypes DEF LevelsOver
<1>2. a0 \subseteq fs /\ a0 # {} /\ Connected(A)
  BY DEF Inputs
<1>3. a0 \subseteq Tables(W) /\ a1 \subseteq Tables(W)
      /\ a1 = Overlapping(levels[level + 1], RangeOf(a0).smallest.key, RangeOf(a0).largest.key)
  BY <1>2, ParentFacts
<1>4. A \in SUBSET Tables(W) /\ A # {}
  BY <1>2, <1>3
<1>5. lo \in Nat /\ hi \in Nat /\ \A f \in A : lo <= Smallest(f).key /\ Largest(f).key <= hi
  <2> HIDE DEF A
  <2> QED
    BY <1>4, RangeFacts
<1>6. Q = GetOverlappingInputs(level, lo, hi)
  BY DEF OverlappingRange
<1>7. /\ Q \subseteq fs /\ Overlapping(fs, lo, hi) \subseteq Q
      /\ Q # {} => Pickable(level, fs, Q)
      /\ Connected(A \cup Overlapping(fs, lo, hi)) => Connected(A \cup Q)
  <2> HIDE DEF A, lo, hi
  <2> QED
    BY <1>1, <1>4, <1>5, <1>6, OverlapFacts
<1>8. a0 \subseteq Q
  <2> SUFFICES ASSUME NEW f \in a0 PROVE f \in Overlapping(fs, lo, hi)
    BY <1>7
  <2>1. f \in Tables(W) /\ f \in fs /\ lo <= Smallest(f).key /\ Largest(f).key <= hi
    BY <1>2, <1>3, <1>5
  <2>2. Smallest(f).key \in Nat /\ Largest(f).key \in Nat /\ Smallest(f).key <= Largest(f).key
    BY <2>1, Ends
  <2> HIDE DEF lo, hi
  <2> QED
    BY <1>5, <2>1, <2>2 DEF Overlapping, Meets
<1>9. Pickable(level, fs, Q)
  BY <1>2, <1>7, <1>8
<1>10. Connected(A \cup Q)
  <2>1. Overlapping(fs, lo, hi) \subseteq Tables(W) /\ \A f \in Overlapping(fs, lo, hi) : Meets(f, lo, hi)
    BY <1>1 DEF Overlapping
  <2> HIDE DEF A
  <2>2. Connected(A \cup Overlapping(fs, lo, hi))
    BY <1>2, <1>4, <2>1, ConnectedMeeting
  <2> QED
    BY <1>7, <2>2
<1>12. /\ Q \subseteq x0 /\ x0 \subseteq levels[level] /\ Severed(levels[level], x0)
       /\ Connected(A \cup x0)
  <2> HIDE DEF A
  <2>1. Q \subseteq x0 /\ x0 \subseteq fs /\ Severed(fs, x0)
    BY <1>1, <1>9, AddBoundaryFacts
  <2>2. Connected(A \cup x0)
    BY <1>1, <1>4, <1>7, <1>10, AddBoundaryConnected
  <2> QED
    BY <2>1, <2>2
<1>13. x0 # {} /\ a0 \subseteq x0 /\ x0 \subseteq Tables(W)
  BY <1>1, <1>2, <1>8, <1>12
<1>14. /\ x1 \subseteq levels[level + 1]
       /\ x1 = Overlapping(levels[level + 1], RangeOf(x0).smallest.key, RangeOf(x0).largest.key)
       /\ \A g \in levels[level + 1] \ x1 : Aside(x0 \cup x1, g)
  <2> HIDE DEF A, lo, hi, fs
  <2> QED
    BY <1>12, <1>13, ParentFacts
<1>15. a1 \subseteq x1
  <2>1. \A h \in Tables(W) : Meets(h, RangeOf(a0).smallest.key, RangeOf(a0).largest.key)
          => Meets(h, RangeOf(x0).smallest.key, RangeOf(x0).largest.key)
    BY <1>2, <1>13, WiderRange
  <2> QED
    BY <1>3, <1>14, <2>1 DEF Overlapping
<1>16. a1 = x1
  <2>1. IsFiniteSet(levels[level + 1])
    BY <1>1 DEF LevelsOver
  <2>2. IsFiniteSet(x1)
    BY <1>14, <2>1, FS_Subset
  <2> QED
    BY <1>15, <2>2, FS_Subset
<1>17. A \cup x0 = x0 \cup x1
  BY <1>13, <1>16
<1> QED
  BY <1>12, <1>13, <1>14, <1>17 DEF Inputs

LEMMA SetupFacts ==
  ASSUME NEW W, Ordered(W), LevelsOver(W), NEW level \in 0 .. NumLevels - 2,
         NEW picked, Pickable(level, levels[level], picked), Connected(picked),
         NEW c, c = SetupOtherInputs(level, picked)
  PROVE  /\ c.level = level
         /\ Inputs(level, c.inputs0, c.inputs1)
         /\ Pointer(c) \in W
<1> DEFINE a0 == AddBoundaryInputs(level, picked)
           a1 == OverlappingRange(level + 1, RangeOf(a0))
           x0 == AddBoundaryInputs(level, OverlappingRange(level, RangeOf(a0 \cup a1)))
           x1 == OverlappingRange(level + 1, RangeOf(x0))
           ins == LargerInputs(level, <<a0, a1>>)
<1>1. c = Compaction(level, ins)
  BY DEF SetupOtherInputs, WithParents
<1>2. c.level = level /\ c.inputs0 = ins[1] /\ c.inputs1 = ins[2]
  <2> HIDE DEF ins
  <2> QED
    BY <1>1 DEF Compaction
<1>3. Expanded(level, <<a0, a1>>) = <<x0, x1>>
  BY DEF Expanded, WithParents
<1>4. ins = Larger(<<a0, a1>>, <<x0, x1>>)
  BY <1>3 DEF LargerInputs
<1> HIDE DEF ins, a0, a1, x0, x1
<1>5. ins = <<a0, a1>> \/ (ins = <<x0, x1>> /\ Cardinality(x1) = Cardinality(a1))
  BY <1>4 DEF Larger, Expands
<1>6. Inputs(level, a0, a1)
  BY SmallerFacts DEF a0, a1
<1>7. Cardinality(x1) = Cardinality(a1) => Inputs(level, x0, x1)
  BY <1>6, LargerFacts DEF a1, x0, x1
<1>8. Inputs(level, c.inputs0, c.inputs1)
  BY <1>2, <1>5, <1>6, <1>7
<1>9. c.inputs0 \subseteq Tables(W) /\ c.inputs0 # {}
  BY <1>8, LevelTypes DEF Inputs, LevelsOver
<1>10. Pointer(c) \in W
  BY <1>9, RangeFacts DEF Pointer
<1> QED
  BY <1>2, <1>8, <1>10


-----------------------------------------------------------------------------
(***************************************************************************)
(* What is picked for a compaction.                                        *)
(***************************************************************************)
LEMMA HasGreatest ==
  ASSUME NEW S, IsFiniteSet(S), S \subseteq Nat, S # {}
  PROVE  \E n \in S : \A m \in S : m <= n
<1> DEFINE Bad == {T \in SUBSET S : T # {} /\ \A n \in T : \E m \in T : ~(m <= n)}
           C == {Cardinality(T) : T \in Bad}
<1>1. SUFFICES ASSUME S \in Bad PROVE FALSE
  OBVIOUS
<1>2. \A T \in Bad : IsFiniteSet(T) /\ Cardinality(T) \in Nat
  BY FS_Subset, FS_CardinalityType
<1>3. PICK c \in C : \A d \in C : c <= d
  <2>1. C \subseteq Nat /\ C # {}
    BY <1>1, <1>2
  <2> HIDE DEF C
  <2> QED
    BY <2>1, LeastNumber
<1>4. PICK T \in Bad : c = Cardinality(T)
  OBVIOUS
<1>5. PICK t \in T : TRUE
  OBVIOUS
<1> DEFINE U == T \ {t}
<1>6. Cardinality(U) = c - 1 /\ c \in Nat /\ U \subseteq S
  BY <1>2, <1>4, FS_RemoveElement
<1>7. U \notin Bad
  <2>1. ASSUME U \in Bad PROVE FALSE
    <3>1. Cardinality(U) \in C
      BY <2>1
    <3> HIDE DEF C
    <3>2. c <= Cardinality(U)
      BY <1>3, <3>1
    <3> QED
      BY <1>6, <3>2
  <2> QED
    BY <2>1
<1>8. CASE U = {}
  <2>1. T = {t}
    BY <1>5, <1>8
  <2>2. t <= t
    BY <1>4, <1>5
  <2> QED
    BY <1>4, <2>1, <2>2
<1>9. CASE U # {}
  <2>1. PICK u \in U : \A m \in U : m <= u
    BY <1>6, <1>7, <1>9
  <2>2. t \in Nat /\ u \in Nat /\ T \subseteq Nat
    BY <1>4, <1>5, <1>6
  <2>3. CASE t <= u
    <3>1. u \in T /\ \A m \in T : m <= u
      BY <2>1, <2>3
    <3> QED
      BY <1>4, <3>1
  <2>4. CASE ~(t <= u)
    <3>1. \A m \in T : m <= t
      BY <2>1, <2>2, <2>4
    <3> QED
      BY <1>4, <1>5, <3>1
  <2> QED
    BY <2>3, <2>4
<1> QED
  BY <1>8, <1>9

\* The entries of some tables are finitely many.
LEMMA SizeFacts ==
  ASSUME NEW W, IsFiniteSet(W), NEW fs, fs \subseteq Tables(W)
  PROVE  /\ TotalFileSize(fs) \in Nat
         /\ TotalFileSize({}) = 0
<1>1. UNION {f.entries : f \in fs} \subseteq W
  BY DEF Tables
<1>2. UNION {f.entries : f \in {}} = {}
  OBVIOUS
<1> QED
  BY <1>1, <1>2, FS_Subset, FS_CardinalityType, FS_EmptySet DEF TotalFileSize

LEMMA Products ==
  /\ \A a, b \in Nat : a * b \in Nat
  /\ \A a, b \in Nat \ {0} : a * b >= 1
  /\ \A a \in Nat : 0 * a = 0
OBVIOUS

LEMMA ScoreFacts ==
  ASSUME NEW W, IsFiniteSet(W), LevelsOver(W), NEW l \in Levels
  PROVE  /\ Score(l) \in Nat
         /\ Score(l) >= L0Trigger * LevelLimit => levels[l] # {}
<1>1. levels[l] \subseteq Tables(W) /\ IsFiniteSet(levels[l])
  BY DEF LevelsOver
<1>2. /\ Cardinality(levels[l]) \in Nat
      /\ levels[l] = {} => Cardinality(levels[l]) = 0
  BY <1>1, FS_CardinalityType, FS_EmptySet
<1>3. /\ TotalFileSize(levels[l]) \in Nat
      /\ levels[l] = {} => TotalFileSize(levels[l]) = 0
  BY <1>1, SizeFacts
<1>4. L0Trigger \in Nat \ {0} /\ LevelLimit \in Nat \ {0}
  BY SizesAssumption
<1>5. L0Trigger * LevelLimit >= 1 /\ L0Trigger * LevelLimit \in Nat
  BY <1>4, Products
<1>6. Score(l) \in Nat
  BY <1>2, <1>3, <1>4, Products DEF Score
<1>7. levels[l] = {} => Score(l) = 0
  BY <1>2, <1>3, <1>4, Products DEF Score
<1> QED
  BY <1>5, <1>6, <1>7

\* Finalize finds a level to compact among those that have one below.
LEMMA SizeLevelFacts ==
  ASSUME NEW W, IsFiniteSet(W), LevelsOver(W), SizeLevel # None
  PROVE  SizeLevel \in 0 .. NumLevels - 2 /\ levels[SizeLevel] # {}
<1> DEFINE L == 0 .. NumLevels - 2
           G == {Score(l) : l \in L}
           P(l) == \A m \in L : Score(m) <= Score(l) /\ (m < l => Score(m) < Score(l))
           best == CHOOSE l \in L : P(l)
<1>1. \A l \in L : l \in Nat /\ l \in Levels /\ Score(l) \in Nat
                   /\ (Score(l) >= L0Trigger * LevelLimit => levels[l] # {})
  BY LevelTypes, ScoreFacts
<1>2. PICK g \in G : \A h \in G : h <= g
  <2>1. IsFiniteSet(L)
    <3>1. NumLevels - 2 \in Int /\ 0 \in Int
      BY LevelTypes
    <3> QED
      BY <3>1, FS_Interval
  <2> DEFINE f == [l \in L |-> Score(l)]
  <2>2. IsFiniteSet(G)
    <3>1. f \in Surjection(L, G)
      BY DEF Surjection
    <3> HIDE DEF L, G, f
    <3> QED
      BY <2>1, <3>1, FS_Surjection
  <2>3. 0 \in L /\ Score(0) \in G
    BY LevelTypes
  <2>4. G \subseteq Nat
    BY <1>1
  <2> HIDE DEF G
  <2> QED
    BY <2>2, <2>3, <2>4, HasGreatest
<1>3. \E l \in L : P(l)
  <2> DEFINE S == {l \in L : Score(l) = g}
  <2>1. PICK l \in S : \A m \in S : l <= m
    <3>1. S \subseteq Nat /\ S # {}
      BY <1>1
    <3> HIDE DEF S
    <3> QED
      BY <3>1, LeastNumber
  <2>2. l \in L /\ Score(l) = g
    OBVIOUS
  <2>3. ASSUME NEW m \in L
        PROVE  Score(m) <= Score(l) /\ (m < l => Score(m) < Score(l))
    <3>1. Score(m) <= g /\ Score(m) \in Nat /\ Score(l) \in Nat /\ l \in Nat /\ m \in Nat
      BY <1>1, <1>2, <2>2
    <3>2. Score(m) = g => l <= m
      BY <2>1
    <3> QED
      BY <2>2, <3>1, <3>2
  <2> QED
    BY <2>2, <2>3
<1>4. best \in L
  <2> HIDE DEF P, L
  <2> QED
    BY <1>3
<1>5. SizeLevel = best /\ Score(best) >= L0Trigger * LevelLimit
  <2>1. SizeLevel = IF Score(best) >= L0Trigger * LevelLimit THEN best ELSE None
    BY DEF SizeLevel
  <2> HIDE DEF best
  <2> QED
    BY <2>1
<1> HIDE DEF best
<1> QED
  BY <1>1, <1>4, <1>5

\* BackgroundCompaction's own choice.
LEMMA PickedFacts ==
  ASSUME NEW W, IsFiniteSet(W), Ordered(W), LevelsOver(W), PickedFile # None,
         fileToCompact # None => /\ fileToCompact.level \in 0 .. NumLevels - 2
                                 /\ fileToCompact.file \in levels[fileToCompact.level],
         NEW p, p = PickedFile
  PROVE  p.level \in 0 .. NumLevels - 2 /\ p.file \in levels[p.level]
<1>1. CASE SizeLevel # None
  <2> DEFINE l == SizeLevel
             fs == IF After(levels[l], compactPointer[l]) = {} THEN levels[l]
                   ELSE After(levels[l], compactPointer[l])
  <2>1. l \in 0 .. NumLevels - 2 /\ levels[l] # {} /\ l \in Levels
    BY <1>1, SizeLevelFacts, LevelTypes
  <2>2. p = [level |-> l, file |-> FirstOf(fs)]
    BY <1>1 DEF PickedFile, SizeFile, FirstAfter
  <2> HIDE DEF l
  <2>3. fs \subseteq levels[l] /\ fs # {} /\ levels[l] \subseteq Tables(W)
    BY <2>1 DEF After, LevelsOver
  <2>4. FirstOf(fs) \in fs
    <3> HIDE DEF fs
    <3>1. \E f \in fs : \A g \in fs : ~Comes(g, f)
      BY <2>3, FirstComes
    <3> QED
      BY <3>1 DEF FirstOf
  <2> HIDE DEF fs
  <2> QED
    BY <2>1, <2>2, <2>3, <2>4
<1>2. CASE SizeLevel = None
  BY <1>2 DEF PickedFile
<1> QED
  BY <1>1, <1>2

LEMMA PickFacts ==
  ASSUME NEW W, Ordered(W), LevelsOver(W), NEW p, p.level \in 0 .. NumLevels - 2,
         p.file \in levels[p.level]
  PROVE  /\ Pickable(p.level, levels[p.level], FilesPicked(p))
         /\ Connected(FilesPicked(p))
<1> DEFINE F == {p.file}
           lo == RangeOf(F).smallest.key
           hi == RangeOf(F).largest.key
<1>1. p.level \in Levels /\ 0 \in Levels /\ levels[p.level] \subseteq Tables(W)
  BY LevelTypes DEF LevelsOver
<1>2. p.file \in Tables(W) /\ F \subseteq Tables(W) /\ F # {}
  BY <1>1
<1>3. Connected(F)
  <2>1. Connected({p.file})
    BY <1>2, ConnectedOne
  <2> QED
    BY <2>1
<1>4. CASE p.level = 0
  <2> DEFINE S == FilesPicked(p)
  <2>1. S = GetOverlappingInputs(0, lo, hi)
    BY <1>4 DEF FilesPicked, OverlappingRange
  <2>2. lo \in Nat /\ hi \in Nat /\ lo <= Smallest(p.file).key /\ Largest(p.file).key <= hi
    <3>1. p.file \in F
      OBVIOUS
    <3> HIDE DEF F
    <3> QED
      BY <1>2, <3>1, RangeFacts
  <2>3. Smallest(p.file).key <= Largest(p.file).key /\ Smallest(p.file).key \in Nat
        /\ Largest(p.file).key \in Nat
    BY <1>2, Ends
  <2> HIDE DEF S
  <2>4. /\ Overlapping(levels[0], lo, hi) \subseteq S /\ S \subseteq levels[0]
        /\ S # {} => Pickable(0, levels[0], S)
        /\ Connected(F \cup Overlapping(levels[0], lo, hi)) => Connected(F \cup S)
    <3>1. F \in SUBSET Tables(W)
      BY <1>2
    <3> HIDE DEF F, lo, hi
    <3> QED
      BY <1>1, <2>1, <2>2, <3>1, OverlapFacts
  <2>5. p.file \in Overlapping(levels[0], lo, hi)
    <3> HIDE DEF F, lo, hi
    <3> QED
      BY <1>4, <2>2, <2>3 DEF Overlapping, Meets
  <2>6. Connected(F \cup Overlapping(levels[0], lo, hi))
    <3>1. /\ Overlapping(levels[0], lo, hi) \subseteq Tables(W)
          /\ \A f \in Overlapping(levels[0], lo, hi) : Meets(f, lo, hi)
      BY <1>1, <1>4 DEF Overlapping
    <3> HIDE DEF F
    <3> QED
      BY <1>2, <1>3, <3>1, ConnectedMeeting
  <2>7. p.file \in S /\ F \cup S = S
    BY <2>4, <2>5
  <2>8. Connected(F \cup S)
    BY <2>4, <2>6
  <2> HIDE DEF F
  <2> QED
    BY <1>4, <2>4, <2>7, <2>8 DEF S
<1>5. CASE p.level # 0
  <2>1. FilesPicked(p) = F
    BY <1>5 DEF FilesPicked
  <2>2. Apart(levels[p.level])
    BY <1>1, <1>5 DEF LevelsOver
  <2>3. LastKey(F) = Largest(p.file)
    <3>1. \E f \in F : LastKey(F) = Largest(f)
      <4> HIDE DEF F
      <4> QED
        BY <1>2, RangeFacts
    <3> QED
      BY <3>1
  <2>4. Ended(levels[p.level], F)
    BY <2>3 DEF Ended, BoundaryFiles
  <2> QED
    BY <1>3, <1>5, <2>1, <2>2, <2>4 DEF Pickable
<1> QED
  BY <1>4, <1>5

\* A round of a client's range; with no user key inside, it leaves no gap.
LEMMA ManualFacts ==
  ASSUME NEW W, IsFiniteSet(W), Ordered(W), LevelsOver(W), NEW level \in 0 .. NumLevels - 2,
         NEW b \in Nat, NEW e \in Nat, ManualInputs(level, b, e) # {}
  PROVE  /\ Pickable(level, levels[level], ManualInputs(level, b, e))
         /\ e <= b + 1 => Connected(ManualInputs(level, b, e))
<1> DEFINE S == GetOverlappingInputs(level, b, e)
<1>1. level \in Levels /\ levels[level] \subseteq Tables(W)
  BY LevelTypes DEF LevelsOver
<1>2. /\ S \subseteq levels[level]
      /\ e <= b + 1 => Connected(S)
      /\ S # {} => Pickable(level, levels[level], S)
  BY <1>1, OverlapFacts
<1>3. CASE level = 0
  <2>1. ManualInputs(level, b, e) = S
    BY <1>3 DEF ManualInputs
  <2> HIDE DEF S
  <2> QED
    BY <1>2, <2>1
<1>4. CASE level # 0
  <2>1. S = Overlapping(levels[level], b, e)
    BY <1>4 DEF GetOverlappingInputs
  <2>2. ManualInputs(level, b, e) = FirstRound(S)
    BY <1>4 DEF ManualInputs
  <2> HIDE DEF S
  <2>3. Apart(levels[level])
    BY <1>1, <1>4 DEF LevelsOver
  <2>4. S # {}
    BY <2>2 DEF FirstRound
  <2>5. S \subseteq Tables(W)
    BY <1>1, <1>2
  <2>6. /\ FirstRound(S) \subseteq S /\ FirstRound(S) # {}
        /\ \A f \in FirstRound(S), g \in S : Comes(g, f) => g \in FirstRound(S)
    BY <2>4, <2>5, RoundFacts
  <2>7. Ended(levels[level], FirstRound(S))
    BY <1>1, <2>1, <2>3, <2>6, OverlappingEnded
  <2>8. e <= b + 1 => Connected(FirstRound(S))
    <3>1. \A f \in FirstRound(S) : Meets(f, b, e)
      BY <2>1, <2>6 DEF Overlapping
    <3>2. FirstRound(S) \subseteq Tables(W)
      BY <2>5, <2>6
    <3> QED
      BY <3>1, <3>2, ConnectedAround
  <2> QED
    BY <1>2, <1>4, <2>2, <2>3, <2>6, <2>7, <2>8 DEF Pickable
<1> QED
  BY <1>3, <1>4

-----------------------------------------------------------------------------
(***************************************************************************)
(* What a compaction writes.                                               *)
(***************************************************************************)
\* A choice among ordered entries, each of which depends on those before it,
\* can be made: the stops and the openers exist.
LEMMA CutExists ==
  ASSUME NEW W, Ordered(W), NEW all, all \subseteq W, IsFiniteSet(all), NEW R
  PROVE  \E X \in SUBSET all : \A e \in all : e \in X <=> <<Above(X, e), e>> \in R
<1> DEFINE Cut(A, X) == \A e \in A : e \in X <=> <<Above(X, e), e>> \in R
           Bad == {A \in SUBSET all : ~ \E X \in SUBSET A : Cut(A, X)}
           C == {Cardinality(A) : A \in Bad}
<1>1. SUFFICES ASSUME all \in Bad PROVE FALSE
  OBVIOUS
<1>2. \A A \in Bad : IsFiniteSet(A) /\ Cardinality(A) \in Nat
  BY FS_Subset, FS_CardinalityType
<1>3. PICK c \in C : \A d \in C : c <= d
  <2>1. C \subseteq Nat /\ C # {}
    BY <1>1, <1>2
  <2> HIDE DEF C
  <2> QED
    BY <2>1, LeastNumber
<1>4. PICK T \in Bad : c = Cardinality(T)
  OBVIOUS
<1>5. T # {}
  <2>1. Cut({}, {}) /\ {} \in SUBSET {}
    OBVIOUS
  <2> HIDE DEF Cut
  <2> QED
    BY <1>4, <2>1
<1>6. PICK t \in T : \A x \in T : ~Before(t, x)
  BY <1>4, <1>5, HasLargest
<1> DEFINE U == T \ {t}
<1>7. Cardinality(U) = c - 1 /\ c \in Nat /\ U \subseteq all
  BY <1>2, <1>4, FS_RemoveElement
<1>8. PICK X \in SUBSET U : Cut(U, X)
  <2>1. U \notin Bad
    <3>1. ASSUME U \in Bad PROVE FALSE
      <4>1. Cardinality(U) \in C
        BY <3>1
      <4> HIDE DEF C
      <4>2. c <= Cardinality(U)
        BY <1>3, <4>1
      <4> QED
        BY <1>7, <4>2
    <3> QED
      BY <3>1
  <2> HIDE DEF Cut
  <2> QED
    BY <1>7, <2>1
<1> DEFINE Y == IF <<Above(X, t), t>> \in R THEN X \cup {t} ELSE X
<1>9. \A e \in T : Above(Y, e) = Above(X, e)
  BY <1>6 DEF Above
<1>10. \A e \in T : e \in Y <=> <<Above(Y, e), e>> \in R
  <2>1. \A e \in U : e \in Y <=> e \in X
    OBVIOUS
  <2>2. t \notin X
    OBVIOUS
  <2>3. t \in Y <=> <<Above(X, t), t>> \in R
    BY <2>2
  <2>4. ASSUME NEW e \in T
        PROVE  e \in Y <=> <<Above(Y, e), e>> \in R
    <3>1. CASE e = t
      BY <1>9, <2>3, <3>1
    <3>2. CASE e # t
      <4>1. e \in X <=> <<Above(X, e), e>> \in R
        BY <1>8, <3>2
      <4> HIDE DEF Y
      <4> QED
        BY <1>9, <2>1, <3>2, <4>1
    <3> QED
      BY <3>1, <3>2
  <2> QED
    BY <2>4
<1>11. Y \in SUBSET T
  OBVIOUS
<1> QED
  BY <1>4, <1>10, <1>11

LEMMA OpenersFacts ==
  ASSUME NEW W, Ordered(W), NEW kept, kept \subseteq W, IsFiniteSet(kept), NEW stops,
         NEW opens, opens = Openers(kept, stops)
  PROVE  /\ opens \subseteq kept
         /\ \A e \in kept : Above(opens, e) = {} => e \in opens
<1> DEFINE R == {q \in (SUBSET kept) \X kept : Opens(kept, stops, q[1], q[2])}
<1>1. PICK X \in SUBSET kept : \A e \in kept : e \in X <=> <<Above(X, e), e>> \in R
  <2> HIDE DEF R
  <2> QED
    BY CutExists
<1>2. ASSUME NEW e \in kept
      PROVE  <<Above(X, e), e>> \in R <=> Opens(kept, stops, X, e)
  <2>1. Above(Above(X, e), e) = Above(X, e) /\ Above(X, e) \in SUBSET kept
    BY DEF Above
  <2>2. Open(kept, Above(X, e), e) = Open(kept, X, e)
    BY <2>1 DEF Open
  <2>3. Opens(kept, stops, Above(X, e), e) <=> Opens(kept, stops, X, e)
    BY <2>1, <2>2 DEF Opens
  <2> QED
    BY <2>1, <2>3
<1>3. \A e \in kept : e \in X <=> Opens(kept, stops, X, e)
  BY <1>1, <1>2
<1>4. opens \in SUBSET kept /\ \A e \in kept : e \in opens <=> Opens(kept, stops, opens, e)
  <2> DEFINE P(Y) == \A e \in kept : e \in Y <=> Opens(kept, stops, Y, e)
  <2>1. \E Y \in SUBSET kept : P(Y)
    BY <1>3
  <2>2. opens = CHOOSE Y \in SUBSET kept : P(Y)
    BY DEF Openers
  <2>3. opens \in SUBSET kept /\ P(opens)
    <3> HIDE DEF P
    <3> QED
      BY <2>1, <2>2
  <2> QED
    BY <2>3
<1> QED
  BY <1>4 DEF Opens

\* Every kept entry has the last opener that is not after it.
LEMMA OpenerOf ==
  ASSUME NEW W, Ordered(W), NEW kept, kept \subseteq W, NEW opens, opens \subseteq kept,
         \A e \in kept : Above(opens, e) = {} => e \in opens
  PROVE  \A x \in kept :
           \E y \in opens : ~Before(x, y) /\ \A z \in opens : Before(y, z) => Before(x, z)
<1> TAKE x \in kept
<1> DEFINE S == {y \in opens : ~Before(x, y)}
<1>1. S # {} /\ S \subseteq W
  <2>1. CASE Above(opens, x) = {}
    <3>1. x \in opens /\ ~Before(x, x)
      BY <2>1, BeforeIsOrder
    <3> QED
      BY <3>1
  <2>2. CASE Above(opens, x) # {}
    <3>1. PICK y \in opens : Before(y, x)
      BY <2>2 DEF Above
    <3>2. ~Before(x, y)
      BY <3>1, BeforeIsOrder
    <3> QED
      BY <3>2
  <2> QED
    BY <2>1, <2>2
<1>2. PICK y \in S : \A z \in S : ~Before(y, z)
  <2> HIDE DEF S
  <2> QED
    BY <1>1, HasLargest
<1> QED
  BY <1>2

\* A table with all its entries before an entry that none of another's are.
LEMMA ApartAt ==
  ASSUME NEW W, Ordered(W), NEW f \in Tables(W), NEW g \in Tables(W), NEW e \in W,
         \A x \in f.entries : Before(x, e),
         \A x \in g.entries : ~Before(x, e)
  PROVE  Before(Largest(f), Smallest(g))
<1>1. /\ Largest(f) \in f.entries /\ Largest(f) \in W
      /\ Smallest(g) \in g.entries /\ Smallest(g) \in W
  BY Ends
<1>2. Before(Largest(f), e) /\ ~Before(Smallest(g), e)
  BY <1>1
<1>3. e = Smallest(g) \/ Before(e, Smallest(g))
  BY <1>1, <1>2, BeforeIsOrder
<1> QED
  BY <1>1, <1>2, <1>3, BeforeIsOrder

\* Tables from one opener to the next.
CutAt(kept, opens) == {OutputTable(kept, opens, e) : e \in opens}

LEMMA TablesCut ==
  ASSUME NEW W, Ordered(W), nextFile \in Nat \ {0},
         NEW kept, kept \subseteq W, IsFiniteSet(kept),
         NEW opens, opens \subseteq kept, \A e \in kept : Above(opens, e) = {} => e \in opens,
         NEW out, out = CutAt(kept, opens)
  PROVE  /\ out \subseteq Tables(W) /\ IsFiniteSet(out) /\ Apart(out)
         /\ \A f \in out : f.entries \subseteq kept
         /\ \A x \in kept : \E f \in out : x \in f.entries
         /\ Cardinality(out) \in Nat
         /\ \A f \in out : f.number \in nextFile .. nextFile + Cardinality(out) - 1
         /\ \A f, g \in out : f.number = g.number => f = g
<1> DEFINE T(e) == OutputTable(kept, opens, e)
<1>1. out = {T(e) : e \in opens}
  BY DEF CutAt
<1>4. opens \subseteq W /\ IsFiniteSet(opens) /\ Cardinality(opens) \in Nat
  BY FS_Subset, FS_CardinalityType
<1> DEFINE N(e) == Cardinality(Above(opens, e))
<1>5. ASSUME NEW e \in opens
      PROVE  /\ N(e) \in 0 .. Cardinality(opens) - 1
             /\ \A d \in opens : Before(d, e) => N(d) < N(e)
  <2>1. \A d \in opens : Above(opens, d) \subseteq opens /\ d \notin Above(opens, d)
    BY <1>4, BeforeIsOrder DEF Above
  <2>2. \A d \in opens : IsFiniteSet(Above(opens, d)) /\ N(d) \in Nat
    BY <1>4, <2>1, FS_Subset, FS_CardinalityType
  <2>3. N(e) <= Cardinality(opens) /\ N(e) # Cardinality(opens)
    BY <1>4, <2>1, FS_Subset
  <2>4. ASSUME NEW d \in opens, Before(d, e)
        PROVE  N(d) < N(e)
    <3>1. d \in Above(opens, e)
      BY <2>4 DEF Above
    <3>2. \A x \in opens : Before(x, d) => Before(x, e)
      BY <1>4, <2>4, BeforeIsOrder
    <3>3. Above(opens, d) \subseteq Above(opens, e)
      BY <3>2 DEF Above
    <3>4. N(d) <= N(e) /\ N(d) # N(e)
      BY <2>1, <2>2, <3>1, <3>3, FS_Subset
    <3> QED
      BY <2>2, <3>4
  <2> QED
    BY <1>4, <2>2, <2>3, <2>4
<1>6. ASSUME NEW e \in opens
      PROVE  /\ T(e) \in Tables(W)
             /\ T(e).number = nextFile + N(e)
             /\ T(e).entries = {x \in kept : ~Before(x, e) /\ \A y \in opens : Before(e, y) => Before(x, y)}
             /\ T(e).entries \subseteq kept
  <2>1. ~Before(e, e)
    BY <1>4, BeforeIsOrder
  <2>2. e \in kept
    OBVIOUS
  <2>3. nextFile + N(e) \in Nat
    BY <1>5
  <2>4. /\ T(e).number = nextFile + N(e)
        /\ T(e).entries = {x \in kept : ~Before(x, e) /\ \A y \in opens : Before(e, y) => Before(x, y)}
        /\ e \in T(e).entries /\ T(e).entries \subseteq kept
    BY <2>1, <2>2 DEF OutputTable
  <2>5. T(e) = [number |-> nextFile + N(e), entries |-> T(e).entries]
    BY <2>4 DEF OutputTable
  <2> HIDE DEF T, N
  <2>6. T(e) \in Tables(W)
    BY <2>3, <2>4, <2>5 DEF Tables
  <2> QED
    BY <2>4, <2>6
<1> HIDE DEF T
<1>7. ASSUME NEW d \in opens, NEW e \in opens, Before(d, e)
      PROVE  Before(Largest(T(d)), Smallest(T(e))) /\ T(d).number < T(e).number
  <2>1. \A x \in T(d).entries : Before(x, e)
    BY <1>6, <1>7
  <2>2. \A x \in T(e).entries : ~Before(x, e)
    BY <1>6
  <2>3. T(d) \in Tables(W) /\ T(e) \in Tables(W) /\ e \in W
    BY <1>4, <1>6
  <2>4. Before(Largest(T(d)), Smallest(T(e)))
    BY <2>1, <2>2, <2>3, ApartAt
  <2>5. N(d) < N(e) /\ N(d) \in Nat /\ N(e) \in Nat
    BY <1>5, <1>7
  <2> QED
    BY <1>6, <2>4, <2>5
<1>8. \A d, e \in opens : d = e \/ Before(d, e) \/ Before(e, d)
  BY <1>4, BeforeIsOrder
<1>9. \A e \in opens : T(e).number \in Nat
  BY <1>5, <1>6
<1>10. \A d, e \in opens : T(d).number = T(e).number => d = e
  BY <1>7, <1>8, <1>9
<1>11. IsFiniteSet(out) /\ Cardinality(out) = Cardinality(opens)
  <2> DEFINE F == [e \in opens |-> T(e)]
  <2>1. F \in Bijection(opens, out)
    BY <1>1, <1>10 DEF Bijection, Injection, Surjection, IsInjective
  <2>2. ExistsBijection(opens, out)
    BY <2>1 DEF ExistsBijection
  <2> QED
    BY <1>4, <2>2, FS_Bijection
<1>12. Apart(out)
  BY <1>1, <1>7, <1>8 DEF Apart
<1>0. \A x \in kept :
        \E y \in opens : ~Before(x, y) /\ \A z \in opens : Before(y, z) => Before(x, z)
  BY OpenerOf
<1>13. ASSUME NEW x \in kept
       PROVE  \E f \in out : x \in f.entries
  <2>1. \E y \in opens : ~Before(x, y) /\ \A z \in opens : Before(y, z) => Before(x, z)
    BY <1>0
  <2>2. PICK y \in opens : ~Before(x, y) /\ \A z \in opens : Before(y, z) => Before(x, z)
    BY <2>1
  <2>3. x \in T(y).entries
    BY <1>6, <2>2
  <2> QED
    BY <1>1, <2>3
<1>14. \A f \in out : f.number \in nextFile .. nextFile + Cardinality(out) - 1
  <2>1. \A e \in opens : T(e).number \in nextFile .. nextFile + Cardinality(opens) - 1
    BY <1>4, <1>5, <1>6
  <2> QED
    BY <1>1, <1>11, <2>1
<1>15. \A f, g \in out : f.number = g.number => f = g
  BY <1>1, <1>10
<1>16. out \subseteq Tables(W) /\ \A f \in out : f.entries \subseteq kept
  BY <1>1, <1>6
<1> QED
  BY <1>4, <1>11, <1>12, <1>13, <1>14, <1>15, <1>16

LEMMA OutputFacts ==
  ASSUME NEW W, Ordered(W), IsFiniteSet(W), nextFile \in Nat \ {0},
         NEW c, Merged(c) \subseteq W, NEW out, out = Outputs(c)
  PROVE  /\ out \subseteq Tables(W) /\ IsFiniteSet(out) /\ Apart(out)
         /\ \A f \in out : f.entries \subseteq Keep(c, Merged(c))
         /\ \A x \in Keep(c, Merged(c)) : \E f \in out : x \in f.entries
         /\ Cardinality(out) \in Nat
         /\ \A f \in out : f.number \in nextFile .. nextFile + Cardinality(out) - 1
         /\ \A f, g \in out : f.number = g.number => f = g
<1> DEFINE kept == Keep(c, Merged(c))
           opens == Openers(kept, StopBefore(c, Merged(c)))
<1>1. out = CutAt(kept, opens)
  BY DEF Outputs, CutAt
<1>2. kept \subseteq W
  BY DEF Keep
<1> HIDE DEF kept
<1>3. IsFiniteSet(kept)
  BY <1>2, FS_Subset
<1>4. /\ opens \subseteq kept
      /\ \A e \in kept : Above(opens, e) = {} => e \in opens
  BY <1>2, <1>3, OpenersFacts
<1> HIDE DEF opens
<1>5. /\ out \subseteq Tables(W) /\ IsFiniteSet(out) /\ Apart(out)
      /\ \A f \in out : f.entries \subseteq kept
      /\ \A x \in kept : \E f \in out : x \in f.entries
      /\ Cardinality(out) \in Nat
      /\ \A f \in out : f.number \in nextFile .. nextFile + Cardinality(out) - 1
      /\ \A f, g \in out : f.number = g.number => f = g
  BY <1>1, <1>2, <1>3, <1>4, TablesCut
<1> QED
  BY <1>5 DEF kept

-----------------------------------------------------------------------------
(***************************************************************************)
(* The inductive invariant.                                                *)
(***************************************************************************)
HistoryOK ==
  /\ Ordered(written) /\ IsFiniteSet(written)
  /\ {e.seq : e \in written} = 1 .. LastSequence
  /\ mem \subseteq written /\ imm \subseteq written
  /\ snapshots \subseteq 0 .. LastSequence

FilesOK ==
  /\ LevelsOver(written)
  /\ nextFile \in Nat \ {0}
  /\ \A l \in Levels : \A f \in levels[l] : f.number \in 1 .. nextFile - 1
  /\ \A l, m \in Levels : \A f \in levels[l], g \in levels[m] : f.number = g.number => f = g /\ l = m

\* Manual compactions stop above the last level, and so do the files that
\* cost seeks.
ManualOK ==
  manual # None =>
    /\ manual \in [level : Nat, begin : Nat, start : Nat, end : Nat,
                   queued : BOOLEAN, flushing : BOOLEAN, max : Nat]
    /\ manual.level < manual.max /\ manual.max <= NumLevels - 1
FileToCompactOK ==
  fileToCompact # None => /\ fileToCompact.level \in 0 .. NumLevels - 2
                          /\ fileToCompact.file \in levels[fileToCompact.level]
ChoicesOK ==
  /\ compactPointer \in [Levels -> written \cup {None}]
  /\ FileToCompactOK /\ ManualOK

\* What a running compaction took in may still be replaced by its outputs,
\* whatever has been flushed meanwhile.
CompactionOK ==
  compaction # None =>
    /\ Inputs(compaction.level, compaction.inputs0, compaction.inputs1)
    /\ compaction.smallestSnapshot \in Nat
    /\ \A s \in snapshots \cup {LastSequence} : compaction.smallestSnapshot <= s

\* NewerFirst, table by table.
TablesNewer ==
  /\ NewerThan(mem, imm)
  /\ \A l \in Levels : \A f \in levels[l] : NewerThan(mem, f.entries) /\ NewerThan(imm, f.entries)
  /\ \A f, g \in levels[0] : f.number > g.number => NewerThan(f.entries, g.entries)
  /\ \A l, m \in Levels : l < m =>
       \A f \in levels[l], g \in levels[m] : NewerThan(f.entries, g.entries)

LevelInv == HistoryOK /\ FilesOK /\ ChoicesOK /\ CompactionOK /\ TablesNewer

\* The rounds of a client's range in which no user key lies inside of the
\* range, or whose inputs leave no gap.
GaplessRounds ==
  manual # None =>
    \/ manual.end <= manual.begin + 1
    \/ Connected(ManualInputs(manual.level, manual.begin, manual.end))

\* What a read at a sequence number must find.
Latest(e, s) == e.seq <= s /\ \A x \in written : x.key = e.key /\ x.seq <= s => x.seq <= e.seq
Stored(e) == e \in mem \/ e \in imm \/ \E l \in Levels : \E f \in levels[l] : e \in f.entries
NothingLost ==
  /\ \A e \in written : ~e.del
  /\ \A e \in written, s \in snapshots \cup {LastSequence} : Latest(e, s) => Stored(e)

\* The parts of NewerFirst follow.
LEMMA TablesNewerFirst ==
  ASSUME TablesNewer
  PROVE  NewerFirst
<1>1. \A l \in Levels : NewerThan(mem \cup imm, UNION {f.entries : f \in levels[l]})
  BY DEF TablesNewer, NewerThan
<1>2. \A l, m \in Levels : l < m =>
        NewerThan(UNION {f.entries : f \in levels[l]}, UNION {f.entries : f \in levels[m]})
  BY DEF TablesNewer, NewerThan
<1>3. /\ NewerThan(mem, imm)
      /\ \A f, g \in levels[0] : f.number > g.number => NewerThan(f.entries, g.entries)
  BY DEF TablesNewer
<1> QED
  BY <1>1, <1>2, <1>3 DEF NewerFirst, NewerThan

LEMMA LastSequenceFacts ==
  ASSUME HistoryOK
  PROVE  /\ LastSequence \in Nat
         /\ \A e \in written : e.seq \in 1 .. LastSequence
         /\ snapshots \cup {LastSequence} \subseteq Nat
         /\ \A s \in snapshots : s <= LastSequence
<1>1. LastSequence \in Nat
  BY FS_CardinalityType DEF HistoryOK, LastSequence
<1> QED
  BY <1>1 DEF HistoryOK

LEMMA InitLevelInv ==
  ASSUME Init
  PROVE  LevelInv /\ NothingLost
<1>1. LastSequence = 0 /\ IsFiniteSet({})
  BY FS_EmptySet DEF Init, LastSequence
<1>2. HistoryOK
  BY <1>1 DEF Init, HistoryOK, Ordered
<1>3. FilesOK
  BY <1>1 DEF Init, FilesOK, LevelsOver, Apart
<1>4. ChoicesOK /\ CompactionOK
  BY DEF Init, ChoicesOK, FileToCompactOK, ManualOK, CompactionOK
<1>5. TablesNewer
  BY LevelTypes DEF Init, TablesNewer, NewerThan
<1>6. NothingLost
  BY DEF Init, NothingLost
<1> QED
  BY <1>2, <1>3, <1>4, <1>5, <1>6 DEF LevelInv

-----------------------------------------------------------------------------
(***************************************************************************)
(* The clients' steps.                                                     *)
(***************************************************************************)
LEMMA FilesStay ==
  ASSUME FilesOK, levels' = levels, nextFile' = nextFile, written \subseteq written'
  PROVE  FilesOK'
<1>1. Tables(written) \subseteq Tables(written')
  BY DEF Tables
<1>2. LevelsOver(written)'
  BY <1>1 DEF FilesOK, LevelsOver
<1> QED
  BY <1>2 DEF FilesOK

LEMMA WriteAddsOne ==
  ASSUME HistoryOK, NEW k \in Keys, NEW del \in BOOLEAN, LastSequence < MaxSeq,
         NEW e, e = [key |-> k, seq |-> LastSequence + 1, del |-> del],
         written' = written \cup {e}
  PROVE  /\ LastSequence' = LastSequence + 1
         /\ Ordered(written') /\ IsFiniteSet(written')
         /\ {x.seq : x \in written'} = 1 .. LastSequence'
<1>1. LastSequence \in Nat /\ \A x \in written : x.seq \in 1 .. LastSequence
  BY LastSequenceFacts
<1>2. e \notin written /\ e.seq = LastSequence + 1
  BY <1>1
<1>3. IsFiniteSet(written') /\ LastSequence' = LastSequence + 1
  BY <1>2, FS_AddElement DEF HistoryOK, LastSequence
<1>4. e \in Entry
  BY <1>1, SizesAssumption DEF Entry
<1>5. Ordered(written')
  BY <1>1, <1>2, <1>4 DEF HistoryOK, Ordered
<1>6. {x.seq : x \in written'} = {x.seq : x \in written} \cup {LastSequence + 1}
  BY <1>2
<1>7. (1 .. LastSequence) \cup {LastSequence + 1} = 1 .. LastSequence + 1
  BY <1>1
<1> QED
  BY <1>3, <1>5, <1>6, <1>7 DEF HistoryOK

LEMMA WriteStep ==
  ASSUME LevelInv, NEW k \in Keys, NEW del \in BOOLEAN, Write(k, del)
  PROVE  LevelInv'
<1> DEFINE e == [key |-> k, seq |-> LastSequence + 1, del |-> del]
<1>1. /\ LastSequence < MaxSeq
      /\ written' = written \cup {e} /\ mem' = mem \cup {e}
      /\ UNCHANGED <<imm, snapshots, levels, nextFile, compactPointer, fileToCompact,
                     compaction, manual>>
  BY DEF Write
<1>2. HistoryOK /\ FilesOK /\ ChoicesOK /\ CompactionOK /\ TablesNewer
  BY DEF LevelInv
<1>3. /\ LastSequence' = LastSequence + 1
      /\ Ordered(written') /\ IsFiniteSet(written')
      /\ {x.seq : x \in written'} = 1 .. LastSequence'
  BY <1>1, <1>2, WriteAddsOne
<1>4. /\ LastSequence \in Nat
      /\ \A x \in written : x.seq \in 1 .. LastSequence
      /\ \A s \in snapshots : s \in Nat /\ s <= LastSequence
  BY <1>2, LastSequenceFacts
<1>5. HistoryOK'
  BY <1>1, <1>2, <1>3, <1>4 DEF HistoryOK
<1>6. FilesOK'
  BY <1>1, <1>2, FilesStay
<1>7. ChoicesOK'
  BY <1>1, <1>2 DEF ChoicesOK, FileToCompactOK, ManualOK
<1>8. CompactionOK'
  <2>1. \A level, ins0, ins1 : Inputs(level, ins0, ins1)' <=> Inputs(level, ins0, ins1)
    BY <1>1 DEF Inputs
  <2> QED
    BY <1>1, <1>2, <1>3, <1>4, <2>1 DEF CompactionOK
<1>9. TablesNewer'
  <2>1. \A x \in written : e.seq > x.seq
    BY <1>4
  <2>2. \A A \in SUBSET written : NewerThan(mem, A) => NewerThan(mem', A)
    BY <1>1, <2>1 DEF NewerThan
  <2>3. imm \subseteq written /\ \A l \in Levels : \A f \in levels[l] : f.entries \subseteq written
    BY <1>2 DEF HistoryOK, FilesOK, LevelsOver, Tables
  <2> QED
    BY <1>1, <1>2, <2>2, <2>3 DEF TablesNewer
<1> QED
  BY <1>5, <1>6, <1>7, <1>8, <1>9 DEF LevelInv

LEMMA SwapMemTableStep ==
  ASSUME LevelInv, SwapMemTable
  PROVE  LevelInv'
<1> USE DEF LevelInv, SwapMemTable
<1>1. HistoryOK' /\ LastSequence' = LastSequence
  BY DEF HistoryOK, LastSequence
<1>2. FilesOK'
  BY FilesStay
<1>3. ChoicesOK'
  BY DEF ChoicesOK, FileToCompactOK, ManualOK
<1>4. CompactionOK'
  BY <1>1 DEF CompactionOK, Inputs
<1>5. TablesNewer'
  BY DEF TablesNewer, NewerThan
<1> QED
  BY <1>1, <1>2, <1>3, <1>4, <1>5

LEMMA SnapshotStep ==
  ASSUME LevelInv, GetSnapshot \/ ReleaseSnapshot
  PROVE  LevelInv'
<1>1. /\ UNCHANGED <<written, mem, imm, levels, nextFile, compactPointer, fileToCompact,
                     compaction, manual>>
      /\ snapshots' \subseteq snapshots \cup {LastSequence}
  BY DEF GetSnapshot, ReleaseSnapshot
<1>2. LastSequence' = LastSequence
  BY <1>1 DEF LastSequence
<1> USE DEF LevelInv
<1>3. HistoryOK'
  <2>1. snapshots \cup {LastSequence} \subseteq 0 .. LastSequence
    BY LastSequenceFacts DEF HistoryOK
  <2> QED
    BY <1>1, <1>2, <2>1 DEF HistoryOK
<1>4. FilesOK'
  BY <1>1, FilesStay
<1>5. ChoicesOK'
  BY <1>1 DEF ChoicesOK, FileToCompactOK, ManualOK
<1>6. CompactionOK'
  BY <1>1, <1>2 DEF CompactionOK, Inputs
<1>7. TablesNewer'
  BY <1>1 DEF TablesNewer
<1> QED
  BY <1>3, <1>4, <1>5, <1>6, <1>7

\* The files a read visits, of each level below level 0 at most one.
LEMMA VisitedFacts ==
  ASSUME NEW k, NEW s
  PROVE  /\ \A p \in Visited(k, s) : p = <<p[1], p[2]>> /\ p[1] \in Levels /\ p[2] \in levels[p[1]]
         /\ \A p, q \in Visited(k, s) : p[1] = q[1] /\ p[1] # 0 => p = q
<1> DEFINE F(l) == FilesAt(levels[l], [key |-> k, seq |-> s])
<1>1. \A p \in Visited(k, s) : \/ p \in {0} \X Overlapping(levels[0], k, k)
                               \/ \E l \in 1 .. NumLevels - 1 : p \in {l} \X F(l)
  BY DEF Visited
<1>2. 0 \in Levels /\ 1 .. NumLevels - 1 \subseteq Levels
  BY LevelTypes DEF Levels
<1>3. Overlapping(levels[0], k, k) \subseteq levels[0]
  BY DEF Overlapping
<1>4. \A l : F(l) \subseteq levels[l] /\ \A f, g \in F(l) : f = g
  BY DEF FilesAt, Reaching
<1> HIDE DEF F
<1>5. ASSUME NEW p \in Visited(k, s)
      PROVE  /\ p = <<p[1], p[2]>> /\ p[1] \in Levels /\ p[2] \in levels[p[1]]
             /\ p[1] # 0 => p[2] \in F(p[1])
  <2>1. CASE p \in {0} \X Overlapping(levels[0], k, k)
    BY <1>2, <1>3, <2>1
  <2>2. CASE \E l \in 1 .. NumLevels - 1 : p \in {l} \X F(l)
    BY <1>2, <1>4, <2>2
  <2> QED
    BY <1>1, <2>1, <2>2
<1> QED
  BY <1>4, <1>5

LEMMA FirstVisitedFacts ==
  ASSUME FilesOK, NEW V, V # {}, \A p \in V : p[1] \in Levels /\ p[2] \in levels[p[1]]
  PROVE  FirstVisited(V) \in V /\ \A q \in V : ~Earlier(q, FirstVisited(V))
<1> DEFINE L == {p[1] : p \in V}
           M == {p[2].number : p \in {q \in V : q[1] = 0}}
<1>1. PICK l \in L : \A m \in L : l <= m
  <2>1. L \subseteq Nat /\ L # {}
    BY DEF Levels
  <2> HIDE DEF L
  <2> QED
    BY <2>1, LeastNumber
<1>2. \A q \in V : q[1] \in Nat /\ l <= q[1] /\ l \in Nat
  BY <1>1 DEF Levels
<1>3. nextFile \in Nat /\ \A q \in V : q[2].number \in 0 .. nextFile
  BY DEF FilesOK
<1>4. \E p \in V : \A q \in V : ~Earlier(q, p)
  <2>1. CASE l = 0
    <3>1. PICK n \in M : \A m \in M : m <= n
      <4>1. M \subseteq 0 .. nextFile /\ M # {}
        BY <1>1, <1>3, <2>1
      <4> HIDE DEF M
      <4> QED
        BY <1>3, <4>1, GreatestNumber
    <3>2. PICK p \in V : p[1] = 0 /\ p[2].number = n
      OBVIOUS
    <3>3. \A q \in V : q[1] = 0 => q[2].number <= n
      BY <3>1
    <3>4. \A q \in V : ~Earlier(q, p)
      BY <1>2, <1>3, <3>2, <3>3 DEF Earlier
    <3> QED
      BY <3>4
  <2>2. CASE l # 0
    <3>1. PICK p \in V : p[1] = l
      OBVIOUS
    <3>2. \A q \in V : ~Earlier(q, p)
      BY <1>2, <2>2, <3>1 DEF Earlier
    <3> QED
      BY <3>2
  <2> QED
    BY <2>1, <2>2
<1> QED
  BY <1>4 DEF FirstVisited

LEMMA ChargeSeekStep ==
  ASSUME LevelInv, ChargeSeek
  PROVE  LevelInv'
<1>1. /\ UNCHANGED <<written, mem, imm, snapshots, levels, nextFile, compactPointer,
                     compaction, manual>>
      /\ LastSequence' = LastSequence
  BY DEF ChargeSeek, LastSequence
<1> USE DEF LevelInv
<1>2. PICK k \in Keys, s \in snapshots \cup {LastSequence} :
        /\ Cardinality(Visited(k, s)) > 1
        /\ \E p \in {FirstVisited(Visited(k, s))} :
             fileToCompact' = [level |-> p[1], file |-> p[2]]
  BY DEF ChargeSeek
<1> DEFINE V == Visited(k, s)
           p == FirstVisited(V)
<1>3. V # {}
  BY <1>2, FS_EmptySet
<1>4. /\ \A q \in V : q = <<q[1], q[2]>> /\ q[1] \in Levels /\ q[2] \in levels[q[1]]
      /\ \A q, r \in V : q[1] = r[1] /\ q[1] # 0 => q = r
  BY VisitedFacts
<1> HIDE DEF V
<1>5. p \in V /\ \A q \in V : ~Earlier(q, p)
  BY <1>3, <1>4, FirstVisitedFacts
<1> HIDE DEF p
<1>6. p[1] # NumLevels - 1
  <2>1. SUFFICES ASSUME p[1] = NumLevels - 1 PROVE FALSE
    OBVIOUS
  <2>2. \A q \in V : q[1] = p[1]
    BY <1>4, <1>5, <2>1, LevelTypes DEF Earlier, Levels
  <2>3. p[1] # 0
    BY <2>1, LevelTypes
  <2>4. V = {p}
    BY <1>4, <1>5, <2>2, <2>3
  <2>5. Cardinality(V) = 1
    BY <2>4, FS_Singleton
  <2> QED
    BY <1>2, <2>5 DEF V
<1>7. p[1] \in 0 .. NumLevels - 2 /\ p[2] \in levels[p[1]]
  BY <1>4, <1>5, <1>6, LevelTypes DEF Levels
<1>8. fileToCompact' = [level |-> p[1], file |-> p[2]]
  BY <1>2 DEF p, V
<1>9. FileToCompactOK'
  BY <1>1, <1>7, <1>8 DEF FileToCompactOK
<1>10. ChoicesOK'
  BY <1>1, <1>9 DEF ChoicesOK, ManualOK
<1>11. HistoryOK' /\ TablesNewer'
  BY <1>1 DEF HistoryOK, TablesNewer
<1>12. FilesOK'
  BY <1>1, FilesStay
<1>13. CompactionOK'
  BY <1>1 DEF CompactionOK, Inputs
<1> QED
  BY <1>10, <1>11, <1>12, <1>13

\* The client's call and its rounds change only manual.
LEMMA OnlyManual ==
  ASSUME LevelInv, ManualOK',
         UNCHANGED <<written, mem, imm, snapshots, levels, nextFile, compactPointer, fileToCompact,
                     compaction>>
  PROVE  LevelInv'
<1> USE DEF LevelInv
<1>1. HistoryOK' /\ TablesNewer' /\ LastSequence' = LastSequence
  BY DEF HistoryOK, TablesNewer, LastSequence
<1>2. ChoicesOK'
  BY DEF ChoicesOK, FileToCompactOK
<1>3. FilesOK'
  BY FilesStay
<1>4. CompactionOK'
  BY <1>1 DEF CompactionOK, Inputs
<1> QED
  BY <1>1, <1>2, <1>3, <1>4

LEMMA CompactRangeStep ==
  ASSUME LevelInv, CompactRange
  PROVE  LevelInv'
<1>1. PICK r \in Ranges :
        manual' = [level |-> 0, begin |-> r[1], start |-> r[1], end |-> r[2],
                   queued |-> FALSE, flushing |-> TRUE,
                   max |-> Max({1} \cup {l \in 1 .. NumLevels - 1 : Overlaps(l, r[1], r[2])})]
  BY DEF CompactRange
<1> DEFINE S == {1} \cup {l \in 1 .. NumLevels - 1 : Overlaps(l, r[1], r[2])}
<1>2. /\ S \subseteq 1 .. NumLevels - 1 /\ S # {} /\ NumLevels - 1 \in Nat
      /\ S \subseteq 0 .. NumLevels - 1
  BY LevelTypes
<1>3. Max(S) \in S
  <2> HIDE DEF S
  <2>1. \E n \in S : \A m \in S : m <= n
    BY <1>2, GreatestNumber
  <2>2. \E n \in S : \A m \in S : n >= m
    <3>1. \A n, m \in S : m <= n => n >= m
      BY <1>2
    <3> QED
      BY <2>1, <3>1
  <2> QED
    BY <2>2 DEF Max
<1> HIDE DEF S
<1>4. Max(S) \in Nat /\ 0 < Max(S) /\ Max(S) <= NumLevels - 1
  <2>1. \A m \in S : m \in Nat /\ 0 < m /\ m <= NumLevels - 1
    BY <1>2
  <2> QED
    BY <1>3, <2>1
<1>5. r[1] \in Nat /\ r[2] \in Nat
  BY SizesAssumption
<1>6. manual' = [level |-> 0, begin |-> r[1], start |-> r[1], end |-> r[2],
                 queued |-> FALSE, flushing |-> TRUE, max |-> Max(S)]
  BY <1>1 DEF S
<1>7. ManualOK'
  <2> DEFINE m == Max(S)
  <2>1. m \in Nat /\ 0 < m /\ m <= NumLevels - 1
    BY <1>4
  <2>2. manual' = [level |-> 0, begin |-> r[1], start |-> r[1], end |-> r[2],
                   queued |-> FALSE, flushing |-> TRUE, max |-> m]
    BY <1>6
  <2> HIDE DEF m
  <2> QED
    BY <1>5, <2>1, <2>2 DEF ManualOK
<1> QED
  BY <1>7, OnlyManual DEF CompactRange

LEMMA QueueManualStep ==
  ASSUME LevelInv, QueueManual
  PROVE  LevelInv'
<1>1. ManualOK'
  BY DEF LevelInv, ChoicesOK, ManualOK, QueueManual
<1> QED
  BY <1>1, OnlyManual DEF QueueManual

-----------------------------------------------------------------------------
(***************************************************************************)
(* A flush, which may come while a compaction runs.                        *)
(***************************************************************************)
LEMMA OutputLevelFacts ==
  ASSUME NEW b, NEW e, NEW L, L = OutputLevel(b, e)
  PROVE  /\ L \in 0 .. NumLevels - 2
         /\ L # 0 => \A l \in 0 .. L : \A g \in levels[l] : ~Meets(g, b, e)
<1> DEFINE S == {l \in 0 .. MaxMemCompactLevel : \A m \in 1 .. l : FitsLevel(m, b, e)}
<1>1. MaxMemCompactLevel \in Nat /\ MaxMemCompactLevel <= NumLevels - 2 /\ NumLevels \in Nat
  BY SizesAssumption
<1>2. CASE Overlaps(0, b, e)
  BY <1>1, <1>2 DEF OutputLevel
<1>3. CASE ~Overlaps(0, b, e)
  <2>1. L = Max(S)
    BY <1>3 DEF OutputLevel
  <2>2. S \subseteq 0 .. MaxMemCompactLevel /\ 0 \in S
    BY <1>1
  <2>3. L \in S
    <3> HIDE DEF S
    <3>1. \E n \in S : \A m \in S : m <= n
      BY <1>1, <2>2, GreatestNumber
    <3>2. \A n, m \in S : m <= n => n >= m
      BY <1>1, <2>2
    <3>3. \E n \in S : \A m \in S : n >= m
      BY <3>1, <3>2
    <3> QED
      BY <2>1, <3>3 DEF Max
  <2>4. \A l \in 1 .. L : ~Overlaps(l, b, e)
    BY <2>3 DEF FitsLevel
  <2>5. \A l \in 0 .. L : l = 0 \/ l \in 1 .. L
    BY <1>1, <2>3
  <2>6. \A l \in 0 .. L : ~Overlaps(l, b, e)
    BY <1>3, <2>4, <2>5
  <2>7. \A l \in 0 .. L : \A g \in levels[l] : ~Meets(g, b, e)
    BY <2>6 DEF Overlaps, Overlapping
  <2> QED
    BY <1>1, <2>3, <2>7
<1> QED
  BY <1>2, <1>3

\* The files of a VersionEdit for one level.
At(E, l) == {a[2] : a \in {a \in E : a[1] = l}}

Edits(L, S) == {<<L, f>> : f \in S}

LEMMA EditOf ==
  ASSUME NEW L, NEW S, NEW l
  PROVE  At(Edits(L, S), l) = IF l = L THEN S ELSE {}
<1> DEFINE Q == {a \in Edits(L, S) : a[1] = l}
<1>1. /\ \A a \in Edits(L, S) : a[1] = L /\ a[2] \in S
      /\ \A f \in S : <<L, f>> \in Edits(L, S) /\ <<L, f>>[1] = L /\ <<L, f>>[2] = f
  BY DEF Edits
<1>2. \A a : a \in Q <=> a \in Edits(L, S) /\ a[1] = l
  OBVIOUS
<1> HIDE DEF Q
<1>3. {a[2] : a \in Q} = IF l = L THEN S ELSE {}
  BY <1>1, <1>2
<1> QED
  BY <1>3 DEF Q, At

LEMMA ApplyAt ==
  ASSUME NEW deleted, NEW added, Apply(deleted, added)
  PROVE  /\ levels' = [l \in Levels |-> (levels[l] \ At(deleted, l)) \cup At(added, l)]
         /\ fileToCompact' = None
BY DEF Apply, At

\* Tables that do not meet have no user key in common.
LEMMA UnmetFacts ==
  ASSUME NEW W, Ordered(W), NEW f \in Tables(W), NEW g \in Tables(W),
         ~Meets(g, Smallest(f).key, Largest(f).key)
  PROVE  /\ Before(Largest(f), Smallest(g)) \/ Before(Largest(g), Smallest(f))
         /\ NewerThan(f.entries, g.entries) /\ NewerThan(g.entries, f.entries)
<1>1. /\ Smallest(f).key \in Nat /\ Largest(f).key \in Nat /\ Smallest(f).key <= Largest(f).key
      /\ Smallest(g).key \in Nat /\ Largest(g).key \in Nat /\ Smallest(g).key <= Largest(g).key
      /\ \A x \in f.entries : ~Before(x, Smallest(f)) /\ ~Before(Largest(f), x)
      /\ \A x \in g.entries : ~Before(x, Smallest(g)) /\ ~Before(Largest(g), x)
  BY Ends
<1>2. Largest(f).key < Smallest(g).key \/ Largest(g).key < Smallest(f).key
  BY <1>1 DEF Meets
<1>3. \A h \in {f, g} : \A x \in h.entries : x.key \in Nat
  BY EntryTypes DEF Ordered, Tables
<1>4. \A x \in f.entries : Smallest(f).key <= x.key /\ x.key <= Largest(f).key
  BY <1>1, <1>3 DEF Before
<1>5. \A x \in g.entries : Smallest(g).key <= x.key /\ x.key <= Largest(g).key
  BY <1>1, <1>3 DEF Before
<1>6. \A x \in f.entries, y \in g.entries : x.key # y.key
  BY <1>1, <1>2, <1>3, <1>4, <1>5
<1> QED
  BY <1>2, <1>6 DEF Before, NewerThan

\* The table of imm_ in its level.
Flushed == [number |-> nextFile, entries |-> imm]
FlushLevel == OutputLevel(Smallest(Flushed).key, Largest(Flushed).key)

LEMMA FlushFacts ==
  ASSUME LevelInv, CompactMemTable, NEW f, f = Flushed, NEW L, L = FlushLevel
  PROVE  /\ Ordered(written) /\ f \in Tables(written)
         /\ f.number = nextFile /\ f.entries = imm
         /\ L \in 0 .. NumLevels - 2 /\ L \in Levels
         /\ levels' = [l \in Levels |-> IF l = L THEN levels[l] \cup {f} ELSE levels[l]]
         /\ nextFile' = nextFile + 1 /\ imm' = {} /\ fileToCompact' = None
         /\ UNCHANGED <<written, mem, snapshots, compactPointer, compaction, manual>>
         /\ L # 0 => \A l \in 0 .. L : \A g \in levels[l] :
                       ~Meets(g, Smallest(f).key, Largest(f).key)
<1>1. Ordered(written) /\ f \in Tables(written) /\ f.number = nextFile /\ f.entries = imm
  BY DEF LevelInv, HistoryOK, FilesOK, CompactMemTable, Flushed, Tables
<1>2. L = OutputLevel(Smallest(f).key, Largest(f).key)
  BY DEF FlushLevel
<1>3. /\ L \in 0 .. NumLevels - 2 /\ L \in Levels
      /\ L # 0 => \A l \in 0 .. L : \A g \in levels[l] : ~Meets(g, Smallest(f).key, Largest(f).key)
  BY <1>2, OutputLevelFacts, LevelTypes
<1>4. /\ Apply({}, {<<L, f>>})
      /\ nextFile' = nextFile + 1 /\ imm' = {}
      /\ UNCHANGED <<written, mem, snapshots, compactPointer, compaction, manual>>
  BY <1>2 DEF CompactMemTable, Flushed
<1>5. fileToCompact' = None
      /\ levels' = [l \in Levels |-> IF l = L THEN levels[l] \cup {f} ELSE levels[l]]
  <2>1. \A l : At({}, l) = {}
    BY DEF At
  <2>2. {<<L, f>>} = Edits(L, {f})
    BY DEF Edits
  <2>3. \A l : At({<<L, f>>}, l) = IF l = L THEN {f} ELSE {}
    BY <2>2, EditOf
  <2>4. \A l \in Levels : (levels[l] \ At({}, l)) \cup At({<<L, f>>}, l)
          = IF l = L THEN levels[l] \cup {f} ELSE levels[l]
    BY <2>1, <2>3
  <2>5. /\ levels' = [l \in Levels |-> (levels[l] \ At({}, l)) \cup At({<<L, f>>}, l)]
        /\ fileToCompact' = None
    BY <1>4, ApplyAt
  <2> QED
    BY <2>4, <2>5
<1> QED
  BY <1>1, <1>3, <1>4, <1>5

LEMMA FlushFilesOK ==
  ASSUME LevelInv, CompactMemTable
  PROVE  FilesOK'
<1> DEFINE f == Flushed
           L == FlushLevel
<1> HIDE DEF f, L
<1>1. /\ Ordered(written) /\ f \in Tables(written)
      /\ f.number = nextFile /\ f.entries = imm
      /\ L \in 0 .. NumLevels - 2 /\ L \in Levels
      /\ levels' = [l \in Levels |-> IF l = L THEN levels[l] \cup {f} ELSE levels[l]]
      /\ nextFile' = nextFile + 1
      /\ written' = written
      /\ L # 0 => \A l \in 0 .. L : \A g \in levels[l] :
                    ~Meets(g, Smallest(f).key, Largest(f).key)
  BY FlushFacts DEF f, L
<1>2. /\ levels \in [Levels -> SUBSET Tables(written)]
      /\ \A l \in Levels : IsFiniteSet(levels[l])
      /\ \A l \in Levels \ {0} : Apart(levels[l])
      /\ nextFile \in Nat \ {0}
      /\ \A l \in Levels : \A g \in levels[l] : g.number \in 1 .. nextFile - 1
      /\ \A l, m \in Levels : \A g \in levels[l], h \in levels[m] : g.number = h.number => g = h /\ l = m
  BY DEF LevelInv, FilesOK, LevelsOver
<1>3. \A l \in Levels : levels'[l] = IF l = L THEN levels[l] \cup {f} ELSE levels[l]
  BY <1>1
<1>4. levels' \in [Levels -> SUBSET Tables(written)]
  <2>1. \A l \in Levels : levels[l] \cup {f} \in SUBSET Tables(written) /\ levels[l] \in SUBSET Tables(written)
    BY <1>1, <1>2
  <2> QED
    BY <1>1, <2>1
<1>5. \A l \in Levels : IsFiniteSet(levels'[l])
  <2>1. \A l \in Levels : IsFiniteSet(levels[l] \cup {f})
    BY <1>2, FS_AddElement
  <2> QED
    BY <1>2, <1>3, <2>1
<1>6. ASSUME NEW l \in Levels \ {0} PROVE Apart(levels'[l])
  <2>1. CASE l = L
    <3>1. \A g \in levels[l] : ~Meets(g, Smallest(f).key, Largest(f).key) /\ g \in Tables(written)
      BY <1>1, <1>2, <2>1 DEF Levels
    <3>2. \A g \in levels[l] : Before(Largest(f), Smallest(g)) \/ Before(Largest(g), Smallest(f))
      BY <1>1, <3>1, UnmetFacts
    <3>3. Apart(levels[l]) /\ levels'[l] = levels[l] \cup {f}
      BY <1>2, <1>3, <2>1
    <3> QED
      BY <3>2, <3>3 DEF Apart
  <2>2. CASE l # L
    BY <1>2, <1>3, <2>2
  <2> QED
    BY <2>1, <2>2
<1>7. LevelsOver(written)'
  BY <1>1, <1>4, <1>5, <1>6 DEF LevelsOver
<1>8. \A l \in Levels : \A g \in levels'[l] : g.number \in 1 .. nextFile' - 1
  BY <1>1, <1>2, <1>3
<1>9. \A l \in Levels : \A g \in levels[l] : g.number # nextFile
  BY <1>2
<1>10. ASSUME NEW l \in Levels, NEW m \in Levels, NEW g \in levels'[l], NEW h \in levels'[m],
              g.number = h.number
       PROVE  g = h /\ l = m
  <2>1. (g \in levels[l] \/ (g = f /\ l = L)) /\ (h \in levels[m] \/ (h = f /\ m = L))
    BY <1>3
  <2> QED
    BY <1>1, <1>2, <1>9, <1>10, <2>1
<1> QED
  BY <1>1, <1>2, <1>7, <1>8, <1>10 DEF FilesOK

LEMMA FlushTablesNewer ==
  ASSUME LevelInv, CompactMemTable
  PROVE  TablesNewer'
<1> DEFINE f == Flushed
           L == FlushLevel
<1> HIDE DEF f, L
<1>1. /\ Ordered(written) /\ f \in Tables(written)
      /\ f.number = nextFile /\ f.entries = imm /\ imm' = {} /\ mem' = mem
      /\ L \in 0 .. NumLevels - 2 /\ L \in Levels
      /\ levels' = [l \in Levels |-> IF l = L THEN levels[l] \cup {f} ELSE levels[l]]
      /\ L # 0 => \A l \in 0 .. L : \A g \in levels[l] :
                    ~Meets(g, Smallest(f).key, Largest(f).key)
  BY FlushFacts DEF f, L
<1>2. TablesNewer /\ FilesOK
  BY DEF LevelInv
<1>3. \A l \in Levels : levels'[l] = IF l = L THEN levels[l] \cup {f} ELSE levels[l]
  BY <1>1
<1>4. \A l \in Levels : \A g \in levels[l] : NewerThan(f.entries, g.entries) /\ g \in Tables(written)
  BY <1>1, <1>2 DEF TablesNewer, FilesOK, LevelsOver
<1>5. ASSUME NEW l \in Levels, l < L, NEW g \in levels[l]
      PROVE  NewerThan(g.entries, f.entries)
  <2>1. L # 0 /\ l \in 0 .. L
    BY <1>1, <1>5 DEF Levels
  <2>2. ~Meets(g, Smallest(f).key, Largest(f).key)
    BY <1>1, <2>1
  <2> QED
    BY <1>1, <1>4, <2>2, UnmetFacts
<1>6. nextFile \in Nat /\ \A g \in levels[0] : g.number \in Nat /\ g.number < nextFile
  BY <1>2, LevelTypes DEF FilesOK
<1>7. NewerThan(mem', imm')
  BY <1>1 DEF NewerThan
<1>8. \A l \in Levels : \A g \in levels'[l] : NewerThan(mem', g.entries) /\ NewerThan(imm', g.entries)
  <2>1. NewerThan(mem, f.entries)
    BY <1>1, <1>2 DEF TablesNewer
  <2>2. \A A : NewerThan(imm', A)
    BY <1>1 DEF NewerThan
  <2> QED
    BY <1>1, <1>2, <1>3, <2>1, <2>2 DEF TablesNewer
<1>9. ASSUME NEW g \in levels'[0], NEW h \in levels'[0], g.number > h.number
      PROVE  NewerThan(g.entries, h.entries)
  <2>1. 0 \in Levels
    BY LevelTypes
  <2>2. (g \in levels[0] \/ g = f) /\ (h \in levels[0] \/ h = f)
    BY <1>3, <2>1
  <2>3. CASE g \in levels[0] /\ h \in levels[0]
    BY <1>2, <1>9, <2>3 DEF TablesNewer
  <2>4. CASE h = f
    <3>1. FALSE
      BY <1>1, <1>6, <1>9, <2>2, <2>4
    <3> QED
      BY <3>1
  <2>5. CASE g = f /\ h \in levels[0]
    BY <1>4, <2>1, <2>5
  <2> QED
    BY <2>2, <2>3, <2>4, <2>5
<1>10. ASSUME NEW l \in Levels, NEW m \in Levels, l < m, NEW g \in levels'[l], NEW h \in levels'[m]
       PROVE  NewerThan(g.entries, h.entries)
  <2>1. (g \in levels[l] \/ (g = f /\ l = L)) /\ (h \in levels[m] \/ (h = f /\ m = L))
    BY <1>3
  <2>2. CASE g \in levels[l] /\ h \in levels[m]
    BY <1>2, <1>10, <2>2 DEF TablesNewer
  <2>3. CASE g = f /\ h \in levels[m]
    BY <1>4, <2>3
  <2>4. CASE g \in levels[l] /\ h = f /\ m = L
    BY <1>5, <1>10, <2>4
  <2>5. ~(l = L /\ m = L)
    BY <1>10 DEF Levels
  <2> QED
    BY <2>1, <2>2, <2>3, <2>4, <2>5
<1> QED
  BY <1>7, <1>8, <1>9, <1>10 DEF TablesNewer

\* A table that meets none of a compaction's inputs lies outside of their range.
LEMMA UnmetAside ==
  ASSUME NEW W, Ordered(W), NEW F, F \subseteq Tables(W), Connected(F), NEW f \in Tables(W),
         \A g \in F : ~Meets(g, Smallest(f).key, Largest(f).key)
  PROVE  Aside(F, f)
<1>1. /\ Smallest(f) \in W /\ Largest(f) \in W /\ Smallest(f).key <= Largest(f).key
      /\ Smallest(f).key \in Keys /\ Largest(f).key \in Keys
  BY Ends, EntryTypes DEF Ordered
<1>2. Clear(F, Smallest(f).key, Largest(f).key)
  BY DEF Clear
<1>3. OneSide(F, Smallest(f).key, Largest(f).key)
  BY <1>1, <1>2 DEF Connected
<1> QED
  BY <1>3 DEF OneSide, Aside, Before

LEMMA FlushCompactionOK ==
  ASSUME LevelInv, CompactMemTable
  PROVE  CompactionOK'
<1> DEFINE f == Flushed
           L == FlushLevel
<1> HIDE DEF f, L
<1>1. /\ Ordered(written) /\ f \in Tables(written)
      /\ f.entries = imm
      /\ L \in 0 .. NumLevels - 2 /\ L \in Levels
      /\ levels' = [l \in Levels |-> IF l = L THEN levels[l] \cup {f} ELSE levels[l]]
      /\ UNCHANGED <<written, snapshots, compaction>>
      /\ L # 0 => \A l \in 0 .. L : \A g \in levels[l] :
                    ~Meets(g, Smallest(f).key, Largest(f).key)
  BY FlushFacts DEF f, L
<1>2. LastSequence' = LastSequence
  BY <1>1 DEF LastSequence
<1>3. SUFFICES ASSUME NEW level, NEW ins0, NEW ins1, Inputs(level, ins0, ins1)
               PROVE  Inputs(level, ins0, ins1)'
  BY <1>1, <1>2 DEF LevelInv, CompactionOK
<1>4. /\ level \in 0 .. NumLevels - 2 /\ level \in Levels /\ level + 1 \in Levels
      /\ ins0 \subseteq levels[level] /\ ins0 # {}
      /\ ins1 \subseteq levels[level + 1]
      /\ Severed(levels[level], ins0)
      /\ \A g \in levels[level + 1] \ ins1 : Aside(ins0 \cup ins1, g)
      /\ Connected(ins0 \cup ins1)
  BY <1>3, LevelTypes DEF Inputs
<1>5. \A l \in Levels : levels'[l] = IF l = L THEN levels[l] \cup {f} ELSE levels[l]
  BY <1>1
<1>6. ins0 \subseteq levels'[level] /\ ins1 \subseteq levels'[level + 1]
  BY <1>4, <1>5
<1>7. \A l \in Levels : levels[l] \subseteq Tables(written) /\ \A g \in levels[l] : NewerThan(imm, g.entries)
  BY DEF LevelInv, FilesOK, LevelsOver, TablesNewer
<1>8. Severed(levels'[level], ins0)
  <2>1. \A g \in ins0 : NewerThan(f.entries, g.entries)
    BY <1>1, <1>4, <1>7
  <2>2. levels'[level] \subseteq levels[level] \cup {f}
    BY <1>4, <1>5
  <2> QED
    BY <1>4, <2>1, <2>2 DEF Severed
<1>9. ASSUME level + 1 = L
      PROVE  Aside(ins0 \cup ins1, f)
  <2>1. L # 0 /\ level \in 0 .. L /\ L \in 0 .. L
    BY <1>4, <1>9
  <2>2. \A g \in ins0 \cup ins1 : g \in Tables(written) /\ ~Meets(g, Smallest(f).key, Largest(f).key)
    BY <1>1, <1>4, <1>7, <1>9, <2>1
  <2> QED
    BY <1>1, <1>4, <2>2, UnmetAside
<1>10. \A g \in levels'[level + 1] \ ins1 : Aside(ins0 \cup ins1, g)
  BY <1>4, <1>5, <1>9
<1> QED
  BY <1>4, <1>6, <1>8, <1>10 DEF Inputs

LEMMA FlushStep ==
  ASSUME LevelInv, CompactMemTable
  PROVE  LevelInv'
<1>1. /\ UNCHANGED <<written, mem, snapshots, compactPointer, compaction, manual>>
      /\ imm' = {} /\ fileToCompact' = None
  BY FlushFacts
<1>2. HistoryOK'
  BY <1>1 DEF LevelInv, HistoryOK, LastSequence
<1>3. ChoicesOK'
  BY <1>1 DEF LevelInv, ChoicesOK, FileToCompactOK, ManualOK
<1> QED
  BY <1>2, <1>3, FlushFilesOK, FlushTablesNewer, FlushCompactionOK DEF LevelInv

-----------------------------------------------------------------------------
(***************************************************************************)
(* A compaction's outputs take the place of its inputs.                    *)
(***************************************************************************)
Replaced(level, ins0, ins1, out) ==
  [l \in Levels |-> IF l = level THEN levels[l] \ ins0
                    ELSE IF l = level + 1 THEN (levels[l] \ ins1) \cup out
                    ELSE levels[l]]
From(out, ins) == \A f \in out : \A x \in f.entries : \E g \in ins : x \in g.entries

\* A table of entries of some others is where those are.
LEMMA AsideOf ==
  ASSUME NEW W, Ordered(W), NEW F, F \subseteq Tables(W), NEW g \in Tables(W), Aside(F, g),
         NEW o \in Tables(W), \A x \in o.entries : \E f \in F : x \in f.entries
  PROVE  Before(Largest(o), Smallest(g)) \/ Before(Largest(g), Smallest(o))
<1>1. \A h \in Tables(W) : /\ Smallest(h) \in W /\ Largest(h) \in W
                           /\ Smallest(h) \in h.entries /\ Largest(h) \in h.entries
                           /\ \A x \in h.entries : ~Before(x, Smallest(h)) /\ ~Before(Largest(h), x)
  BY Ends
<1>2. CASE \A f \in F : Before(Largest(f), Smallest(g))
  <2>1. PICK f \in F : Largest(o) \in f.entries
    BY <1>1
  <2>2. f \in Tables(W) /\ ~Before(Largest(f), Largest(o)) /\ Before(Largest(f), Smallest(g))
    BY <1>1, <1>2, <2>1
  <2>3. Largest(o) = Largest(f) \/ Before(Largest(o), Largest(f))
    BY <1>1, <2>2, BeforeIsOrder
  <2> QED
    BY <1>1, <2>2, <2>3, BeforeIsOrder
<1>3. CASE \A f \in F : Before(Largest(g), Smallest(f))
  <2>1. PICK f \in F : Smallest(o) \in f.entries
    BY <1>1
  <2>2. f \in Tables(W) /\ ~Before(Smallest(o), Smallest(f)) /\ Before(Largest(g), Smallest(f))
    BY <1>1, <1>3, <2>1
  <2>3. Smallest(o) = Smallest(f) \/ Before(Smallest(f), Smallest(o))
    BY <1>1, <2>2, BeforeIsOrder
  <2> QED
    BY <1>1, <2>2, <2>3, BeforeIsOrder
<1> QED
  BY <1>2, <1>3 DEF Aside

LEMMA ReplacedLevels ==
  ASSUME NEW W, Ordered(W), LevelsOver(W), NEW level, NEW ins0, NEW ins1, Inputs(level, ins0, ins1),
         NEW out, out \subseteq Tables(W), IsFiniteSet(out), Apart(out), From(out, ins0 \cup ins1),
         NEW new, new = Replaced(level, ins0, ins1, out)
  PROVE  /\ new \in [Levels -> SUBSET Tables(W)]
         /\ \A l \in Levels : IsFiniteSet(new[l])
         /\ \A l \in Levels \ {0} : Apart(new[l])
<1>1. /\ level \in 0 .. NumLevels - 2 /\ level \in Levels /\ level + 1 \in Levels \ {0}
      /\ ins0 \subseteq levels[level] /\ ins1 \subseteq levels[level + 1]
      /\ \A g \in levels[level + 1] \ ins1 : Aside(ins0 \cup ins1, g)
  BY LevelTypes DEF Inputs
<1>2. /\ \A l \in Levels : levels[l] \in SUBSET Tables(W) /\ IsFiniteSet(levels[l])
      /\ \A l \in Levels \ {0} : Apart(levels[l])
  BY DEF LevelsOver
<1>3. /\ DOMAIN new = Levels
      /\ \A l \in Levels : new[l] = IF l = level THEN levels[l] \ ins0
                                    ELSE IF l = level + 1 THEN (levels[l] \ ins1) \cup out
                                    ELSE levels[l]
      /\ new = [l \in Levels |-> new[l]]
  BY DEF Replaced
<1>4. \A l \in Levels : new[l] \subseteq levels[l] \/ (l = level + 1 /\ new[l] = (levels[l] \ ins1) \cup out)
  BY <1>3
<1>5. \A l \in Levels : new[l] \in SUBSET Tables(W)
  BY <1>2, <1>4
<1>6. ASSUME NEW l \in Levels PROVE IsFiniteSet(new[l])
  <2>1. IsFiniteSet(levels[l]) /\ IsFiniteSet(levels[l] \ ins1)
    BY <1>2, FS_Subset
  <2>2. IsFiniteSet((levels[l] \ ins1) \cup out)
    BY <2>1, FS_Union
  <2> QED
    BY <1>4, <2>1, <2>2, FS_Subset
<1>7. ASSUME NEW l \in Levels \ {0} PROVE Apart(new[l])
  <2>1. CASE new[l] \subseteq levels[l]
    BY <1>2, <2>1 DEF Apart
  <2>2. CASE l = level + 1 /\ new[l] = (levels[l] \ ins1) \cup out
    <3>1. ins0 \cup ins1 \subseteq Tables(W)
      BY <1>1, <1>2
    <3>2. ASSUME NEW g \in levels[l] \ ins1, NEW o \in out
          PROVE  Before(Largest(o), Smallest(g)) \/ Before(Largest(g), Smallest(o))
      <4>1. g \in Tables(W) /\ o \in Tables(W) /\ Aside(ins0 \cup ins1, g)
        BY <1>1, <1>2, <2>2
      <4>2. \A x \in o.entries : \E f \in ins0 \cup ins1 : x \in f.entries
        BY DEF From
      <4> QED
        BY <3>1, <4>1, <4>2, AsideOf
    <3>3. Apart(levels[l])
      BY <1>2
    <3> QED
      BY <2>2, <3>2, <3>3 DEF Apart
  <2> QED
    BY <1>4, <2>1, <2>2
<1>8. new \in [Levels -> SUBSET Tables(W)]
  BY <1>3, <1>5
<1> QED
  BY <1>6, <1>7, <1>8

\* Where an entry of the new levels was.
Origin(level, ins0, ins1, out, l, f, x) ==
  \/ f \in levels[l] /\ (l = level => f \notin ins0)
  \/ /\ l = level + 1 /\ f \in out
     /\ \/ \E g \in ins0 : g \in levels[level] /\ x \in g.entries
        \/ \E g \in ins1 : g \in levels[l] /\ x \in g.entries

LEMMA ReplacedOrigin ==
  ASSUME NEW level, NEW ins0, NEW ins1, Inputs(level, ins0, ins1),
         NEW out, From(out, ins0 \cup ins1),
         NEW new, new = Replaced(level, ins0, ins1, out)
  PROVE  \A l \in Levels : \A f \in new[l] : \A x \in f.entries :
           Origin(level, ins0, ins1, out, l, f, x)
<1> TAKE l \in Levels
<1> TAKE f \in new[l]
<1> TAKE x \in f.entries
<1> USE DEF Origin
<1>1. ins0 \subseteq levels[level] /\ ins1 \subseteq levels[level + 1] /\ level # level + 1
  BY DEF Inputs
<1>2. new[l] = IF l = level THEN levels[l] \ ins0
               ELSE IF l = level + 1 THEN (levels[l] \ ins1) \cup out
               ELSE levels[l]
  BY DEF Replaced
<1>3. CASE f \in out /\ l = level + 1
  <2>1. PICK g \in ins0 \cup ins1 : x \in g.entries
    BY <1>3 DEF From
  <2> QED
    BY <1>1, <1>3, <2>1
<1>4. CASE ~(f \in out /\ l = level + 1)
  BY <1>1, <1>2, <1>4
<1> QED
  BY <1>3, <1>4

\* The entries a of l are newer than the entries b of m, for the same user key.
EntryNewer(a, b) == a.key = b.key => a.seq > b.seq

LEMMA ReplacedNewer ==
  ASSUME TablesNewer, NEW level, NEW ins0, NEW ins1, Inputs(level, ins0, ins1),
         NEW out, From(out, ins0 \cup ins1),
         NEW new, new = Replaced(level, ins0, ins1, out)
  PROVE  /\ \A l \in Levels : \A f \in new[l] : NewerThan(mem, f.entries) /\ NewerThan(imm, f.entries)
         /\ \A f, g \in new[0] : f.number > g.number => NewerThan(f.entries, g.entries)
         /\ \A l, m \in Levels : l < m => \A f \in new[l], g \in new[m] : NewerThan(f.entries, g.entries)
<1>1. /\ level \in 0 .. NumLevels - 2 /\ level \in Levels /\ level + 1 \in Levels /\ 0 \in Levels
      /\ level \in Nat
  BY LevelTypes DEF Inputs
<1>2. \A l \in Levels : \A f \in levels[l] : NewerThan(mem, f.entries) /\ NewerThan(imm, f.entries)
  BY DEF TablesNewer
<1>3. \A l, m \in Levels : l < m =>
        \A f \in levels[l], g \in levels[m] : NewerThan(f.entries, g.entries)
  BY DEF TablesNewer
<1>0. \A l \in Levels : \A f \in new[l] : \A x \in f.entries :
        Origin(level, ins0, ins1, out, l, f, x)
  BY ReplacedOrigin
<1>4. \A l \in Levels : \A f \in new[l] : \A x \in f.entries : \E m \in Levels : \E g \in levels[m] : x \in g.entries
  BY <1>0, <1>1 DEF Origin
<1>5. \A l \in Levels : \A f \in new[l] : NewerThan(mem, f.entries) /\ NewerThan(imm, f.entries)
  BY <1>2, <1>4 DEF NewerThan
<1>6. \A f, g \in new[0] : f.number > g.number => NewerThan(f.entries, g.entries)
  <2>1. new[0] \subseteq levels[0]
    BY <1>1 DEF Replaced
  <2> QED
    BY <2>1 DEF TablesNewer
<1>7. ASSUME NEW l \in Levels, NEW m \in Levels, l < m, NEW f \in new[l], NEW g \in new[m],
             NEW a \in f.entries, NEW b \in g.entries
      PROVE  EntryNewer(a, b)
  <2>1. l \in Nat /\ m \in Nat
    BY DEF Levels
  <2>2. \/ f \in levels[l] /\ (l = level => f \notin ins0)
        \/ /\ l = level + 1 /\ f \in out
           /\ \/ \E h \in ins0 : h \in levels[level] /\ a \in h.entries
              \/ \E h \in ins1 : h \in levels[l] /\ a \in h.entries
    BY <1>0 DEF Origin
  <2>3. \/ g \in levels[m] /\ (m = level => g \notin ins0)
        \/ /\ m = level + 1 /\ g \in out
           /\ \/ \E h \in ins0 : h \in levels[level] /\ b \in h.entries
              \/ \E h \in ins1 : h \in levels[m] /\ b \in h.entries
    BY <1>0 DEF Origin
  <2>4. ASSUME NEW p \in Levels, NEW q \in Levels, p < q, NEW i \in levels[p], NEW j \in levels[q],
               a \in i.entries, b \in j.entries
        PROVE  EntryNewer(a, b)
    BY <1>3, <2>4 DEF NewerThan, EntryNewer
  <2>5. CASE m = level + 1 /\ \E h \in ins0 : h \in levels[level] /\ b \in h.entries
    <3>1. PICK h \in ins0 : h \in levels[level] /\ b \in h.entries
      BY <2>5
    <3>2. f \in levels[l] /\ (l = level => f \notin ins0)
      BY <1>1, <1>7, <2>1, <2>2, <2>5
    <3>3. CASE l = level
      <4>1. NewerThan(f.entries, h.entries)
        BY <3>1, <3>2, <3>3 DEF Inputs, Severed
      <4> QED
        BY <3>1, <4>1 DEF NewerThan, EntryNewer
    <3>4. CASE l # level
      <4>1. l < level
        BY <1>1, <1>7, <2>1, <2>5, <3>4
      <4> QED
        BY <1>1, <2>4, <3>1, <3>2, <4>1
    <3> QED
      BY <3>3, <3>4
  <2>6. CASE \E j \in levels[m] : b \in j.entries
    <3>1. PICK j \in levels[m] : b \in j.entries
      BY <2>6
    <3>2. CASE \E i \in levels[l] : a \in i.entries
      BY <1>7, <2>4, <3>1, <3>2
    <3>3. CASE l = level + 1 /\ \E h \in ins0 : h \in levels[level] /\ a \in h.entries
      <4>1. level < m
        BY <1>1, <1>7, <2>1, <3>3
      <4> QED
        BY <1>1, <2>4, <3>1, <3>3, <4>1
    <3> QED
      BY <2>2, <3>2, <3>3
  <2> QED
    BY <2>3, <2>5, <2>6
<1>8. ASSUME NEW l \in Levels, NEW m \in Levels, l < m, NEW f \in new[l], NEW g \in new[m]
      PROVE  NewerThan(f.entries, g.entries)
  BY <1>7, <1>8 DEF NewerThan, EntryNewer
<1> QED
  BY <1>5, <1>6, <1>8

\* The last file in the order of a version.
LEMMA LastComes ==
  ASSUME NEW W, Ordered(W), NEW n \in Nat, NEW fs, fs \subseteq Tables(W), fs # {},
         \A f \in fs : f.number \in 0 .. n
  PROVE  LastOf(fs) \in fs
<1> DEFINE S == {Smallest(f) : f \in fs}
<1>1. \A f \in fs : Smallest(f) \in W
  BY Ends
<1>2. PICK s \in S : \A t \in S : ~Before(s, t)
  <2>1. S \subseteq W /\ S # {}
    BY <1>1
  <2> HIDE DEF S
  <2> QED
    BY <2>1, HasLargest
<1> DEFINE N == {f.number : f \in {g \in fs : Smallest(g) = s}}
<1>3. PICK m \in N : \A k \in N : k <= m
  <2>1. N \subseteq 0 .. n /\ N # {}
    BY <1>2
  <2> HIDE DEF N
  <2> QED
    BY <2>1, GreatestNumber
<1>4. PICK f \in fs : Smallest(f) = s /\ f.number = m
  BY <1>3
<1>5. ASSUME NEW g \in fs
      PROVE  ~Comes(f, g)
  <2>1. ~Before(s, Smallest(g))
    BY <1>2
  <2>2. Smallest(g) = s => g.number <= m
    BY <1>3
  <2>3. g.number \in Nat /\ m \in Nat
    BY <1>4
  <2> QED
    BY <1>4, <2>1, <2>2, <2>3 DEF Comes
<1> QED
  BY <1>4, <1>5 DEF LastOf

LEMMA StartStep ==
  ASSUME LevelInv, NEW level \in 0 .. NumLevels - 2, NEW picked,
         Pickable(level, levels[level], picked), Connected(picked),
         NEW c, c = SetupOtherInputs(level, picked),
         compactPointer' = [compactPointer EXCEPT ![c.level] = Pointer(c)],
         StartWork(c), ManualOK',
         UNCHANGED <<written, mem, imm, snapshots, levels, nextFile, fileToCompact>>
  PROVE  LevelInv'
<1>1. HistoryOK /\ FilesOK /\ ChoicesOK /\ TablesNewer
  BY DEF LevelInv
<1>2. Ordered(written) /\ LevelsOver(written)
  BY <1>1 DEF HistoryOK, FilesOK
<1>3. c.level = level /\ Inputs(level, c.inputs0, c.inputs1) /\ Pointer(c) \in written
  BY <1>2, SetupFacts
<1>4. HistoryOK' /\ TablesNewer' /\ LastSequence' = LastSequence
  BY <1>1 DEF HistoryOK, TablesNewer, LastSequence
<1>5. FilesOK'
  BY <1>1, FilesStay
<1>6. ChoicesOK'
  <2>1. compactPointer' \in [Levels -> written \cup {None}]
    BY <1>1, <1>3 DEF ChoicesOK
  <2> QED
    BY <1>1, <2>1 DEF ChoicesOK, FileToCompactOK
<1>7. CompactionOK'
  <2> DEFINE s == IF snapshots = {} THEN LastSequence ELSE Min(snapshots)
  <2>1. /\ LastSequence \in Nat /\ snapshots \subseteq Nat
        /\ \A t \in snapshots : t <= LastSequence
    BY <1>1, LastSequenceFacts
  <2>2. snapshots # {} => Min(snapshots) \in snapshots /\ \A t \in snapshots : Min(snapshots) <= t
    <3>1. snapshots # {} => \E n \in snapshots : \A t \in snapshots : n <= t
      BY <2>1, LeastNumber
    <3> QED
      BY <3>1 DEF Min
  <2>3. s \in Nat /\ \A t \in snapshots \cup {LastSequence} : s <= t
    <3>1. CASE snapshots = {}
      BY <2>1, <3>1
    <3>2. CASE snapshots # {}
      BY <2>1, <2>2, <3>2
    <3> QED
      BY <3>1, <3>2
  <2>4. /\ compaction'.level = c.level /\ compaction'.inputs0 = c.inputs0
        /\ compaction'.inputs1 = c.inputs1 /\ compaction'.smallestSnapshot = s
    BY DEF StartWork
  <2> HIDE DEF s
  <2>5. Inputs(compaction.level, compaction.inputs0, compaction.inputs1)'
    BY <1>3, <2>4 DEF Inputs
  <2> QED
    BY <1>4, <2>3, <2>4, <2>5 DEF CompactionOK
<1> QED
  BY <1>4, <1>5, <1>6, <1>7 DEF LevelInv

LEMMA ManualCompactionStep ==
  ASSUME LevelInv, GaplessRounds, ManualCompaction
  PROVE  LevelInv'
<1> DEFINE inputs == ManualInputs(manual.level, manual.begin, manual.end)
<1>1. /\ HistoryOK /\ FilesOK /\ ManualOK /\ manual # None
      /\ Ordered(written) /\ IsFiniteSet(written) /\ LevelsOver(written)
  BY DEF LevelInv, HistoryOK, FilesOK, ChoicesOK, ManualCompaction, Queued
<1>2. /\ manual \in [level : Nat, begin : Nat, start : Nat, end : Nat,
                     queued : BOOLEAN, flushing : BOOLEAN, max : Nat]
      /\ manual.level < manual.max /\ manual.max <= NumLevels - 1
  BY <1>1 DEF ManualOK
<1>3. manual.level \in 0 .. NumLevels - 2 /\ manual.begin \in Nat /\ manual.end \in Nat
  BY <1>2, LevelTypes
<1>4. /\ UNCHANGED <<written, mem, imm, snapshots, levels, nextFile, fileToCompact>>
      /\ \/ inputs = {} /\ manual' = NextManualLevel /\ UNCHANGED <<compactPointer, compaction>>
         \/ inputs # {} /\ \E c \in {SetupOtherInputs(manual.level, inputs)} :
              /\ compactPointer' = [compactPointer EXCEPT ![c.level] = Pointer(c)]
              /\ manual' = [manual EXCEPT !.queued = FALSE,
                                          !.begin = Largest(LastOf(c.inputs0)).key]
              /\ StartWork(c)
  BY DEF ManualCompaction
<1>5. CASE inputs = {} /\ manual' = NextManualLevel /\ UNCHANGED <<compactPointer, compaction>>
  <2>1. ManualOK'
    <3>1. CASE manual.level + 1 = manual.max
      BY <1>5, <3>1 DEF ManualOK, NextManualLevel
    <3>2. CASE manual.level + 1 # manual.max
      <4>1. manual' = [manual EXCEPT !.level = manual.level + 1, !.begin = manual.start, !.queued = FALSE]
        BY <1>5, <3>2 DEF NextManualLevel
      <4>2. manual.level + 1 < manual.max /\ manual.level + 1 \in Nat
        BY <1>2, <3>2
      <4> QED
        BY <1>2, <4>1, <4>2 DEF ManualOK
    <3> QED
      BY <3>1, <3>2
  <2> QED
    BY <1>4, <1>5, <2>1, OnlyManual
<1>6. CASE inputs # {} /\ \E c \in {SetupOtherInputs(manual.level, inputs)} :
              /\ compactPointer' = [compactPointer EXCEPT ![c.level] = Pointer(c)]
              /\ manual' = [manual EXCEPT !.queued = FALSE,
                                          !.begin = Largest(LastOf(c.inputs0)).key]
              /\ StartWork(c)
  <2>1. /\ Pickable(manual.level, levels[manual.level], inputs)
        /\ manual.end <= manual.begin + 1 => Connected(inputs)
    BY <1>1, <1>3, <1>6, ManualFacts
  <2>2. Connected(inputs)
    BY <1>1, <2>1 DEF GaplessRounds
  <2> HIDE DEF inputs
  <2>3. PICK c : /\ c = SetupOtherInputs(manual.level, inputs)
                 /\ compactPointer' = [compactPointer EXCEPT ![c.level] = Pointer(c)]
                 /\ manual' = [manual EXCEPT !.queued = FALSE,
                                             !.begin = Largest(LastOf(c.inputs0)).key]
                 /\ StartWork(c)
    BY <1>6
  <2>4. Inputs(manual.level, c.inputs0, c.inputs1)
    BY <1>1, <1>3, <2>1, <2>2, <2>3, SetupFacts
  <2>5. LastOf(c.inputs0) \in c.inputs0 /\ c.inputs0 \subseteq Tables(written)
    <3>1. manual.level \in Levels
      BY <1>3, LevelTypes
    <3>2. c.inputs0 # {} /\ c.inputs0 \subseteq levels[manual.level]
      BY <2>4 DEF Inputs
    <3>3. c.inputs0 \subseteq Tables(written)
      BY <1>1, <3>1, <3>2 DEF LevelsOver
    <3>4. nextFile \in Nat /\ \A f \in c.inputs0 : f.number \in 0 .. nextFile
      BY <1>1, <3>1, <3>2 DEF FilesOK
    <3> QED
      BY <1>1, <3>2, <3>3, <3>4, LastComes
  <2>6. Largest(LastOf(c.inputs0)).key \in Nat
    BY <1>1, <2>5, Ends
  <2>7. ManualOK'
    BY <1>2, <2>3, <2>6 DEF ManualOK
  <2> QED
    BY <1>3, <1>4, <2>1, <2>2, <2>3, <2>7, StartStep
<1> QED
  BY <1>4, <1>5, <1>6

\* The choice of TrivialMove and StartCompaction.
LEMMA ChosenFacts ==
  ASSUME LevelInv, PickedFile # None, NEW p, p = PickedFile
  PROVE  /\ p.level \in 0 .. NumLevels - 2
         /\ Pickable(p.level, levels[p.level], FilesPicked(p)) /\ Connected(FilesPicked(p))
<1>1. /\ Ordered(written) /\ IsFiniteSet(written) /\ LevelsOver(written) /\ FileToCompactOK
  BY DEF LevelInv, HistoryOK, FilesOK, ChoicesOK
<1>2. p.level \in 0 .. NumLevels - 2 /\ p.file \in levels[p.level]
  BY <1>1, PickedFacts DEF FileToCompactOK
<1> QED
  BY <1>1, <1>2, PickFacts

LEMMA StartCompactionStep ==
  ASSUME LevelInv, StartCompaction
  PROVE  LevelInv'
<1>1. PICK p, c : /\ p = PickedFile /\ p # None /\ c = CompactionOf(p)
                  /\ compactPointer' = [compactPointer EXCEPT ![c.level] = Pointer(c)]
                  /\ StartWork(c)
  BY DEF StartCompaction
<1>2. UNCHANGED <<written, mem, imm, snapshots, levels, nextFile, fileToCompact, manual>>
  BY DEF StartCompaction
<1>3. /\ p.level \in 0 .. NumLevels - 2
      /\ Pickable(p.level, levels[p.level], FilesPicked(p)) /\ Connected(FilesPicked(p))
  BY <1>1, ChosenFacts
<1>4. c = SetupOtherInputs(p.level, FilesPicked(p))
  BY <1>1 DEF CompactionOf
<1>5. ManualOK'
  BY <1>2 DEF LevelInv, ChoicesOK, ManualOK
<1> QED
  BY <1>1, <1>2, <1>3, <1>4, <1>5, StartStep

LEMMA ReplacedFilesOK ==
  ASSUME LevelInv, NEW level, NEW ins0, NEW ins1, Inputs(level, ins0, ins1),
         NEW out, out \subseteq Tables(written), IsFiniteSet(out), Apart(out),
         From(out, ins0 \cup ins1),
         levels' = Replaced(level, ins0, ins1, out), written' = written,
         NEW n \in Nat, nextFile' = nextFile + n,
         \A f \in out : \/ f \in ins0
                        \/ f.number \in nextFile .. nextFile + n - 1,
         \A f, g \in out : f.number = g.number => f = g
  PROVE  FilesOK'
<1>1. /\ Ordered(written) /\ LevelsOver(written)
      /\ nextFile \in Nat \ {0}
      /\ \A l \in Levels : \A g \in levels[l] : g.number \in 1 .. nextFile - 1
      /\ \A l, m \in Levels : \A g \in levels[l], h \in levels[m] : g.number = h.number => g = h /\ l = m
  BY DEF LevelInv, HistoryOK, FilesOK
<1>2. /\ levels' \in [Levels -> SUBSET Tables(written)]
      /\ \A l \in Levels : IsFiniteSet(levels'[l])
      /\ \A l \in Levels \ {0} : Apart(levels'[l])
  BY <1>1, ReplacedLevels
<1>3. LevelsOver(written)'
  BY <1>2 DEF LevelsOver
<1>4. /\ level \in Levels /\ level + 1 \in Levels /\ level # level + 1
      /\ ins0 \subseteq levels[level]
  BY LevelTypes DEF Inputs
<1>5. \A l \in Levels : levels'[l] = IF l = level THEN levels[l] \ ins0
                                     ELSE IF l = level + 1 THEN (levels[l] \ ins1) \cup out
                                     ELSE levels[l]
  BY DEF Replaced
<1>6. \A l \in Levels : \A g \in levels'[l] :
        \/ g \in levels[l] /\ (l = level => g \notin ins0)
        \/ g \in out /\ l = level + 1
  BY <1>4, <1>5
<1>7. \A g \in out : \/ g \in ins0 /\ g \in levels[level]
                     \/ g.number \in Nat /\ nextFile <= g.number /\ g.number < nextFile + n
  BY <1>1, <1>4
<1>8. \A l \in Levels : \A g \in levels'[l] : g.number \in 1 .. nextFile' - 1
  <2>1. \A l \in Levels : \A g \in levels[l] : g.number \in 1 .. nextFile + n - 1
    BY <1>1
  <2>2. \A g \in out : g.number \in 1 .. nextFile + n - 1
    BY <1>1, <1>4, <1>7, <2>1
  <2>3. \A l \in Levels : \A g \in levels'[l] : g.number \in 1 .. nextFile + n - 1
    BY <1>6, <2>1, <2>2
  <2>4. nextFile' - 1 = nextFile + n - 1
    BY <1>1
  <2> QED
    BY <2>3, <2>4
<1>9. \A l \in Levels : \A g \in levels[l] : g.number \in Nat /\ g.number < nextFile /\ nextFile \in Nat
  BY <1>1
<1>10. ASSUME NEW l \in Levels, NEW g \in levels[l], l = level => g \notin ins0,
              NEW h \in out, g.number = h.number
       PROVE  FALSE
  <2>1. CASE h \in ins0 /\ h \in levels[level]
    <3>1. g = h /\ l = level
      BY <1>1, <1>4, <1>10, <2>1
    <3> QED
      BY <1>10, <2>1, <3>1
  <2>2. CASE h.number \in Nat /\ nextFile <= h.number /\ h.number < nextFile + n
    BY <1>9, <1>10, <2>2
  <2> QED
    BY <1>7, <2>1, <2>2
<1>11. ASSUME NEW l \in Levels, NEW m \in Levels, NEW g \in levels'[l], NEW h \in levels'[m],
              g.number = h.number
       PROVE  g = h /\ l = m
  <2>1. CASE g \in levels[l] /\ (l = level => g \notin ins0) /\ h \in levels[m]
    BY <1>1, <1>11, <2>1
  <2>2. CASE g \in levels[l] /\ (l = level => g \notin ins0) /\ h \in out
    BY <1>10, <1>11, <2>2
  <2>3. CASE h \in levels[m] /\ (m = level => h \notin ins0) /\ g \in out
    BY <1>10, <1>11, <2>3
  <2>4. CASE g \in out /\ l = level + 1 /\ h \in out /\ m = level + 1
    BY <1>11, <2>4
  <2> QED
    BY <1>6, <2>1, <2>2, <2>3, <2>4
<1> QED
  BY <1>1, <1>3, <1>8, <1>11 DEF FilesOK

LEMMA ReplacedStep ==
  ASSUME LevelInv, NEW level, NEW ins0, NEW ins1, Inputs(level, ins0, ins1),
         NEW out, From(out, ins0 \cup ins1),
         levels' = Replaced(level, ins0, ins1, out), FilesOK',
         compactPointer' \in [Levels -> written \cup {None}],
         fileToCompact' = None, compaction' = None,
         UNCHANGED <<written, mem, imm, snapshots, manual>>
  PROVE  LevelInv'
<1>1. HistoryOK'
  BY DEF LevelInv, HistoryOK, LastSequence
<1>2. ChoicesOK'
  BY DEF LevelInv, ChoicesOK, FileToCompactOK, ManualOK
<1>3. CompactionOK'
  BY DEF CompactionOK
<1>4. TablesNewer'
  <2>1. TablesNewer
    BY DEF LevelInv
  <2>2. /\ \A l \in Levels : \A f \in levels'[l] : NewerThan(mem, f.entries) /\ NewerThan(imm, f.entries)
        /\ \A f, g \in levels'[0] : f.number > g.number => NewerThan(f.entries, g.entries)
        /\ \A l, m \in Levels : l < m => \A f \in levels'[l], g \in levels'[m] : NewerThan(f.entries, g.entries)
    BY <2>1, ReplacedNewer
  <2> QED
    BY <2>1, <2>2 DEF TablesNewer
<1> QED
  BY <1>1, <1>2, <1>3, <1>4 DEF LevelInv

LEMMA TrivialMoveFacts ==
  ASSUME LevelInv, TrivialMove
  PROVE  \E level, f :
           /\ Inputs(level, {f}, {})
           /\ levels' = Replaced(level, {f}, {}, {f})
           /\ compactPointer' \in [Levels -> written \cup {None}]
           /\ fileToCompact' = None
<1>1. PICK p, c, f : /\ p = PickedFile /\ p # None /\ c = CompactionOf(p) /\ IsTrivialMove(c)
                     /\ compactPointer' = [compactPointer EXCEPT ![c.level] = Pointer(c)]
                     /\ f \in c.inputs0
                     /\ Apply({<<c.level, f>>}, {<<c.level + 1, f>>})
  BY DEF TrivialMove
<1>2. /\ p.level \in 0 .. NumLevels - 2
      /\ Pickable(p.level, levels[p.level], FilesPicked(p)) /\ Connected(FilesPicked(p))
  BY <1>1, ChosenFacts
<1>3. c = SetupOtherInputs(p.level, FilesPicked(p))
  BY <1>1 DEF CompactionOf
<1>4. /\ Ordered(written) /\ LevelsOver(written) /\ compactPointer \in [Levels -> written \cup {None}]
  BY DEF LevelInv, HistoryOK, FilesOK, ChoicesOK
<1> DEFINE level == p.level
<1> HIDE DEF level
<1>5. /\ c.level = level /\ Inputs(level, c.inputs0, c.inputs1) /\ Pointer(c) \in written
  BY <1>2, <1>3, <1>4, SetupFacts DEF level
<1>6. c.inputs1 = {} /\ c.inputs0 = {f}
  <2>1. Cardinality(c.inputs0) = 1 /\ c.inputs1 = {}
    BY <1>1 DEF IsTrivialMove
  <2>2. IsFiniteSet(c.inputs0)
    <3>1. level \in Levels /\ c.inputs0 \subseteq levels[level]
      BY <1>5, LevelTypes DEF Inputs
    <3> QED
      BY <1>4, <3>1, FS_Subset DEF LevelsOver
  <2>3. \E x : c.inputs0 = {x}
    BY <2>1, <2>2, FS_Singleton
  <2> QED
    BY <1>1, <2>1, <2>3
<1>7. Inputs(level, {f}, {})
  BY <1>5, <1>6
<1>8. compactPointer' \in [Levels -> written \cup {None}]
  BY <1>1, <1>4, <1>5
<1>9. levels' = Replaced(level, {f}, {}, {f}) /\ fileToCompact' = None
  <2>1. {<<level, f>>} = Edits(level, {f}) /\ {<<level + 1, f>>} = Edits(level + 1, {f})
    BY DEF Edits
  <2>2. level # level + 1
    BY <1>7 DEF Inputs
  <2>3. \A l \in Levels : (levels[l] \ At({<<level, f>>}, l)) \cup At({<<level + 1, f>>}, l)
          = IF l = level THEN levels[l] \ {f}
            ELSE IF l = level + 1 THEN (levels[l] \ {}) \cup {f}
            ELSE levels[l]
    BY <2>1, <2>2, EditOf
  <2>4. /\ levels' = [l \in Levels |-> (levels[l] \ At({<<level, f>>}, l)) \cup At({<<level + 1, f>>}, l)]
        /\ fileToCompact' = None
    BY <1>1, <1>5, ApplyAt
  <2> QED
    BY <2>3, <2>4 DEF Replaced
<1> QED
  BY <1>7, <1>8, <1>9

LEMMA TrivialMoveStep ==
  ASSUME LevelInv, TrivialMove
  PROVE  LevelInv'
<1>1. PICK level, f : /\ Inputs(level, {f}, {})
                      /\ levels' = Replaced(level, {f}, {}, {f})
                      /\ compactPointer' \in [Levels -> written \cup {None}]
                      /\ fileToCompact' = None
  BY TrivialMoveFacts
<1>2. /\ compaction' = None
      /\ UNCHANGED <<written, mem, imm, snapshots, nextFile, manual>>
  BY DEF TrivialMove
<1>3. From({f}, {f} \cup {})
  BY DEF From
<1>4. {f} \subseteq Tables(written) /\ IsFiniteSet({f}) /\ Apart({f})
  <2>1. level \in Levels /\ f \in levels[level]
    BY <1>1, LevelTypes DEF Inputs
  <2> QED
    BY <2>1, FS_Singleton DEF LevelInv, FilesOK, LevelsOver, Apart
<1>5. FilesOK'
  <2> DEFINE out == {f}
             ins1 == {}
  <2>1. /\ \A g \in out : g \in out
        /\ \A g, h \in out : g.number = h.number => g = h
        /\ nextFile' = nextFile + 0
    BY <1>2 DEF LevelInv, FilesOK
  <2>2. /\ Inputs(level, out, ins1) /\ out \subseteq Tables(written) /\ IsFiniteSet(out) /\ Apart(out)
        /\ From(out, out \cup ins1) /\ levels' = Replaced(level, out, ins1, out) /\ written' = written
    BY <1>1, <1>2, <1>3, <1>4
  <2> HIDE DEF out, ins1
  <2> QED
    BY <2>1, <2>2, ReplacedFilesOK
<1> QED
  BY <1>1, <1>2, <1>3, <1>5, ReplacedStep

LEMMA InstallFacts ==
  ASSUME LevelInv, InstallCompaction, NEW c, c = compaction, NEW out, out = Outputs(c)
  PROVE  /\ Inputs(c.level, c.inputs0, c.inputs1)
         /\ levels' = Replaced(c.level, c.inputs0, c.inputs1, out)
         /\ nextFile' = nextFile + Cardinality(out)
         /\ fileToCompact' = None /\ compaction' = None
         /\ UNCHANGED <<written, mem, imm, snapshots, compactPointer, manual>>
         /\ Merged(c) \subseteq written
         /\ out \subseteq Tables(written) /\ IsFiniteSet(out) /\ Apart(out)
         /\ From(out, c.inputs0 \cup c.inputs1)
         /\ \A x \in Keep(c, Merged(c)) : \E f \in out : x \in f.entries
         /\ Cardinality(out) \in Nat
         /\ \A f \in out : f.number \in nextFile .. nextFile + Cardinality(out) - 1
         /\ \A f, g \in out : f.number = g.number => f = g
<1> DEFINE level == c.level
           ins0 == c.inputs0
           ins1 == c.inputs1
<1> HIDE DEF level, ins0, ins1
<1>1. compaction # None /\ Inputs(level, ins0, ins1)
  BY DEF InstallCompaction, LevelInv, CompactionOK, level, ins0, ins1
<1>2. /\ Apply({<<level, f>> : f \in ins0} \cup {<<level + 1, f>> : f \in ins1},
               {<<level + 1, f>> : f \in out})
      /\ nextFile' = nextFile + Cardinality(out)
      /\ compaction' = None
      /\ UNCHANGED <<written, mem, imm, snapshots, compactPointer, manual>>
  BY DEF InstallCompaction, level, ins0, ins1
<1>3. Ordered(written) /\ IsFiniteSet(written) /\ nextFile \in Nat \ {0} /\ LevelsOver(written)
  BY DEF LevelInv, HistoryOK, FilesOK
<1>4. Merged(c) \subseteq written
  <2>1. ins0 \cup ins1 \subseteq Tables(written)
    BY <1>1, <1>3, LevelTypes DEF Inputs, LevelsOver
  <2> QED
    BY <2>1 DEF Merged, Tables, ins0, ins1
<1>5. /\ out \subseteq Tables(written) /\ IsFiniteSet(out) /\ Apart(out)
      /\ \A f \in out : f.entries \subseteq Keep(c, Merged(c))
      /\ \A x \in Keep(c, Merged(c)) : \E f \in out : x \in f.entries
      /\ Cardinality(out) \in Nat
      /\ \A f \in out : f.number \in nextFile .. nextFile + Cardinality(out) - 1
      /\ \A f, g \in out : f.number = g.number => f = g
  BY <1>3, <1>4, OutputFacts
<1>6. From(out, ins0 \cup ins1)
  <2>1. \A x \in Keep(c, Merged(c)) : \E g \in ins0 \cup ins1 : x \in g.entries
    BY DEF Keep, Merged, ins0, ins1
  <2> QED
    BY <1>5, <2>1 DEF From
<1>7. levels' = Replaced(level, ins0, ins1, out) /\ fileToCompact' = None
  <2> DEFINE D == Edits(level, ins0) \cup Edits(level + 1, ins1)
             A == Edits(level + 1, out)
  <2>1. Apply(D, A)
    BY <1>2 DEF Edits
  <2>2. level # level + 1
    BY <1>1 DEF Inputs
  <2>3. \A l : At(D, l) = At(Edits(level, ins0), l) \cup At(Edits(level + 1, ins1), l)
    BY DEF At
  <2>4. \A l : At(D, l) = IF l = level THEN ins0 ELSE IF l = level + 1 THEN ins1 ELSE {}
    BY <2>2, <2>3, EditOf
  <2>5. \A l : At(A, l) = IF l = level + 1 THEN out ELSE {}
    BY EditOf
  <2> HIDE DEF D, A
  <2>6. \A l \in Levels : (levels[l] \ At(D, l)) \cup At(A, l)
          = IF l = level THEN levels[l] \ ins0
            ELSE IF l = level + 1 THEN (levels[l] \ ins1) \cup out
            ELSE levels[l]
    BY <2>2, <2>4, <2>5
  <2>7. /\ levels' = [l \in Levels |-> (levels[l] \ At(D, l)) \cup At(A, l)]
        /\ fileToCompact' = None
    BY <2>1, ApplyAt
  <2> QED
    BY <2>6, <2>7 DEF Replaced
<1> QED
  BY <1>1, <1>2, <1>4, <1>5, <1>6, <1>7 DEF level, ins0, ins1

LEMMA InstallStep ==
  ASSUME LevelInv, InstallCompaction
  PROVE  LevelInv'
<1> DEFINE c == compaction
           level == c.level
           ins0 == c.inputs0
           ins1 == c.inputs1
           out == Outputs(c)
           n == Cardinality(out)
<1>1. /\ Inputs(level, ins0, ins1)
      /\ levels' = Replaced(level, ins0, ins1, out)
      /\ nextFile' = nextFile + n
      /\ fileToCompact' = None /\ compaction' = None
      /\ UNCHANGED <<written, mem, imm, snapshots, compactPointer, manual>>
      /\ out \subseteq Tables(written) /\ IsFiniteSet(out) /\ Apart(out)
      /\ From(out, ins0 \cup ins1)
      /\ n \in Nat
      /\ \A f \in out : f.number \in nextFile .. nextFile + n - 1
      /\ \A f, g \in out : f.number = g.number => f = g
  BY InstallFacts
<1>2. compactPointer' \in [Levels -> written \cup {None}]
  BY <1>1 DEF LevelInv, ChoicesOK
<1> HIDE DEF level, ins0, ins1, out, n
<1>3. FilesOK'
  BY <1>1, ReplacedFilesOK
<1> QED
  BY <1>1, <1>2, <1>3, ReplacedStep

LEMMA LevelInvStep ==
  ASSUME LevelInv, GaplessRounds, [Next]_vars
  PROVE  LevelInv'
<1>1. CASE Put \/ Delete
  <2>1. \E k \in Keys, del \in BOOLEAN : Write(k, del)
    BY <1>1 DEF Put, Delete
  <2> QED
    BY <2>1, WriteStep
<1>2. CASE SwapMemTable
  BY <1>2, SwapMemTableStep
<1>3. CASE GetSnapshot \/ ReleaseSnapshot
  BY <1>3, SnapshotStep
<1>4. CASE ChargeSeek
  BY <1>4, ChargeSeekStep
<1>5. CASE CompactRange
  BY <1>5, CompactRangeStep
<1>6. CASE QueueManual
  BY <1>6, QueueManualStep
<1>7. CASE CompactMemTable
  BY <1>7, FlushStep
<1>8. CASE ManualCompaction
  BY <1>8, ManualCompactionStep
<1>9. CASE TrivialMove
  BY <1>9, TrivialMoveStep
<1>10. CASE StartCompaction
  BY <1>10, StartCompactionStep
<1>11. CASE InstallCompaction
  BY <1>11, InstallStep
<1>12. CASE UNCHANGED vars
  <2>1. ManualOK'
    BY <1>12 DEF LevelInv, ChoicesOK, ManualOK, vars
  <2> QED
    BY <1>12, <2>1, OnlyManual DEF vars
<1> QED
  BY <1>1, <1>2, <1>3, <1>4, <1>5, <1>6, <1>7, <1>8, <1>9, <1>10, <1>11, <1>12 DEF Next

-----------------------------------------------------------------------------
(***************************************************************************)
(* The entries a read must find are not dropped.                           *)
(***************************************************************************)
LEMMA NothingLostWrite ==
  ASSUME LevelInv, NothingLost, NEW k \in Keys, Write(k, FALSE)
  PROVE  NothingLost'
<1>0. PICK e : e = [key |-> k, seq |-> LastSequence + 1, del |-> FALSE]
  OBVIOUS
<1>1. /\ LastSequence < MaxSeq
      /\ written' = written \cup {e} /\ mem' = mem \cup {e}
      /\ UNCHANGED <<imm, snapshots, levels>>
  BY <1>0 DEF Write
<1>2. HistoryOK
  BY DEF LevelInv
<1>3. LastSequence' = LastSequence + 1
  <2>1. FALSE \in BOOLEAN
    OBVIOUS
  <2> QED
    BY <1>0, <1>1, <1>2, <2>1, WriteAddsOne
<1>4. /\ LastSequence \in Nat
      /\ \A x \in written : x.seq \in 1 .. LastSequence
      /\ \A s \in snapshots : s \in Nat /\ s <= LastSequence
  BY <1>2, LastSequenceFacts
<1>5. \A x \in written' : ~x.del
  BY <1>0, <1>1 DEF NothingLost
<1>6. \A x \in written : Stored(x) => Stored(x)'
  BY <1>1 DEF Stored
<1>7. Stored(e)'
  BY <1>1 DEF Stored
<1>8. ASSUME NEW x \in written, NEW s \in snapshots \cup {LastSequence + 1}, Latest(x, s)'
      PROVE  \E t \in snapshots \cup {LastSequence} : Latest(x, t)
  <2>1. CASE s \in snapshots
    BY <1>1, <1>8, <2>1 DEF Latest
  <2>2. CASE s = LastSequence + 1
    <3>1. Latest(x, LastSequence)
      <4>1. \A y \in written : y.key = x.key => y.seq <= x.seq
        BY <1>1, <1>4, <1>8, <2>2 DEF Latest
      <4> QED
        BY <1>4, <4>1 DEF Latest
    <3> QED
      BY <3>1
  <2> QED
    BY <2>1, <2>2
<1>9. ASSUME NEW x \in written', NEW s \in snapshots' \cup {LastSequence'}, Latest(x, s)'
      PROVE  Stored(x)'
  <2>1. CASE x \in written
    <3>1. s \in snapshots \cup {LastSequence + 1}
      BY <1>1, <1>3
    <3>2. \E t \in snapshots \cup {LastSequence} : Latest(x, t)
      BY <1>8, <1>9, <2>1, <3>1
    <3>3. Stored(x)
      BY <2>1, <3>2 DEF NothingLost
    <3> QED
      BY <1>6, <2>1, <3>3
  <2>2. CASE x = e
    BY <1>7, <2>2
  <2> QED
    BY <1>1, <2>1, <2>2
<1> QED
  BY <1>5, <1>9 DEF NothingLost

\* Every other step need only keep what is stored and must be found.
LEMMA NothingLostKept ==
  ASSUME NothingLost, written' = written, snapshots' \subseteq snapshots \cup {LastSequence},
         \A e \in written, s \in snapshots \cup {LastSequence} :
           Latest(e, s) /\ Stored(e) => Stored(e)'
  PROVE  NothingLost'
<1>1. LastSequence' = LastSequence
  BY DEF LastSequence
<1>2. \A e, s : Latest(e, s)' <=> Latest(e, s)
  BY DEF Latest
<1>3. ASSUME NEW e \in written', NEW s \in snapshots' \cup {LastSequence'}, Latest(e, s)'
      PROVE  Stored(e)'
  BY <1>1, <1>2, <1>3 DEF NothingLost
<1> QED
  BY <1>3 DEF NothingLost

\* An entry that some held snapshot reads is kept by a compaction.
LEMMA LatestKept ==
  ASSUME LevelInv, NothingLost, compaction # None, NEW c, c = compaction, Merged(c) \subseteq written,
         NEW e \in Merged(c), NEW s \in snapshots \cup {LastSequence}, Latest(e, s)
  PROVE  e \in Keep(c, Merged(c))
<1> DEFINE newer == Previous(Merged(c), e)
<1>1. ~e.del
  BY DEF NothingLost
<1>2. Ordered(written) /\ c.smallestSnapshot \in Nat /\ c.smallestSnapshot <= s /\ s \in Nat
  BY LastSequenceFacts DEF LevelInv, HistoryOK, CompactionOK
<1>3. ASSUME newer # None, newer.key = e.key, newer.seq <= c.smallestSnapshot
      PROVE  FALSE
  <2> DEFINE A == [entries |-> Above(Merged(c), e)]
  <2>1. newer = Largest(A) /\ A.entries # {}
    BY <1>3 DEF Previous
  <2>2. A.entries \subseteq written /\ \A x \in A.entries : Before(x, e)
    BY DEF Above
  <2> HIDE DEF A, newer
  <2>3. newer \in A.entries
    BY <1>2, <2>1, <2>2, LargestOf
  <2>4. newer \in written /\ Before(newer, e) /\ e \in written
    BY <2>2, <2>3
  <2>5. newer.seq \in Nat /\ e.seq \in Nat /\ e.key \in Nat
    BY <1>2, <2>4, EntryTypes DEF Ordered
  <2>6. newer.seq > e.seq
    BY <1>3, <2>4, <2>5 DEF Before
  <2>7. newer.seq <= s
    BY <1>2, <1>3, <2>5
  <2> QED
    BY <1>3, <2>4, <2>5, <2>6, <2>7 DEF Latest
<1>4. ~Dropped(c, e, newer)
  BY <1>1, <1>3 DEF Dropped
<1> QED
  BY <1>4 DEF Keep

LEMMA NothingLostInstall ==
  ASSUME LevelInv, NothingLost, InstallCompaction
  PROVE  NothingLost'
<1> DEFINE c == compaction
           level == c.level
           ins0 == c.inputs0
           ins1 == c.inputs1
           out == Outputs(c)
<1>1. /\ Inputs(level, ins0, ins1)
      /\ levels' = Replaced(level, ins0, ins1, out)
      /\ UNCHANGED <<written, mem, imm, snapshots>>
      /\ Merged(c) \subseteq written
      /\ \A x \in Keep(c, Merged(c)) : \E f \in out : x \in f.entries
  BY InstallFacts
<1>2. compaction # None
  BY DEF InstallCompaction
<1> SUFFICES ASSUME NEW e \in written, NEW s \in snapshots \cup {LastSequence}, Latest(e, s), Stored(e)
             PROVE  Stored(e)'
  BY <1>1, NothingLostKept
<1>3. level \in Levels /\ level + 1 \in Levels /\ level # level + 1
  BY <1>1, LevelTypes DEF Inputs
<1>4. \A l \in Levels : levels'[l] = IF l = level THEN levels[l] \ ins0
                                     ELSE IF l = level + 1 THEN (levels[l] \ ins1) \cup out
                                     ELSE levels[l]
  BY <1>1 DEF Replaced
<1>5. CASE e \in Merged(c)
  <2>1. e \in Keep(c, Merged(c))
    BY <1>1, <1>2, <1>5, LatestKept
  <2>2. PICK f \in out : e \in f.entries
    BY <1>1, <2>1
  <2>3. f \in levels'[level + 1]
    BY <1>3, <1>4
  <2> QED
    BY <1>3, <2>2, <2>3 DEF Stored
<1>6. CASE e \in mem \/ e \in imm
  BY <1>1, <1>6 DEF Stored
<1>7. CASE e \notin Merged(c) /\ ~(e \in mem \/ e \in imm)
  <2>1. PICK l \in Levels : \E g \in levels[l] : e \in g.entries
    BY <1>7 DEF Stored
  <2>2. PICK f \in levels[l] : e \in f.entries
    BY <2>1
  <2>3. f \notin ins0 /\ f \notin ins1
    BY <1>7, <2>2 DEF Merged
  <2>4. f \in levels'[l]
    BY <1>4, <2>3
  <2> QED
    BY <2>4, <2>2 DEF Stored
<1> QED
  BY <1>5, <1>6, <1>7

LEMMA NothingLostFlush ==
  ASSUME LevelInv, NothingLost, CompactMemTable
  PROVE  NothingLost'
<1> DEFINE f == Flushed
           L == FlushLevel
<1> HIDE DEF f, L
<1>1. /\ f.entries = imm /\ L \in Levels
      /\ levels' = [l \in Levels |-> IF l = L THEN levels[l] \cup {f} ELSE levels[l]]
      /\ UNCHANGED <<written, mem, snapshots>>
  BY FlushFacts DEF f, L
<1>2. \A l \in Levels : levels[l] \subseteq levels'[l]
  BY <1>1
<1>3. f \in levels'[L]
  BY <1>1
<1>4. \A e : Stored(e) => Stored(e)'
  BY <1>1, <1>2, <1>3 DEF Stored
<1> QED
  BY <1>1, <1>4, NothingLostKept

LEMMA NothingLostMove ==
  ASSUME LevelInv, NothingLost, TrivialMove
  PROVE  NothingLost'
<1>1. PICK level, f : /\ Inputs(level, {f}, {})
                      /\ levels' = Replaced(level, {f}, {}, {f})
  BY TrivialMoveFacts
<1>2. UNCHANGED <<written, mem, imm, snapshots>>
  BY DEF TrivialMove
<1>3. level \in Levels /\ level + 1 \in Levels /\ level # level + 1
  BY <1>1, LevelTypes DEF Inputs
<1>4. f \in levels'[level + 1]
  BY <1>1, <1>3 DEF Replaced
<1>5. \A l \in Levels : \A g \in levels[l] : g = f \/ g \in levels'[l]
  BY <1>1 DEF Replaced
<1>6. \A e : Stored(e) => Stored(e)'
  BY <1>2, <1>3, <1>4, <1>5 DEF Stored
<1> QED
  BY <1>2, <1>6, NothingLostKept

LEMMA NothingLostStep ==
  ASSUME LevelInv, NothingLost, Deletes = FALSE, [Next]_vars
  PROVE  NothingLost'
<1>1. CASE Put
  <2>1. \E k \in Keys : Write(k, FALSE)
    BY <1>1 DEF Put
  <2> QED
    BY <2>1, NothingLostWrite
<1>2. CASE Delete
  BY <1>2 DEF Delete
<1>3. CASE SwapMemTable
  <2>1. \A e : Stored(e) => Stored(e)'
    BY <1>3 DEF Stored, SwapMemTable
  <2> QED
    BY <1>3, <2>1, NothingLostKept DEF SwapMemTable
<1>4. CASE \/ GetSnapshot
           \/ ReleaseSnapshot
           \/ ChargeSeek
           \/ CompactRange
           \/ QueueManual
           \/ ManualCompaction
           \/ StartCompaction
           \/ UNCHANGED vars
  <2>1. /\ UNCHANGED <<written, mem, imm, levels>>
        /\ snapshots' \subseteq snapshots \cup {LastSequence}
    BY <1>4 DEF GetSnapshot, ReleaseSnapshot, ChargeSeek, CompactRange, QueueManual,
                ManualCompaction, StartCompaction, vars
  <2>2. \A e : Stored(e) => Stored(e)'
    BY <2>1 DEF Stored
  <2> QED
    BY <2>1, <2>2, NothingLostKept
<1>5. CASE CompactMemTable
  BY <1>5, NothingLostFlush
<1>6. CASE TrivialMove
  BY <1>6, NothingLostMove
<1>7. CASE InstallCompaction
  BY <1>7, NothingLostInstall
<1> QED
  BY <1>1, <1>2, <1>3, <1>4, <1>5, <1>6, <1>7 DEF Next

-----------------------------------------------------------------------------
(***************************************************************************)
(* A read finds what it must.                                              *)
(***************************************************************************)
\* The newest of the entries a read may return, and of those of a part.
LEMMA NewestFacts ==
  ASSUME HistoryOK, NEW A, A \subseteq written, NEW k, NEW s, NEW n \in A,
         n \in Hits(written, k, s), \A x \in Hits(written, k, s) : x.seq <= n.seq
  PROVE  Hits(A, k, s) # {} /\ Newest(Hits(A, k, s)) = n
<1>1. n \in Hits(A, k, s) /\ Hits(A, k, s) \subseteq Hits(written, k, s)
  BY DEF Hits
<1>2. \A x \in Hits(A, k, s) : x \in written /\ x.seq <= n.seq
  BY <1>1 DEF Hits
<1>3. ASSUME NEW y \in Hits(A, k, s), \A x \in Hits(A, k, s) : x.seq <= y.seq
      PROVE  y = n
  <2>1. n.seq <= y.seq /\ y.seq <= n.seq /\ y \in written /\ n \in written
    BY <1>1, <1>2, <1>3
  <2>2. n.seq \in Nat /\ y.seq \in Nat
    BY <2>1, EntryTypes DEF HistoryOK, Ordered
  <2> QED
    BY <2>1, <2>2 DEF HistoryOK, Ordered
<1> QED
  BY <1>1, <1>2, <1>3 DEF Newest

LEMMA HasNewest ==
  ASSUME HistoryOK, NEW k, NEW s, Hits(written, k, s) # {}
  PROVE  \E n \in Hits(written, k, s) : \A x \in Hits(written, k, s) : x.seq <= n.seq
<1> DEFINE H == Hits(written, k, s)
           Q == {x.seq : x \in H}
<1>1. H \subseteq written /\ H # {}
  BY DEF Hits
<1> HIDE DEF H
<1>2. \A x \in H : x.seq \in 0 .. MaxSeq
  BY <1>1, EntryTypes, SizesAssumption DEF HistoryOK, Ordered
<1>3. PICK q \in Q : \A r \in Q : r <= q
  <2>1. Q \subseteq 0 .. MaxSeq /\ Q # {} /\ MaxSeq \in Nat
    BY <1>1, <1>2, SizesAssumption
  <2> HIDE DEF Q
  <2> QED
    BY <2>1, GreatestNumber
<1>4. PICK n \in H : n.seq = q
  OBVIOUS
<1>5. \A x \in H : x.seq <= n.seq
  BY <1>3, <1>4
<1> QED
  BY <1>4, <1>5 DEF H

\* An entry that a read may return and that is newer than the newest.
LEMMA NoneNewer ==
  ASSUME HistoryOK, NEW k, NEW s, NEW n \in Hits(written, k, s),
         \A x \in Hits(written, k, s) : x.seq <= n.seq,
         NEW A, NEW B, A \subseteq written, NewerThan(A, B), n \in B
  PROVE  Hits(A, k, s) = {}
<1>1. SUFFICES ASSUME NEW x \in Hits(A, k, s) PROVE FALSE
  OBVIOUS
<1>2. x \in A /\ x \in written /\ x \in Hits(written, k, s) /\ x.key = n.key /\ n \in written
  BY DEF Hits
<1>3. x.seq > n.seq /\ x.seq <= n.seq
  BY <1>2 DEF NewerThan
<1>4. x.seq \in Nat /\ n.seq \in Nat
  BY <1>2, EntryTypes DEF HistoryOK, Ordered
<1> QED
  BY <1>3, <1>4

\* FindFile finds the file of the newest.
LEMMA FoundInLevel ==
  ASSUME LevelInv, NEW k, NEW s, NEW n \in Hits(written, k, s),
         \A x \in Hits(written, k, s) : x.seq <= n.seq, s \in Nat,
         NEW l \in Levels, l # 0, NEW f \in levels[l], n \in f.entries
  PROVE  f \in FilesAt(levels[l], [key |-> k, seq |-> s])
<1> DEFINE ikey == [key |-> k, seq |-> s]
           R == Reaching(levels[l], ikey)
<1>1. /\ Ordered(written) /\ levels[l] \subseteq Tables(written) /\ Apart(levels[l])
  BY DEF LevelInv, HistoryOK, FilesOK, LevelsOver
<1>2. n \in written /\ n.key = k /\ n.seq <= s
  BY DEF Hits
<1>3. \A g \in levels[l] : /\ Smallest(g) \in written /\ Largest(g) \in written
                           /\ \A x \in g.entries : ~Before(x, Smallest(g)) /\ ~Before(Largest(g), x)
  BY <1>1, Ends
<1>4. \A x \in written : x.key \in Nat /\ x.seq \in Nat
  BY <1>1, EntryTypes DEF Ordered
<1>5. f \in R
  <2>1. ~Before(Largest(f), n)
    BY <1>3
  <2>2. ~Before(Largest(f), ikey)
    BY <1>2, <1>3, <1>4, <2>1 DEF Before
  <2> QED
    BY <2>2 DEF Reaching
<1>6. R \subseteq levels[l] /\ R \subseteq Tables(written)
  BY <1>1 DEF Reaching
<1>7. PICK g \in R : \A h \in R : ~Comes(h, g)
  BY <1>1, <1>5, <1>6, FirstComes
<1>8. ASSUME NEW h \in R, \A i \in R : ~Comes(i, h)
      PROVE  h = f
  <2>1. SUFFICES ASSUME h # f PROVE FALSE
    OBVIOUS
  <2>2. h \in levels[l] /\ ~Before(Largest(h), ikey)
    BY DEF Reaching
  <2>3. ~Before(Smallest(f), Smallest(h))
    BY <1>5, <1>8 DEF Comes
  <2>4. Before(Largest(h), Smallest(f))
    <3>1. Before(Largest(h), Smallest(f)) \/ Before(Largest(f), Smallest(h))
      BY <1>1, <2>1, <2>2 DEF Apart
    <3>2. ~Before(Largest(f), Smallest(h))
      <4>1. ~Before(Largest(f), Smallest(f))
        BY <1>1, <1>3, Ends
      <4> QED
        BY <1>1, <1>3, <2>2, <2>3, <4>1, BeforeIsOrder
    <3> QED
      BY <3>1, <3>2
  <2>5. ~Before(n, Smallest(f))
    BY <1>3
  <2>6. Before(Largest(h), n)
    BY <1>1, <1>2, <1>3, <2>2, <2>4, <2>5, BeforeIsOrder
  <2>7. Largest(h).key = k /\ Largest(h).seq <= s /\ Largest(h).seq > n.seq
    BY <1>2, <1>3, <1>4, <2>2, <2>6 DEF Before
  <2>8. Largest(h) \in Hits(written, k, s)
    BY <1>3, <2>2, <2>7 DEF Hits
  <2> QED
    BY <1>2, <1>3, <1>4, <2>2, <2>7, <2>8
<1>9. FirstOf(R) = f
  <2> HIDE DEF R
  <2> QED
    BY <1>7, <1>8 DEF FirstOf
<1>10. Smallest(f).key <= k
  <2>1. ~Before(n, Smallest(f))
    BY <1>3
  <2> QED
    BY <1>2, <1>3, <1>4, <2>1 DEF Before
<1> QED
  BY <1>5, <1>9, <1>10 DEF FilesAt

LEMMA FoundVisited ==
  ASSUME LevelInv, NEW k, NEW s, NEW n \in Hits(written, k, s),
         \A x \in Hits(written, k, s) : x.seq <= n.seq, s \in Nat,
         NEW l \in Levels, NEW f \in levels[l], n \in f.entries
  PROVE  <<l, f>> \in Visited(k, s)
<1>1. CASE l = 0
  <2>1. Ordered(written) /\ f \in Tables(written)
    BY DEF LevelInv, HistoryOK, FilesOK, LevelsOver
  <2>2. /\ ~Before(n, Smallest(f)) /\ ~Before(Largest(f), n)
        /\ Smallest(f).key \in Nat /\ Largest(f).key \in Nat /\ n \in written /\ n.key = k
    BY <2>1, Ends DEF Hits
  <2>3. n.key \in Nat
    BY <2>1, <2>2, EntryTypes DEF Ordered
  <2>4. f \in Overlapping(levels[0], k, k)
    BY <1>1, <2>2, <2>3 DEF Overlapping, Meets, Before
  <2> QED
    BY <1>1, <2>4 DEF Visited
<1>2. CASE l # 0
  <2>1. f \in FilesAt(levels[l], [key |-> k, seq |-> s])
    BY <1>2, FoundInLevel
  <2>2. l \in 1 .. NumLevels - 1
    BY <1>2, LevelTypes DEF Levels
  <2> QED
    BY <2>1, <2>2 DEF Visited
<1> QED
  BY <1>1, <1>2

\* The first visited file that has the key at all has its newest entry.
LEMMA FoundFirst ==
  ASSUME LevelInv, NEW k, NEW s, NEW n \in Hits(written, k, s),
         \A x \in Hits(written, k, s) : x.seq <= n.seq, s \in Nat,
         NEW l \in Levels, NEW f \in levels[l], n \in f.entries
  PROVE  FileHits(k, s) # {} /\ Newest(FileHits(k, s)) = n
<1> DEFINE V == {p \in Visited(k, s) : Hits(p[2].entries, k, s) # {}}
<1>1. HistoryOK /\ FilesOK /\ TablesNewer
  BY DEF LevelInv
<1>2. \A m \in Levels : \A g \in levels[m] : g.entries \subseteq written
  BY <1>1 DEF FilesOK, LevelsOver, Tables
<1>3. <<l, f>> \in V
  <2>1. <<l, f>> \in Visited(k, s)
    BY FoundVisited
  <2>2. n \in Hits(f.entries, k, s)
    BY DEF Hits
  <2> QED
    BY <2>1, <2>2
<1>4. /\ \A p \in V : p = <<p[1], p[2]>> /\ p[1] \in Levels /\ p[2] \in levels[p[1]]
                      /\ Hits(p[2].entries, k, s) # {}
      /\ \A p, q \in V : p[1] = q[1] /\ p[1] # 0 => p = q
  BY VisitedFacts
<1>5. FileHits(k, s) = HitsOf(V, k, s)
  BY DEF FileHits
<1> HIDE DEF V
<1> DEFINE p == FirstVisited(V)
<1>6. p \in V /\ \A q \in V : ~Earlier(q, p)
  BY <1>1, <1>3, <1>4, FirstVisitedFacts
<1>7. FileHits(k, s) = Hits(p[2].entries, k, s)
  BY <1>3, <1>5 DEF HitsOf
<1> HIDE DEF p
<1>8. p[1] \in Levels /\ p[2] \in levels[p[1]] /\ Hits(p[2].entries, k, s) # {} /\ p = <<p[1], p[2]>>
  BY <1>4, <1>6
<1>9. ~Earlier(<<l, f>>, p)
  BY <1>3, <1>6
<1>10. ~(NewerThan(p[2].entries, f.entries))
  <2>1. p[2].entries \subseteq written
    BY <1>2, <1>8
  <2> QED
    BY <1>1, <1>8, <2>1, NoneNewer
<1>11. p[2] = f
  <2>1. l \in Nat /\ p[1] \in Nat
    BY <1>8 DEF Levels
  <2>2. CASE p[1] < l
    <3>1. NewerThan(p[2].entries, f.entries)
      BY <1>1, <1>8, <2>2 DEF TablesNewer
    <3> QED
      BY <1>10, <3>1
  <2>3. CASE p[1] = l /\ l # 0
    <3>1. <<l, f>>[1] = l /\ <<l, f>>[2] = f
      OBVIOUS
    <3>2. p = <<l, f>>
      BY <1>3, <1>4, <1>6, <2>3, <3>1
    <3> QED
      BY <3>2
  <2>4. CASE p[1] = 0 /\ l = 0
    <3>1. ~(f.number > p[2].number)
      BY <1>9, <2>4 DEF Earlier
    <3>2. f.number \in Nat /\ p[2].number \in Nat
      BY <1>1, <1>8 DEF FilesOK
    <3>3. f.number = p[2].number => p[2] = f
      BY <1>1, <1>8, <2>4 DEF FilesOK
    <3>4. p[2].number > f.number => NewerThan(p[2].entries, f.entries)
      BY <1>1, <1>8, <2>4 DEF TablesNewer
    <3> QED
      BY <1>10, <3>1, <3>2, <3>3, <3>4
  <2>5. ~(l < p[1])
    BY <1>9 DEF Earlier
  <2> QED
    BY <2>1, <2>2, <2>3, <2>4, <2>5
<1>12. f.entries \subseteq written
  BY <1>2
<1> QED
  BY <1>1, <1>7, <1>11, <1>12, NewestFacts

LEMMA ReadFacts ==
  ASSUME LevelInv, NothingLost
  PROVE  ReadsSnapshot
<1>1. HistoryOK /\ TablesNewer /\ mem \subseteq written /\ imm \subseteq written
  BY DEF LevelInv, HistoryOK
<1>2. SUFFICES ASSUME NEW k \in Keys, NEW s \in snapshots \cup {LastSequence}
               PROVE  Get(k, s) = Answer(k, s)
  BY DEF ReadsSnapshot
<1>3. s \in Nat
  BY <1>1, LastSequenceFacts
<1> DEFINE H == Hits(written, k, s)
<1>4. CASE H = {}
  <2>1. \A A : A \subseteq written => Hits(A, k, s) = {}
    BY <1>4 DEF Hits
  <2>2. \A p \in Visited(k, s) : p[2].entries \subseteq written
    <3>1. \A l \in Levels : \A f \in levels[l] : f.entries \subseteq written
      BY DEF LevelInv, FilesOK, LevelsOver, Tables
    <3> QED
      BY <3>1, VisitedFacts
  <2>3. FileHits(k, s) = {}
    <3>1. {p \in Visited(k, s) : Hits(p[2].entries, k, s) # {}} = {}
      BY <2>1, <2>2
    <3> QED
      BY <3>1 DEF FileHits, HitsOf
  <2>4. Hits(mem, k, s) = {} /\ Hits(imm, k, s) = {}
    BY <1>1, <2>1
  <2> QED
    BY <1>4, <2>3, <2>4 DEF Get, Answer, Found
<1>5. CASE H # {}
  <2>1. PICK n \in H : \A x \in H : x.seq <= n.seq
    BY <1>1, <1>5, HasNewest
  <2>2. n \in written /\ n.key = k /\ n.seq <= s
    BY DEF Hits
  <2>3. Newest(H) = n
    BY <1>1, <2>1, <2>2, NewestFacts
  <2>4. Stored(n)
    <3>1. Latest(n, s)
      BY <2>1, <2>2 DEF Latest, Hits
    <3> QED
      BY <2>2, <3>1 DEF NothingLost
  <2>5. CASE n \in mem
    <3>1. Hits(mem, k, s) # {} /\ Newest(Hits(mem, k, s)) = n
      BY <1>1, <2>1, <2>5, NewestFacts
    <3> QED
      BY <1>5, <2>3, <3>1 DEF Get, Answer, Found
  <2>6. CASE n \in imm
    <3>1. NewerThan(mem, imm)
      BY <1>1 DEF TablesNewer
    <3>2. Hits(mem, k, s) = {}
      BY <1>1, <2>1, <2>6, <3>1, NoneNewer
    <3>3. Hits(imm, k, s) # {} /\ Newest(Hits(imm, k, s)) = n
      BY <1>1, <2>1, <2>6, NewestFacts
    <3> QED
      BY <1>5, <2>3, <3>2, <3>3 DEF Get, Answer, Found
  <2>7. CASE \E l \in Levels : \E f \in levels[l] : n \in f.entries
    <3>1. PICK l \in Levels : \E f \in levels[l] : n \in f.entries
      BY <2>7
    <3>2. PICK f \in levels[l] : n \in f.entries
      BY <3>1
    <3>3. NewerThan(mem, f.entries) /\ NewerThan(imm, f.entries)
      BY <1>1 DEF TablesNewer
    <3>4. Hits(mem, k, s) = {} /\ Hits(imm, k, s) = {}
      BY <1>1, <2>1, <3>2, <3>3, NoneNewer
    <3>5. FileHits(k, s) # {} /\ Newest(FileHits(k, s)) = n
      BY <1>3, <2>1, <3>2, FoundFirst
    <3> QED
      BY <1>5, <2>3, <3>4, <3>5 DEF Get, Answer, Found
  <2> QED
    BY <2>4, <2>5, <2>6, <2>7 DEF Stored
<1> QED
  BY <1>4, <1>5

-----------------------------------------------------------------------------
(***************************************************************************)
(* The theorems.  GaplessRounds is what a manual compaction must respect:  *)
(* a range of a client may leave a gap into which a flush then puts a      *)
(* table, below the compaction that is at work around it.                  *)
(***************************************************************************)
\* What LevelInv says of the types, as the runs check it.
LEMMA LevelsExactFacts ==
  ASSUME LevelInv
  PROVE  LevelsExact
<1>1. HistoryOK /\ FilesOK /\ ChoicesOK
  BY DEF LevelInv
<1>2. \A l \in Levels : \A f \in levels[l] :
        f.number \in 1 .. nextFile - 1 /\ f.entries \subseteq written /\ f.entries # {}
  BY <1>1 DEF FilesOK, LevelsOver, Tables
<1>3. TypeOK
  BY <1>1, <1>2 DEF TypeOK, HistoryOK, Ordered, FilesOK, ChoicesOK, FileToCompactOK
<1>4. DisjointLevels
  BY <1>1, LevelTypes DEF FilesOK, LevelsOver, Apart, DisjointLevels, Levels
<1> QED
  BY <1>3, <1>4 DEF LevelsExact

LEMMA AlwaysLevelInv == Spec /\ []GaplessRounds => []LevelInv
<1>1. Init => LevelInv
  BY InitLevelInv
<1>2. LevelInv /\ GaplessRounds /\ [Next]_vars => LevelInv'
  BY LevelInvStep
<1> QED
  BY <1>1, <1>2, PTL DEF Spec

\* VersionEdit, Version: while no manual round leaves a gap, file numbers are
\* unique, tables are whole and below level 0 the tables of a level never
\* overlap, whatever is flushed while a compaction runs.
THEOREM AlwaysLevelsExact == Spec /\ []GaplessRounds => []LevelsExact
BY AlwaysLevelInv, LevelsExactFacts, PTL

\* "Entries never hop across levels": what a read meets first is newer,
\* deletions included.
THEOREM AlwaysNewerFirst == Spec /\ []GaplessRounds => []NewerFirst
<1>1. LevelInv => NewerFirst
  BY TablesNewerFirst DEF LevelInv
<1> QED
  BY <1>1, AlwaysLevelInv, PTL

\* A client that never deletes reads, through every flush, move, merge and
\* drop, the newest write of a key at or before every snapshot it holds.
THEOREM AlwaysReadsSnapshot ==
  ASSUME Deletes = FALSE
  PROVE  Spec /\ []GaplessRounds => []ReadsSnapshot
<1>1. Init => NothingLost
  BY InitLevelInv
<1>2. LevelInv /\ NothingLost /\ [Next]_vars => NothingLost'
  BY NothingLostStep
<1>3. LevelInv /\ NothingLost => ReadsSnapshot
  BY ReadFacts
<1> QED
  BY <1>1, <1>2, <1>3, AlwaysLevelInv, PTL DEF Spec

\* Without manual compactions nothing is assumed.
LEMMA NoManualRounds ==
  ASSUME Ranges = {}
  PROVE  Spec => []GaplessRounds
<1>1. Init => manual = None
  BY DEF Init
<1>2. manual = None /\ [Next]_vars => (manual = None)'
  BY DEF Next, vars, Put, Delete, Write, SwapMemTable, GetSnapshot, ReleaseSnapshot, ChargeSeek,
         CompactRange, QueueManual, CompactMemTable, ManualCompaction, Queued, TrivialMove,
         StartCompaction, InstallCompaction
<1>3. manual = None => GaplessRounds
  BY DEF GaplessRounds
<1> QED
  BY <1>1, <1>2, <1>3, PTL DEF Spec

\* The background thread alone, with no client that compacts by hand, keeps
\* the levels sorted and what is newer first.
THEOREM AutomaticCompactionsSafe ==
  ASSUME Ranges = {}
  PROVE  Spec => [](LevelsExact /\ NewerFirst)
BY NoManualRounds, AlwaysLevelsExact, AlwaysNewerFirst, PTL
=============================================================================
