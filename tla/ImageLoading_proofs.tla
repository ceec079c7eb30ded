------------------------ MODULE ImageLoading_proofs ------------------------
(***************************************************************************)
(* TLAPS proofs about ImageLoading, for every set of views, users, URLs    *)
(* and requests: the invariants the runs check, by the inductive invariant *)
(* IInv, and the refinement of AvatarSlots.                                *)
(***************************************************************************)
EXTENDS ImageLoading, TLAPS

-----------------------------------------------------------------------------
(***************************************************************************)
(* The main queue as a set of blocks.                                      *)
(***************************************************************************)

\* Appending an element to a sequence adds it to the elements of the sequence.
LEMMA ElementsOfAppend ==
    ASSUME NEW S, NEW q \in Seq(S), NEW e \in S
    PROVE  {Append(q, e)[i] : i \in DOMAIN Append(q, e)} = {q[i] : i \in DOMAIN q} \cup {e}
<1>1. /\ Append(q, e) \in Seq(S)
      /\ Len(Append(q, e)) = Len(q) + 1
      /\ Append(q, e)[Len(q) + 1] = e
      /\ \A i \in 1 .. Len(q) : Append(q, e)[i] = q[i]
  OBVIOUS
<1>2. /\ DOMAIN q = 1 .. Len(q)
      /\ DOMAIN Append(q, e) = 1 .. Len(q) + 1
      /\ Len(q) \in Nat
  BY <1>1
<1>3. 1 .. Len(q) + 1 = (1 .. Len(q)) \cup {Len(q) + 1}
  BY <1>2
<1>. QED
  BY <1>1, <1>2, <1>3

\* The elements of a nonempty sequence are its head and the elements of its tail.
LEMMA ElementsOfTail ==
    ASSUME NEW S, NEW q \in Seq(S), q # <<>>
    PROVE  /\ Head(q) \in S
           /\ Tail(q) \in Seq(S)
           /\ {q[i] : i \in DOMAIN q} = {Head(q)} \cup {Tail(q)[i] : i \in DOMAIN Tail(q)}
<1>1. /\ Head(q) = q[1] /\ Head(q) \in S
      /\ Tail(q) \in Seq(S)
      /\ Len(Tail(q)) = Len(q) - 1
      /\ Len(q) \in Nat /\ Len(q) >= 1
      /\ \A i \in 1 .. Len(q) - 1 : Tail(q)[i] = q[i + 1]
  OBVIOUS
<1>2. /\ DOMAIN q = 1 .. Len(q)
      /\ DOMAIN Tail(q) = 1 .. Len(q) - 1
  BY <1>1
<1>3. ASSUME NEW i \in 1 .. Len(q), i # 1
      PROVE  \E j \in 1 .. Len(q) - 1 : q[i] = Tail(q)[j]
  <2>1. i - 1 \in 1 .. Len(q) - 1 /\ Tail(q)[i - 1] = q[i]
    BY <1>1, <1>3
  <2>. QED
    BY <2>1
<1>4. ASSUME NEW j \in 1 .. Len(q) - 1
      PROVE  \E i \in 1 .. Len(q) : q[i] = Tail(q)[j]
  <2>1. j + 1 \in 1 .. Len(q) /\ Tail(q)[j] = q[j + 1]
    BY <1>1, <1>4
  <2>. QED
    BY <2>1
<1>5. 1 \in 1 .. Len(q)
  BY <1>1
<1>6. ASSUME NEW e
      PROVE  e \in {q[i] : i \in DOMAIN q}
             <=> e \in {Head(q)} \cup {Tail(q)[i] : i \in DOMAIN Tail(q)}
  <2>1. ASSUME NEW i \in 1 .. Len(q), e = q[i]
        PROVE  e = Head(q) \/ \E j \in 1 .. Len(q) - 1 : e = Tail(q)[j]
    BY <1>1, <1>3, <2>1
  <2>2. ASSUME NEW j \in 1 .. Len(q) - 1, e = Tail(q)[j]
        PROVE  \E i \in 1 .. Len(q) : e = q[i]
    BY <1>4, <2>2
  <2>3. e = Head(q) => \E i \in 1 .. Len(q) : e = q[i]
    BY <1>1, <1>5
  <2>. QED
    BY <1>2, <2>1, <2>2, <2>3
<1>. QED
  BY <1>1, <1>6

-----------------------------------------------------------------------------
(***************************************************************************)
(* Type correctness.                                                       *)
(***************************************************************************)

\* A read of the cache returns a picture or a miss, even when it overlaps a write.
LEMMA CacheReadType ==
    ASSUME TypeOK, NEW k \in Urls
    PROVE  CacheRead(k) \subseteq Images
BY DEF TypeOK, CacheRead, Images, Store

LEMMA InitTypeOK == Init => TypeOK
<1>1. Init => mainQueue \in Seq(Block)
  BY DEF Init
<1>2. Init => /\ loads \subseteq Load /\ storing \subseteq Store /\ failed \subseteq Views
              /\ crashed \in BOOLEAN
  BY DEF Init
<1>3. Init => /\ user \in [Views -> Users \cup {NoUser}]
              /\ text \in [Views -> Users \cup {NoUser}]
              /\ shown \in [Views -> Images]
              /\ imageCache \in [Urls -> Images]
              /\ wanted \in [Views -> SUBSET Urls]
  BY DEF Init, Images
<1>. QED
  BY <1>1, <1>2, <1>3 DEF TypeOK

LEMMA NextTypeOK == TypeOK /\ [Next]_vars => TypeOK'
<1>. SUFFICES ASSUME TypeOK, [Next]_vars
              PROVE  TypeOK'
  OBVIOUS
<1>. USE UrlsAssumption
<1>1. ASSUME NEW v \in Views, NEW u \in Users, SetUser(v, u)
      PROVE  /\ user' \in [Views -> Users \cup {NoUser}]
             /\ text' \in [Views -> Users \cup {NoUser}]
  BY <1>1 DEF SetUser, TypeOK
<1>2. ASSUME NEW v \in Views, NEW k \in Urls, Want(v, k)
      PROVE  wanted' \in [Views -> SUBSET Urls] /\ failed' \subseteq Views
  BY <1>2 DEF Want, TypeOK
<1>3. ASSUME NEW v \in Views, NEW u \in Users, LoadsAvatar(v, u)
      PROVE  ProfileImageUrl[u] \in Urls
  BY <1>3 DEF LoadsAvatar
<1>4. ASSUME NEW v \in Views, NEW u \in Users, AssignIncomplete(v, u)
      PROVE  TypeOK'
  BY <1>1, <1>4 DEF AssignIncomplete, TypeOK
<1>5. ASSUME NEW v \in Views, NEW u \in Users, AssignHit(v, u)
      PROVE  TypeOK'
  <2>1. ProfileImageUrl[u] \in Urls
    BY <1>3, <1>5 DEF AssignHit
  <2>2. shown' \in [Views -> Images]
    BY <2>1, <1>5, CacheReadType DEF AssignHit, TypeOK
  <2>. QED
    BY <1>1, <1>2, <1>5, <2>1, <2>2 DEF AssignHit, TypeOK
<1>6. ASSUME NEW v \in Views, NEW u \in Users, AssignBadUrl(v, u)
      PROVE  TypeOK'
  BY <1>1, <1>6 DEF AssignBadUrl, TypeOK
<1>7. ASSUME NEW v \in Views, NEW u \in Users, AssignMiss(v, u)
      PROVE  TypeOK'
  <2>1. ProfileImageUrl[u] \in Urls
    BY <1>3, <1>7 DEF AssignMiss
  <2>2. AbsoluteString[ProfileImageUrl[u]] \in Urls
    BY <2>1, <1>7 DEF AssignMiss
  <2>3. loads' \subseteq Load
    BY <2>2, <1>7 DEF AssignMiss, TypeOK, Load, Unused
  <2>. QED
    BY <1>1, <1>2, <1>7, <2>2, <2>3 DEF AssignMiss, TypeOK
<1>8. ASSUME NEW v \in Views, NEW u \in Users, AssignTorn(v, u)
      PROVE  TypeOK'
  BY <1>8 DEF AssignTorn, TypeOK
<1>9. ASSUME RunBlock
      PROVE  TypeOK'
  <2>1. mainQueue' \in Seq(Block) /\ Head(mainQueue) \in Block
    BY <1>9, ElementsOfTail DEF RunBlock, TypeOK
  <2>2. shown' \in [Views -> Images]
    BY <1>9, <2>1 DEF RunBlock, TypeOK, Block
  <2>. QED
    BY <1>9, <2>1, <2>2 DEF RunBlock, TypeOK
<1>10. ASSUME NEW l \in loads, NoData(l)
       PROVE  TypeOK'
  BY <1>10 DEF NoData, TypeOK, Load
<1>11. ASSUME NEW l \in loads, BeginStore(l)
       PROVE  TypeOK'
  <2>1. storing' \subseteq Store
    BY <1>11 DEF BeginStore, TypeOK, Load, Store, Images
  <2>. QED
    BY <1>11, <2>1 DEF BeginStore, TypeOK
<1>12. ASSUME EndStore
       PROVE  TypeOK'
  <2>1. PICK s \in storing :
            /\ storing' = storing \ {s}
            /\ imageCache' = [imageCache EXCEPT ![s.key] = s.image]
            /\ mainQueue' = Append(mainQueue,
                                   [request |-> s.request, view |-> s.view, image |-> s.image])
            /\ failed' = IF s.image = NoImage THEN failed \cup {s.view} ELSE failed
    BY <1>12 DEF EndStore
  <2>2. s \in Store
    BY DEF TypeOK
  <2>3. [request |-> s.request, view |-> s.view, image |-> s.image] \in Block
    BY <2>2 DEF Store, Block
  <2>4. mainQueue' \in Seq(Block)
    BY <2>1, <2>3 DEF TypeOK
  <2>5. imageCache' \in [Urls -> Images] /\ failed' \subseteq Views /\ storing' \subseteq Store
    BY <2>1, <2>2 DEF TypeOK, Store
  <2>. QED
    BY <1>12, <2>4, <2>5 DEF EndStore, TypeOK
<1>13. ASSUME Relaunch
       PROVE  TypeOK'
  <2>1. mainQueue' \in Seq(Block)
    BY <1>13 DEF Relaunch
  <2>2. shown' \in [Views -> Images] /\ imageCache' \in [Urls -> Images]
    BY <1>13 DEF Relaunch, Images
  <2>3. wanted' \in [Views -> SUBSET Urls] /\ failed' \subseteq Views
    BY <1>13 DEF Relaunch
  <2>. QED
    BY <1>13, <2>1, <2>2, <2>3 DEF Relaunch, TypeOK
<1>14. CASE UNCHANGED vars
  BY <1>14 DEF vars, TypeOK
<1>. QED
  BY <1>4, <1>5, <1>6, <1>7, <1>8, <1>9, <1>10, <1>11, <1>12, <1>13, <1>14
     DEF Next, Assign, Complete

\* Every variable keeps its type.
THEOREM TypeCorrect == Spec => []TypeOK
BY InitTypeOK, NextTypeOK, PTL DEF Spec

-----------------------------------------------------------------------------
(***************************************************************************)
(* The inductive invariant.                                                *)
(***************************************************************************)

LEMMA InitIInv == Init => IInv
<1>1. Init => TypeOK
  BY InitTypeOK
<1>2. Init => CacheCoherent
  BY DEF Init, CacheCoherent
<1>3. Init => Blocks = {}
  BY DEF Init, Blocks
<1>4. Init => PendingWasAsked
  BY <1>3 DEF Init, PendingWasAsked
<1>5. Init => SettledShowsAsked
  BY DEF Init, SettledShowsAsked
<1>. QED
  BY <1>1, <1>2, <1>4, <1>5 DEF IInv

\* A coherent cache returns the picture of the URL that is read, or a miss.
LEMMA CacheReadCoherent ==
    ASSUME TypeOK, CacheCoherent, PendingWasAsked, NEW k \in Urls
    PROVE  CacheRead(k) \subseteq {k, NoImage}
BY DEF TypeOK, CacheCoherent, PendingWasAsked, CacheRead

LEMMA BlocksType == TypeOK => Blocks \subseteq Block
<1>. SUFFICES ASSUME TypeOK, NEW i \in DOMAIN mainQueue
              PROVE  mainQueue[i] \in Block
  BY DEF Blocks
<1>1. mainQueue \in Seq(Block)
  BY DEF TypeOK
<1>. QED
  BY <1>1

LEMMA BlocksAfterTail ==
    ASSUME TypeOK, mainQueue # <<>>, mainQueue' = Tail(mainQueue)
    PROVE  Head(mainQueue) \in Block /\ Blocks = {Head(mainQueue)} \cup Blocks'
<1>1. mainQueue \in Seq(Block)
  BY DEF TypeOK
<1>2. Blocks' = {Tail(mainQueue)[i] : i \in DOMAIN Tail(mainQueue)}
  BY DEF Blocks
<1>. QED
  BY <1>1, <1>2, ElementsOfTail DEF Blocks

LEMMA BlocksAfterAppend ==
    ASSUME TypeOK, NEW b \in Block, mainQueue' = Append(mainQueue, b)
    PROVE  Blocks' = Blocks \cup {b}
<1>1. mainQueue \in Seq(Block)
  BY DEF TypeOK
<1>2. Blocks' = {Append(mainQueue, b)[i] : i \in DOMAIN Append(mainQueue, b)}
  BY DEF Blocks
<1>. QED
  BY <1>1, <1>2, ElementsOfAppend DEF Blocks

\* A step of didSet that asks for k asks for it in addition to what is pending.
LEMMA WantKeeps ==
    ASSUME TypeOK, PendingWasAsked, NEW v \in Views, NEW k \in Urls, Want(v, k)
    PROVE  /\ k \in wanted'[v]
           /\ \A w \in loads \cup storing : w.key \in wanted'[w.view]
           /\ \A b \in Blocks : \/ b.image \in wanted'[b.view]
                                \/ b.image = NoImage /\ b.view \in failed'
           /\ \A w \in Views \ {v} : /\ wanted'[w] = wanted[w]
                                     /\ w \in failed' <=> w \in failed
<1>1. \A w \in loads \cup storing \cup Blocks : w.view = v => ~Quiet(v)
  BY DEF Quiet
<1>2. \A b \in Blocks : b.view \in Views
  BY BlocksType DEF Block
<1>3. \A w \in loads \cup storing : w.view \in Views
  BY DEF TypeOK, Load, Store
<1>4. wanted' = [wanted EXCEPT ![v] = IF Quiet(v) THEN {k} ELSE wanted[v] \cup {k}]
  BY DEF Want
<1>5. failed' = IF Quiet(v) THEN failed \ {v} ELSE failed
  BY DEF Want
<1>6. wanted \in [Views -> SUBSET Urls]
  BY DEF TypeOK
<1>7. \A w \in Views \ {v} : wanted'[w] = wanted[w] /\ (w \in failed' <=> w \in failed)
  BY <1>4, <1>5, <1>6
<1>8. wanted'[v] = IF Quiet(v) THEN {k} ELSE wanted[v] \cup {k}
  BY <1>4, <1>6
<1>9. ASSUME NEW w \in loads \cup storing
      PROVE  w.key \in wanted'[w.view]
  <2>1. w.key \in wanted[w.view]
    BY DEF PendingWasAsked
  <2>. QED
    BY <1>1, <1>3, <1>7, <1>8, <2>1
<1>10. ASSUME NEW b \in Blocks
       PROVE  b.image \in wanted'[b.view] \/ (b.image = NoImage /\ b.view \in failed')
  <2>1. b.image \in wanted[b.view] \/ (b.image = NoImage /\ b.view \in failed)
    BY DEF PendingWasAsked
  <2>. QED
    BY <1>1, <1>2, <1>5, <1>7, <1>8, <2>1
<1>. QED
  BY <1>7, <1>8, <1>9, <1>10

\* Every step keeps IInv.
LEMMA NextIInv == IInv /\ [Next]_vars => IInv'
<1>. SUFFICES ASSUME IInv, [Next]_vars
              PROVE  IInv'
  OBVIOUS
<1>. USE UrlsAssumption
<1>1. TypeOK /\ CacheCoherent /\ PendingWasAsked /\ SettledShowsAsked
  BY DEF IInv
<1>2. TypeOK'
  BY <1>1, NextTypeOK
<1>3. ASSUME UNCHANGED <<shown, imageCache, loads, storing, mainQueue, wanted, failed>>
      PROVE  IInv'
  <2>1. Blocks' = Blocks
    BY <1>3 DEF Blocks
  <2>2. \A v \in Views : Quiet(v)' <=> Quiet(v)
    BY <1>3, <2>1 DEF Quiet
  <2>3. CacheCoherent'
    BY <1>1, <1>3 DEF CacheCoherent
  <2>4. PendingWasAsked'
    BY <1>1, <1>3, <2>1 DEF PendingWasAsked
  <2>5. SettledShowsAsked'
    BY <1>1, <1>3, <2>2 DEF SettledShowsAsked
  <2>. QED
    BY <1>2, <2>3, <2>4, <2>5 DEF IInv
<1>4. ASSUME NEW v \in Views, NEW u \in Users, AssignHit(v, u)
      PROVE  IInv'
  <2>. DEFINE k == ProfileImageUrl[u]
  <2>1. k \in Urls
    BY <1>4 DEF AssignHit, LoadsAvatar
  <2>2. shown' = [shown EXCEPT ![v] = k]
    BY <1>1, <1>4, <2>1, CacheReadCoherent DEF AssignHit
  <2>3. /\ Want(v, k)
        /\ UNCHANGED <<imageCache, loads, storing, mainQueue>>
    BY <1>4 DEF AssignHit
  <2>4. Blocks' = Blocks
    BY <2>3 DEF Blocks
  <2>5. CacheCoherent'
    BY <1>1, <2>3 DEF CacheCoherent
  <2>6. PendingWasAsked'
    BY <1>1, <2>1, <2>3, <2>4, WantKeeps DEF PendingWasAsked
  <2>7. ASSUME NEW w \in Views
        PROVE  Quiet(w)' /\ wanted'[w] # {} /\ w \notin failed' => shown'[w] \in wanted'[w]
    <3>1. Quiet(w)' <=> Quiet(w)
      BY <2>3, <2>4 DEF Quiet
    <3>2. CASE w = v
      BY <1>1, <2>1, <2>2, <2>3, <3>2, WantKeeps DEF TypeOK
    <3>3. CASE w # v
      BY <1>1, <2>1, <2>2, <2>3, <3>1, <3>3, WantKeeps DEF TypeOK, SettledShowsAsked
    <3>. QED
      BY <3>2, <3>3
  <2>. QED
    BY <1>2, <2>5, <2>6, <2>7 DEF IInv, SettledShowsAsked
<1>5. ASSUME NEW v \in Views, NEW u \in Users, AssignMiss(v, u)
      PROVE  IInv'
  <2>. DEFINE k == AbsoluteString[ProfileImageUrl[u]]
  <2>1. k \in Urls
    BY <1>5 DEF AssignMiss, LoadsAvatar
  <2>p. PICK r \in Unused : loads' = loads \cup {[request |-> r, view |-> v, key |-> k]}
    BY <1>5 DEF AssignMiss
  <2>. DEFINE l == [request |-> r, view |-> v, key |-> k]
  <2>2. loads' = loads \cup {l} /\ l.view = v /\ l.key = k
    BY <2>p
  <2>3. /\ Want(v, k)
        /\ UNCHANGED <<shown, imageCache, storing, mainQueue>>
    BY <1>5 DEF AssignMiss
  <2>4. Blocks' = Blocks
    BY <2>3 DEF Blocks
  <2>5. CacheCoherent'
    BY <1>1, <2>3 DEF CacheCoherent
  <2>6. PendingWasAsked'
    BY <1>1, <2>1, <2>2, <2>3, <2>4, WantKeeps DEF PendingWasAsked
  <2>7. ASSUME NEW w \in Views
        PROVE  Quiet(w)' /\ wanted'[w] # {} /\ w \notin failed' => shown'[w] \in wanted'[w]
    <3>1. CASE w = v
      BY <2>2, <3>1 DEF Quiet
    <3>2. CASE w # v
      <4>1. Quiet(w)' => Quiet(w)
        BY <2>2, <2>3, <2>4 DEF Quiet
      <4>. QED
        BY <1>1, <2>1, <2>3, <3>2, <4>1, WantKeeps DEF SettledShowsAsked
    <3>. QED
      BY <3>1, <3>2
  <2>. QED
    BY <1>2, <2>5, <2>6, <2>7 DEF IInv, SettledShowsAsked
<1>6. ASSUME RunBlock
      PROVE  IInv'
  <2>. DEFINE b == Head(mainQueue)
  <2>1. /\ mainQueue # <<>>
        /\ shown' = [shown EXCEPT ![b.view] = b.image]
        /\ mainQueue' = Tail(mainQueue)
        /\ UNCHANGED <<imageCache, loads, storing, wanted, failed>>
    BY <1>6 DEF RunBlock
  <2>2. b \in Block /\ Blocks = {b} \cup Blocks'
    BY <1>1, <2>1, BlocksAfterTail
  <2>3. CacheCoherent'
    BY <1>1, <2>1 DEF CacheCoherent
  <2>4. PendingWasAsked'
    BY <1>1, <2>1, <2>2 DEF PendingWasAsked
  <2>5. ASSUME NEW w \in Views, Quiet(w)', wanted[w] # {}, w \notin failed
        PROVE  shown'[w] \in wanted[w]
    <3>1. CASE w = b.view
      BY <1>1, <2>1, <2>2, <2>5, <3>1 DEF PendingWasAsked, TypeOK
    <3>2. CASE w # b.view
      <4>1. Quiet(w)
        BY <2>1, <2>2, <2>5, <3>2 DEF Quiet
      <4>. QED
        BY <1>1, <2>1, <2>5, <3>2, <4>1 DEF SettledShowsAsked, TypeOK
    <3>. QED
      BY <3>1, <3>2
  <2>6. SettledShowsAsked'
    BY <2>1, <2>5 DEF SettledShowsAsked
  <2>. QED
    BY <1>2, <2>3, <2>4, <2>6 DEF IInv
<1>7. ASSUME NEW l \in loads, NoData(l)
      PROVE  IInv'
  <2>1. /\ loads' = loads \ {l}
        /\ failed' = failed \cup {l.view}
        /\ UNCHANGED <<shown, imageCache, storing, mainQueue, wanted>>
    BY <1>7 DEF NoData
  <2>2. Blocks' = Blocks
    BY <2>1 DEF Blocks
  <2>3. CacheCoherent'
    BY <1>1, <2>1 DEF CacheCoherent
  <2>4. PendingWasAsked'
    BY <1>1, <2>1, <2>2 DEF PendingWasAsked
  <2>5. \A w \in Views \ {l.view} : Quiet(w)' => Quiet(w)
    BY <2>1, <2>2 DEF Quiet
  <2>6. SettledShowsAsked'
    BY <1>1, <2>1, <2>5 DEF SettledShowsAsked
  <2>. QED
    BY <1>2, <2>3, <2>4, <2>6 DEF IInv
<1>8. ASSUME NEW l \in loads, BeginStore(l)
      PROVE  IInv'
  <2>p. PICK image \in {l.key, NoImage} :
            storing' = {[request |-> l.request, view |-> l.view, key |-> l.key, image |-> image]}
    BY <1>8 DEF BeginStore
  <2>. DEFINE s == [request |-> l.request, view |-> l.view, key |-> l.key, image |-> image]
  <2>1. /\ storing' = {s}
        /\ s.view = l.view /\ s.key = l.key /\ s.image \in {l.key, NoImage}
    BY <2>p
  <2>2. /\ loads' = loads \ {l}
        /\ storing = {}
        /\ UNCHANGED <<shown, imageCache, mainQueue, wanted, failed>>
    BY <1>8 DEF BeginStore
  <2>3. Blocks' = Blocks
    BY <2>2 DEF Blocks
  <2>4. CacheCoherent'
    BY <1>1, <2>2 DEF CacheCoherent
  <2>5. PendingWasAsked'
    BY <1>1, <2>1, <2>2, <2>3 DEF PendingWasAsked
  <2>6. \A w \in Views : Quiet(w)' => Quiet(w)
    BY <2>1, <2>2, <2>3 DEF Quiet
  <2>7. SettledShowsAsked'
    BY <1>1, <2>2, <2>6 DEF SettledShowsAsked
  <2>. QED
    BY <1>2, <2>4, <2>5, <2>7 DEF IInv
<1>9. ASSUME EndStore
      PROVE  IInv'
  <2>1. PICK s \in storing :
            /\ storing' = storing \ {s}
            /\ imageCache' = [imageCache EXCEPT ![s.key] = s.image]
            /\ mainQueue' = Append(mainQueue,
                                   [request |-> s.request, view |-> s.view, image |-> s.image])
            /\ failed' = IF s.image = NoImage THEN failed \cup {s.view} ELSE failed
    BY <1>9 DEF EndStore
  <2>. DEFINE b == [request |-> s.request, view |-> s.view, image |-> s.image]
  <2>2. UNCHANGED <<shown, loads, wanted>>
    BY <1>9 DEF EndStore
  <2>3. s \in Store /\ s.key \in wanted[s.view] /\ s.image \in {s.key, NoImage}
    BY <1>1 DEF TypeOK, PendingWasAsked
  <2>4. b \in Block
    BY <2>3 DEF Store, Block
  <2>5. Blocks' = Blocks \cup {b}
    BY <1>1, <2>1, <2>4, BlocksAfterAppend DEF TypeOK
  <2>6. CacheCoherent'
    BY <1>1, <2>1, <2>3 DEF CacheCoherent, TypeOK
  <2>7. PendingWasAsked'
    BY <1>1, <2>1, <2>2, <2>3, <2>5 DEF PendingWasAsked
  <2>8. \A w \in Views : Quiet(w)' => Quiet(w)
    BY <2>1, <2>2, <2>5 DEF Quiet
  <2>9. SettledShowsAsked'
    BY <1>1, <2>1, <2>2, <2>8 DEF SettledShowsAsked
  <2>. QED
    BY <1>2, <2>6, <2>7, <2>9 DEF IInv
<1>10. ASSUME Relaunch
       PROVE  IInv'
  <2>1. /\ imageCache' = [k \in Urls |-> NoImage]
        /\ loads' = {} /\ storing' = {} /\ mainQueue' = <<>>
        /\ wanted' = [v \in Views |-> {}]
    BY <1>10 DEF Relaunch
  <2>2. Blocks' = {}
    BY <2>1 DEF Blocks
  <2>3. CacheCoherent' /\ PendingWasAsked' /\ SettledShowsAsked'
    BY <2>1, <2>2 DEF CacheCoherent, PendingWasAsked, SettledShowsAsked
  <2>. QED
    BY <1>2, <2>3 DEF IInv
<1>11. ASSUME NEW v \in Views, NEW u \in Users, Assign(v, u)
       PROVE  IInv'
  BY <1>3, <1>4, <1>5, <1>11 DEF Assign, AssignIncomplete, AssignBadUrl, AssignTorn
<1>12. ASSUME UNCHANGED vars
       PROVE  IInv'
  BY <1>3, <1>12 DEF vars
<1>. QED
  BY <1>6, <1>7, <1>8, <1>9, <1>10, <1>11, <1>12 DEF Next, Complete

\* imageCache never holds the picture of another URL, a view is only ever sent
\* what it asked for, and a view whose loads all succeeded shows one of them.
THEOREM Safety == Spec => []IInv
BY InitIInv, NextIInv, PTL DEF Spec

THEOREM CacheIsCoherent == Spec => []CacheCoherent
BY Safety, PTL DEF IInv

THEOREM SettledViewsShowAsked == Spec => []SettledShowsAsked
BY Safety, PTL DEF IInv

-----------------------------------------------------------------------------
(***************************************************************************)
(* Refinement of AvatarSlots.                                              *)
(***************************************************************************)

LEMMA InitRefines == Init => Avatars!Init
<1>1. Init => Blocks = {}
  BY DEF Init, Blocks
<1>2. Init => Busy = {}
  BY <1>1 DEF Init, Busy, Quiet
<1>. QED
  BY <1>2 DEF Init, Avatars!Init

\* A read of the cache that asks for k maps to Ask(v, k).
LEMMA WantRefines ==
    ASSUME TypeOK, NEW v \in Views, NEW k \in Urls, Want(v, k)
    PROVE  Avatars!Ask(v, k)
<1>1. Quiet(v) <=> v \notin Busy
  BY DEF Busy
<1>. QED
  BY <1>1 DEF Want, Avatars!Ask

LEMMA NextRefines == IInv /\ [Next]_vars => [Avatars!Next]_(Avatars!vars)
<1>. SUFFICES ASSUME IInv, [Next]_vars
              PROVE  [Avatars!Next]_(Avatars!vars)
  OBVIOUS
<1>. USE UrlsAssumption
<1>1. TypeOK /\ CacheCoherent /\ PendingWasAsked
  BY DEF IInv
<1>2. ASSUME UNCHANGED <<shown, loads, storing, mainQueue, wanted, failed>>
      PROVE  UNCHANGED Avatars!vars
  <2>1. Blocks' = Blocks
    BY <1>2 DEF Blocks
  <2>2. Busy' = Busy
    BY <1>2, <2>1 DEF Busy, Quiet
  <2>. QED
    BY <1>2, <2>2 DEF Avatars!vars
<1>3. ASSUME NEW v \in Views, NEW u \in Users, AssignHit(v, u)
      PROVE  Avatars!Next
  <2>. DEFINE k == ProfileImageUrl[u]
  <2>1. k \in Urls
    BY <1>3 DEF AssignHit, LoadsAvatar
  <2>2. shown' = [shown EXCEPT ![v] = k]
    BY <1>1, <1>3, <2>1, CacheReadCoherent DEF AssignHit
  <2>3. Want(v, k) /\ UNCHANGED <<loads, storing, mainQueue>>
    BY <1>3 DEF AssignHit
  <2>4. Blocks' = Blocks
    BY <2>3 DEF Blocks
  <2>5. Busy' = Busy
    BY <2>3, <2>4 DEF Busy, Quiet
  <2>6. Avatars!AskAtHand(v, k)
    BY <1>1, <2>1, <2>2, <2>3, <2>5, WantRefines DEF Avatars!AskAtHand
  <2>. QED
    BY <2>1, <2>6 DEF Avatars!Next
<1>4. ASSUME NEW v \in Views, NEW u \in Users, AssignMiss(v, u)
      PROVE  Avatars!Next
  <2>. DEFINE k == AbsoluteString[ProfileImageUrl[u]]
  <2>1. k \in Urls
    BY <1>4 DEF AssignMiss, LoadsAvatar
  <2>2. PICK r \in Unused : loads' = loads \cup {[request |-> r, view |-> v, key |-> k]}
    BY <1>4 DEF AssignMiss
  <2>3. Want(v, k) /\ UNCHANGED <<shown, storing, mainQueue>>
    BY <1>4 DEF AssignMiss
  <2>4. Blocks' = Blocks
    BY <2>3 DEF Blocks
  <2>5. Busy' = Busy \cup {v}
    <3>. DEFINE l == [request |-> r, view |-> v, key |-> k]
    <3>1. loads' = loads \cup {l} /\ l.view = v
      BY <2>2
    <3>2. \A w \in Views : Quiet(w)' <=> Quiet(w) /\ w # v
      BY <2>3, <2>4, <3>1 DEF Quiet
    <3>. QED
      BY <3>2 DEF Busy
  <2>6. Avatars!AskRemote(v, k)
    BY <1>1, <2>1, <2>3, <2>5, WantRefines DEF Avatars!AskRemote
  <2>. QED
    BY <2>1, <2>6 DEF Avatars!Next
<1>5. ASSUME RunBlock
      PROVE  Avatars!Next
  <2>. DEFINE b == Head(mainQueue)
  <2>1. /\ mainQueue # <<>>
        /\ shown' = [shown EXCEPT ![b.view] = b.image]
        /\ mainQueue' = Tail(mainQueue)
        /\ UNCHANGED <<loads, storing, wanted, failed>>
    BY <1>5 DEF RunBlock
  <2>2. b \in Block /\ Blocks = {b} \cup Blocks'
    BY <1>1, <2>1, BlocksAfterTail
  <2>3. b.view \in Views /\ b.view \in Busy
    BY <2>2 DEF Block, Busy, Quiet
  <2>4. \A w \in Views \ {b.view} : Quiet(w)' <=> Quiet(w)
    BY <2>1, <2>2 DEF Quiet
  <2>5. Busy' \in {Busy, Busy \ {b.view}}
    BY <2>3, <2>4 DEF Busy
  <2>6. b.image \in wanted[b.view] \/ (b.image = NoImage /\ b.view \in failed)
    BY <1>1, <2>2 DEF PendingWasAsked
  <2>7. Avatars!Receive(b.view)
    BY <2>1, <2>3, <2>5, <2>6 DEF Avatars!Receive
  <2>. QED
    BY <2>3, <2>7 DEF Avatars!Next
<1>6. ASSUME NEW l \in loads, NoData(l)
      PROVE  Avatars!Next
  <2>1. /\ loads' = loads \ {l}
        /\ failed' = failed \cup {l.view}
        /\ UNCHANGED <<shown, storing, mainQueue, wanted>>
    BY <1>6 DEF NoData
  <2>2. Blocks' = Blocks
    BY <2>1 DEF Blocks
  <2>3. l.view \in Views /\ l.view \in Busy
    BY <1>1 DEF TypeOK, Load, Busy, Quiet
  <2>4. \A w \in Views \ {l.view} : Quiet(w)' <=> Quiet(w)
    BY <2>1, <2>2 DEF Quiet
  <2>5. Busy' \in {Busy, Busy \ {l.view}}
    BY <2>3, <2>4 DEF Busy
  <2>6. Avatars!Fail(l.view)
    BY <2>1, <2>3, <2>5 DEF Avatars!Fail
  <2>. QED
    BY <2>3, <2>6 DEF Avatars!Next
<1>7. ASSUME NEW l \in loads, BeginStore(l)
      PROVE  UNCHANGED Avatars!vars
  <2>1. PICK image \in {l.key, NoImage} :
            storing' = {[request |-> l.request, view |-> l.view, key |-> l.key, image |-> image]}
    BY <1>7 DEF BeginStore
  <2>2. /\ loads' = loads \ {l}
        /\ storing = {}
        /\ UNCHANGED <<shown, mainQueue, wanted, failed>>
    BY <1>7 DEF BeginStore
  <2>3. Blocks' = Blocks
    BY <2>2 DEF Blocks
  <2>4. \A w \in Views : Quiet(w)' <=> Quiet(w)
    <3>. DEFINE s == [request |-> l.request, view |-> l.view, key |-> l.key, image |-> image]
    <3>1. storing' = {s} /\ s.view = l.view
      BY <2>1
    <3>. HIDE DEF s
    <3>. QED
      BY <2>2, <2>3, <3>1 DEF Quiet
  <2>5. Busy' = Busy
    BY <2>4 DEF Busy
  <2>. QED
    BY <2>2, <2>5 DEF Avatars!vars
<1>8. ASSUME EndStore
      PROVE  Avatars!Next \/ UNCHANGED Avatars!vars
  <2>1. PICK s \in storing :
            /\ storing' = storing \ {s}
            /\ mainQueue' = Append(mainQueue,
                                   [request |-> s.request, view |-> s.view, image |-> s.image])
            /\ failed' = IF s.image = NoImage THEN failed \cup {s.view} ELSE failed
    BY <1>8 DEF EndStore
  <2>. DEFINE b == [request |-> s.request, view |-> s.view, image |-> s.image]
  <2>2. UNCHANGED <<shown, loads, wanted>>
    BY <1>8 DEF EndStore
  <2>3. s \in Store /\ s.view \in Views /\ s.view \in Busy
    BY <1>1 DEF TypeOK, Store, Busy, Quiet
  <2>4. b \in Block /\ b.view = s.view
    BY <2>3 DEF Store, Block
  <2>5. Blocks' = Blocks \cup {b}
    BY <1>1, <2>1, <2>4, BlocksAfterAppend
  <2>6. \A w \in Views : Quiet(w)' <=> Quiet(w)
    BY <2>1, <2>2, <2>4, <2>5 DEF Quiet
  <2>7. Busy' = Busy
    BY <2>6 DEF Busy
  <2>8. CASE s.image = NoImage
    <3>1. Avatars!Fail(s.view)
      BY <2>1, <2>2, <2>3, <2>7, <2>8 DEF Avatars!Fail
    <3>. QED
      BY <2>3, <3>1 DEF Avatars!Next
  <2>9. CASE s.image # NoImage
    BY <2>1, <2>2, <2>7, <2>9 DEF Avatars!vars
  <2>. QED
    BY <2>8, <2>9
<1>9. ASSUME Relaunch
      PROVE  Avatars!Next
  <2>1. /\ shown' = [v \in Views |-> NoImage]
        /\ loads' = {} /\ storing' = {} /\ mainQueue' = <<>>
        /\ wanted' = [v \in Views |-> {}] /\ failed' = {}
    BY <1>9 DEF Relaunch
  <2>2. Blocks' = {}
    BY <2>1 DEF Blocks
  <2>3. Busy' = {}
    BY <2>1, <2>2 DEF Busy, Quiet
  <2>. QED
    BY <2>1, <2>3 DEF Avatars!Next, Avatars!Restart
<1>10. ASSUME NEW v \in Views, NEW u \in Users, Assign(v, u)
       PROVE  Avatars!Next \/ UNCHANGED Avatars!vars
  BY <1>2, <1>3, <1>4, <1>10 DEF Assign, AssignIncomplete, AssignBadUrl, AssignTorn
<1>11. ASSUME UNCHANGED vars
       PROVE  UNCHANGED Avatars!vars
  BY <1>2, <1>11 DEF vars
<1>. QED
  BY <1>5, <1>6, <1>7, <1>8, <1>9, <1>10, <1>11 DEF Next, Complete

\* loadImage keeps the promise of AvatarSlots: a view receives only pictures it
\* asked for since it was last idle, and is blanked only after a failed load.
THEOREM Refinement == Spec => AvatarSlotsSpec
BY InitRefines, NextRefines, Safety, PTL DEF Spec, AvatarSlotsSpec, Avatars!Spec
=============================================================================
