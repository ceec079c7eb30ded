----------------------------- MODULE OrderedSet -----------------------------
(***************************************************************************)
(* What a skip list promises (db/skiplist.h): a set of keys that only      *)
(* grows, and iterators every operation of which takes effect at once.     *)
(* Top stands for an iterator that is not valid.                           *)
(***************************************************************************)
EXTENDS Integers

CONSTANTS Keys, Top, Readers

VARIABLES keys, pos

Init == keys = {} /\ pos = [r \in Readers |-> Top]

IsLeast(p, S) == IF S = {} THEN p = Top ELSE p \in S /\ \A k \in S : p <= k
IsGreatest(p, S) == IF S = {} THEN p = Top ELSE p \in S /\ \A k \in S : k <= p

Insert == \E k \in Keys \ keys : keys' = keys \cup {k} /\ pos' = pos

Move(r, p) == pos' = [pos EXCEPT ![r] = p] /\ keys' = keys

\* SeekToFirst is Seek(0), Next seeks past the key.
Seek(r) == \E p \in keys \cup {Top}, t \in Keys \cup {0} :
             IsLeast(p, {k \in keys : k >= t}) /\ Move(r, p)
Next(r) == \E p \in keys \cup {Top} :
             pos[r] # Top /\ IsLeast(p, {k \in keys : k > pos[r]}) /\ Move(r, p)
\* SeekToLast is from Top.
Back(r, t) == \E p \in keys \cup {Top} : IsGreatest(p, {k \in keys : k < t}) /\ Move(r, p)
Prev(r) == pos[r] # Top /\ Back(r, pos[r])
SeekToLast(r) == Back(r, Top)

Step == Insert \/ \E r \in Readers : Seek(r) \/ Next(r) \/ Prev(r) \/ SeekToLast(r)

Spec == Init /\ [][Step]_<<keys, pos>>
=============================================================================
