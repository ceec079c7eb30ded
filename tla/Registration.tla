---------------------------- MODULE Registration ----------------------------
(***************************************************************************)
(* What signing up is meant to be, seen from the server: an address gets   *)
(* one account for good, and the account is completed by its profile once  *)
(* or is abandoned for good.                                               *)
(***************************************************************************)
CONSTANTS Emails, Uids, NoUid

VARIABLES owner,  \* owner[e]: the account of the address
          stage   \* stage[u]: how far the account is

vars == <<owner, stage>>

\* Whoever has an account to begin with has completed it.
Init == /\ owner \in [Emails -> Uids \cup {NoUid}]
        /\ \A e, f \in Emails : owner[e] = owner[f] /\ owner[e] # NoUid => e = f
        /\ stage = [u \in Uids |-> IF \E e \in Emails : owner[e] = u THEN "complete" ELSE "none"]

Register(u, e) == /\ stage[u] = "none"
                  /\ owner[e] = NoUid
                  /\ owner' = [owner EXCEPT ![e] = u]
                  /\ stage' = [stage EXCEPT ![u] = "account"]

Complete(u) == /\ stage[u] = "account"
               /\ stage' = [stage EXCEPT ![u] = "complete"]
               /\ UNCHANGED owner

\* A crash abandons every account under way at once.
Abandon(S) == /\ \A u \in S : stage[u] = "account"
              /\ stage' = [u \in Uids |-> IF u \in S THEN "abandoned" ELSE stage[u]]
              /\ UNCHANGED owner

Next == \/ \E u \in Uids, e \in Emails : Register(u, e)
        \/ \E u \in Uids : Complete(u)
        \/ \E S \in SUBSET Uids : Abandon(S)

Spec == Init /\ [][Next]_vars
=============================================================================
