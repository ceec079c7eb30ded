----------------------------- MODULE AvatarSlots -----------------------------
(***************************************************************************)
(* What UIImageView.loadImage(with:) promises a view, whatever happens to  *)
(* the cache, to the network and to the queues behind it.                  *)
(*                                                                         *)
(* A slot is an image view.  While it is busy, pictures it asked for may   *)
(* still be put into it, in any order.  The pictures it asked for since it *)
(* was last idle are in wanted, and it is in failed once one of them did   *)
(* not arrive.  A slot never receives a picture it did not ask for, and it *)
(* is only blanked after a failure.                                        *)
(***************************************************************************)
CONSTANTS Slots,     \* image views
          Pictures,  \* pictures, each named by the URL it is served under
          NoImage    \* the image of a view that has none

VARIABLES busy, wanted, failed, shown

vars == <<busy, wanted, failed, shown>>

Init == /\ busy = {}
        /\ wanted = [s \in Slots |-> {}]
        /\ failed = {}
        /\ shown = [s \in Slots |-> NoImage]

\* An idle slot that asks again forgets what it asked for before.
Ask(s, p) == /\ wanted' = [wanted EXCEPT ![s] = IF s \in busy THEN @ \cup {p} ELSE {p}]
             /\ failed' = IF s \in busy THEN failed ELSE failed \ {s}

\* The picture is at hand: it is shown at once.
AskAtHand(s, p) == /\ Ask(s, p)
                   /\ shown' = [shown EXCEPT ![s] = p]
                   /\ UNCHANGED busy

\* The picture has to be fetched.
AskRemote(s, p) == /\ Ask(s, p)
                   /\ busy' = busy \cup {s}
                   /\ UNCHANGED shown

\* One of the fetches ends: s stays busy if others are under way.
Receive(s) == /\ s \in busy
              /\ busy' \in {busy, busy \ {s}}
              /\ \/ \E p \in wanted[s] : shown' = [shown EXCEPT ![s] = p]
                 \/ s \in failed /\ shown' = [shown EXCEPT ![s] = NoImage]
              /\ UNCHANGED <<wanted, failed>>

Fail(s) == /\ s \in busy
           /\ busy' \in {busy, busy \ {s}}
           /\ failed' = failed \cup {s}
           /\ UNCHANGED <<wanted, shown>>

\* A new process starts from nothing.
Restart == /\ busy' = {}
           /\ wanted' = [s \in Slots |-> {}]
           /\ failed' = {}
           /\ shown' = [s \in Slots |-> NoImage]

Next == \/ \E s \in Slots, p \in Pictures : AskAtHand(s, p) \/ AskRemote(s, p)
        \/ \E s \in Slots : Receive(s) \/ Fail(s)
        \/ Restart

Spec == Init /\ [][Next]_vars
==============================================================================
