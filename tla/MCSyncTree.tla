----------------------------- MODULE MCSyncTree -----------------------------
(***************************************************************************)
(* Four uses of SyncTree, of which a behaviour has one: a client whose     *)
(* connection is lost and whose listens race with data on their way; one   *)
(* that listens up and down the tree while nothing is late, with or        *)
(* without the right to read the location; and one that mostly writes.     *)
(* Two more are of WriteTree alone, the second with hidden writes.         *)
(***************************************************************************)
EXTENDS SyncTree

CONSTANT Uses

VARIABLE use

Racing == INSTANCE SyncTree WITH
  Denied <- {}, Late <- TRUE, Races <- TRUE, Forms <- {"merge"}, MaxWrites <- 1,
  MaxListens <- 2, MaxRemote <- 1, MaxDrops <- 1
Quiet == INSTANCE SyncTree WITH
  Denied <- {}, Late <- FALSE, Races <- FALSE, Forms <- {"setChild"}, MaxWrites <- 1,
  MaxListens <- 3, MaxRemote <- 1, MaxDrops <- 0
Refused == INSTANCE SyncTree WITH
  Denied <- {Root}, Late <- FALSE, Races <- FALSE, Forms <- {"set"}, MaxWrites <- 1,
  MaxListens <- 2, MaxRemote <- 1, MaxDrops <- 0
Writing == INSTANCE SyncTree WITH
  Denied <- {}, Late <- FALSE, Races <- FALSE, Forms <- {"set", "setChild", "merge"},
  MaxWrites <- 2, MaxListens <- 1, MaxRemote <- 0, MaxDrops <- 0
Hiding == INSTANCE WriteTree WITH Hidden <- TRUE, MaxWrites <- 2

SyncInit == use \in Uses /\ Init

SyncNext ==
  /\ use' = use
  /\ \/ use = "racing" /\ Racing!Next
     \/ use = "quiet" /\ Quiet!Next
     \/ use = "refused" /\ Refused!Next
     \/ use = "writing" /\ Writing!Next
     \/ /\ \/ use = "writes alone" /\ WriteNext
           \/ use = "hidden writes" /\ Hiding!WriteNext
        /\ UNCHANGED <<view, told, rows, listens, unacked, puts, heldAcks, connected, toServer,
                       toClient, data, serving, specs, remote, drops>>

SyncSpec == SyncInit /\ [][SyncNext]_<<use, vars>>

-----------------------------------------------------------------------------
\* Converged, of a client whose requests are not overtaken by what it asks.
QuietConverges == use \in {"quiet", "refused", "writing"} => Converged
=============================================================================
