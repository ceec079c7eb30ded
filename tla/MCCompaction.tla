---------------------------- MODULE MCCompaction ----------------------------
(***************************************************************************)
(* Three clients of VersionSet: one that deletes, one that holds a         *)
(* snapshot, and one that compacts ranges by hand.  A behaviour has one of *)
(* them.                                                                   *)
(***************************************************************************)
EXTENDS MCVersionSet

CONSTANT Clients

VARIABLE client

Snapshots == INSTANCE VersionSet WITH Deletes <- FALSE, MaxSnapshots <- 1
ByHand == INSTANCE VersionSet WITH Deletes <- FALSE, Ranges <- SingleKeys

CompactionInit == client \in Clients /\ Init

CompactionNext ==
  /\ client' = client
  /\ \/ client = "deletes" /\ Next
     \/ client = "snapshots" /\ Snapshots!Next
     \/ client = "by hand" /\ ByHand!Next

CompactionSpec == CompactionInit /\ [][CompactionNext]_<<client, vars>>

=============================================================================
