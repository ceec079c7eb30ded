----------------------- MODULE MCPersistentConnection -----------------------
(* PersistentConnection for TLC: two listens of one query, one of another.  *)
EXTENDS PersistentConnection
CONSTANTS l1, l2, q1
MCQueryOf == [l \in {l1, l2} |-> q1]
=============================================================================
