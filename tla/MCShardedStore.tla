--------------------------- MODULE MCShardedStore ---------------------------
(***************************************************************************)
(* Model checking ShardedStore: two nodes and two shards with a queue on   *)
(* each.  In one map the second shard has no owner; the other gives the    *)
(* first one to the other node and leaves out the second.                  *)
(***************************************************************************)
EXTENDS ShardedStore, TLC

CONSTANTS n1, n2, s1, s2, q1, q2

MCFirstMap == (s1 :> n1) @@ (s2 :> AnyNode)
MCOwners == {MCFirstMap, s1 :> n2}
MCHash == [m \in MCOwners |-> (q1 :> s1) @@ (q2 :> IF s2 \in DOMAIN m THEN s2 ELSE s1)]
=============================================================================
