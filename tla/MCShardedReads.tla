--------------------------- MODULE MCShardedReads ---------------------------
(***************************************************************************)
(* Model checking ShardedReads on two shards.                              *)
(***************************************************************************)
EXTENDS ShardedReads

CONSTANTS s1, s2

MCShardSeq == <<s1, s2>>
=============================================================================
