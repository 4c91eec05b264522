---------------------------- MODULE MCValkeyStore ----------------------------
(* ValkeyStore on small instances. *)
EXTENDS ValkeyStore, TLC

Symmetry == Permutations(Workers) \cup Permutations(Tokens)
              \cup Permutations(Kinds) \cup Permutations(Updaters)
=============================================================================
