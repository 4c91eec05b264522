-------------------------- MODULE MCPostgresStore --------------------------
EXTENDS PostgresStore, TLC

\* Agents, workers and tokens are interchangeable.
Symmetry == Permutations(Agents) \cup Permutations(Workers) \cup Permutations(Tokens)
=============================================================================
