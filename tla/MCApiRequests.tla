--------------------------- MODULE MCApiRequests ---------------------------
(***************************************************************************)
(* Model checking ApiRequests.  PostgreSQL is checked with a pool that     *)
(* every conflict exhausts, where only a time limit ends the wait, and     *)
(* with a larger one without time limits.                                  *)
(***************************************************************************)
EXTENDS ApiRequests

MCDeployments ==
    {[backend |-> "postgres", pool |-> 1, timed |-> TRUE],
     [backend |-> "postgres", pool |-> 2, timed |-> FALSE],
     [backend |-> "sqlite", pool |-> 1, timed |-> FALSE],
     [backend |-> "valkey", pool |-> 1, timed |-> FALSE]}
=============================================================================
