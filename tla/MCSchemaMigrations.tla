-------------------------- MODULE MCSchemaMigrations --------------------------
(***************************************************************************)
(* Model checking SchemaMigrations: a server and an operator's command on  *)
(* a new database, and on one that is a rename behind.                     *)
(***************************************************************************)
EXTENDS SchemaMigrations

MCStartVersions == [b \in Backends |-> IF b = "postgres" THEN {0, 14} ELSE {0, 5}]
MCTargets == [b \in Backends |-> IF b = "postgres" THEN {5, 13, 17} ELSE {0, 1, 6}]
=============================================================================
