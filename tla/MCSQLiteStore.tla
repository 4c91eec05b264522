---------------------------- MODULE MCSQLiteStore ----------------------------
(* The instance of MCSQLiteStore.cfg.  Agents are not interchangeable: only  *)
(* those in Mortal have a TTL.                                               *)
EXTENDS SQLiteStore
=============================================================================
