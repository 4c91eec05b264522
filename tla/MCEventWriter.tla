--------------------------- MODULE MCEventWriter ---------------------------
(* Small instances of EventWriter: more events than channel and batch hold. *)
EXTENDS EventWriter

CONSTANTS e1, e2, e3, e4
=============================================================================
