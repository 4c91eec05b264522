-------------------------- MODULE MCBlockingCalls --------------------------
(* Small instances of BlockingCalls: two calls, each on a server of its own. *)
EXTENDS BlockingCalls, TLC

CONSTANTS c1, c2, s1, s2

HomeOfEach == (c1 :> s1) @@ (c2 :> s2)
=============================================================================
