---------------------------- MODULE MCQueueClaim ----------------------------
(* Small instances of QueueClaim: agents of kinds "a" and "b". *)
EXTENDS QueueClaim, TLC

CONSTANTS w1, w2

KindOfEach == [n \in Agents |-> IF n = 2 THEN "b" ELSE "a"]
OneKindEach == (w1 :> {"a"}) @@ (w2 :> {"b"})
AnyAndOne == (w1 :> {"a", "b"}) @@ (w2 :> {"b"})
AnyKind == [w \in Workers |-> {"a", "b"}]

Setup(mode, batches, prefetch, wants) ==
    [mode |-> mode, batches |-> batches, prefetch |-> prefetch,
     wants |-> wants]
Prefetching == {Setup("parallel", FALSE, TRUE, OneKindEach)}
AllSetups == {Setup("strict", FALSE, FALSE, AnyAndOne),
              Setup("strict", TRUE, FALSE, AnyKind),
              Setup("parallel", TRUE, FALSE, OneKindEach),
              Setup("parallel", TRUE, TRUE, AnyKind)}
=============================================================================
