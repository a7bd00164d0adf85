---------------------------- MODULE MCEnqueueCalls ----------------------------
(***************************************************************************)
(* Three calls of EnqueueCalls for TLC, which share names and a key.       *)
(***************************************************************************)
EXTENDS EnqueueCalls

CONSTANTS c1, c2, c3, j1, j2, j3, j4, a, b, k1

PlainUniqueBulk == [c \in Calls |-> CASE c = c1 -> "plain" [] c = c2 -> "unique" [] c = c3 -> "bulk"]
BulkOfTwo == [c \in Calls |-> CASE c = c1 -> <<j1>> [] c = c2 -> <<j2>> [] c = c3 -> <<j3, j4>>]
FirstA == [j \in Jobs |-> IF j \in {j1, j4} THEN a ELSE b]
SharedKey == [j \in Jobs |-> IF j \in {j2, j3} THEN k1 ELSE NoKey]
=============================================================================
