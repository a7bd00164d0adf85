----------------------------- MODULE MCWorkSystem -----------------------------
(***************************************************************************)
(* Instances of WorkSystem for TLC: who handles what, and how much.        *)
(***************************************************************************)
EXTENDS WorkRefinement, TLC

CONSTANTS p1, p2, p3, w1, w2, w3, j1, j2, j3, a, b

AllA == [j \in Jobs |-> a]
J1AJ2B == [j \in Jobs |-> IF j = j1 THEN a ELSE b]

HandleAll == [p \in Pools |-> Names]
P1A_P2B == [p \in Pools |-> IF p = p1 THEN {a} ELSE {b}]
P1AB_P2B == [p \in Pools |-> IF p = p1 THEN {a, b} ELSE {b}]

Limit1 == [n \in Names |-> 1]
Limit2 == [n \in Names |-> 2]

Fails1 == [n \in Names |-> 1]
Fails2 == [n \in Names |-> 2]

OnePerPool == [w \in Workers |-> CASE w = w1 -> p1 [] w = w2 -> p2 [] w = w3 -> p3]
\* Sound where all jobs have one name and none is in Delayed.
JobSymmetry == Permutations(Jobs)

=============================================================================
