------------------------------ MODULE MCOpCache ------------------------------
(* Instances of OpCache for TLC. *)
EXTENDS OpCache, TLC

\* Three operations that differ in one word each share bucket, tag and place;
\* a fourth shares their bucket only.
K1 == [a |-> 1, b |-> 1, c |-> 1]
K2 == [a |-> 2, b |-> 1, c |-> 1]
K3 == [a |-> 1, b |-> 1, c |-> 2]
K4 == [a |-> 2, b |-> 2, c |-> 2]
Keys == {K1, K2, K3, K4}
Results == K1 :> "r1" @@ K2 :> "r2" @@ K3 :> "r3" @@ K4 :> "r4"
Buckets == [k \in Keys |-> 0]
Tags == [k \in Keys |-> IF k = K4 THEN "y" ELSE "x"]
Places == [k \in Keys |-> IF k = K4 THEN 1 ELSE 0]
Symmetry == Permutations(Thread)
=============================================================================
