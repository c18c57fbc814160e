----------------------------- MODULE MCHashTable -----------------------------
(* Instances of HashTable for TLC. *)
EXTENDS HashTable, TLC

CONSTANTS k1, k2, k3

\* Three blocks of two buckets, a hash of 16 values: 6 does not divide 16, so
\* the home of k1 is the last hash value and its next bucket is number 0.
WrapHash == k1 :> 15 @@ k2 :> 15 @@ k3 :> 0
WrapTag == k1 :> "x" @@ k2 :> "y" @@ k3 :> "x"

\* Two blocks of four buckets; all three nodes share a tag, two share a home.
CrowdHash == k1 :> 2 @@ k2 :> 2 @@ k3 :> 3
CrowdTag == k1 :> "x" @@ k2 :> "x" @@ k3 :> "x"
=============================================================================
