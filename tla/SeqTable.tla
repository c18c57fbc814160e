------------------------------ MODULE SeqTable ------------------------------
(***************************************************************************)
(* htable_find_or_put of htable/htable.c, the node table of the sequential *)
(* build.  Only thread 0 calls it, so that nothing changes between the get *)
(* of a chunk and the claim of a bucket, and a lookup is one step.  A new  *)
(* chunk is not the next one, as in htable_lp.c, but starts at another     *)
(* hash of the node.  Thread 0 fills the data array from place 1 on and on *)
(* into the blocks of the idle threads.                                    *)
(***************************************************************************)
EXTENDS Naturals, FiniteSetsExt

CONSTANTS
  TableSize,          \* TOTAL_TABLE_SIZE
  ChunkSize,          \* 8
  Attempts,           \* 512
  NodeHash(_, _, _),  \* the i-th hash of a node, for a seed
  Empty               \* a free bucket

ASSUME SeqAssumption ==
  /\ TableSize \in Nat \ {0}
  /\ ChunkSize \in 1 .. TableSize
  /\ Attempts \in Nat \ {0}

\* The bucket that a lookup inspects as its n-th.
Probe(node, seed, n) ==
  ((NodeHash(node, (n \div ChunkSize) + 1, seed) % TableSize) + (n % ChunkSize)) % TableSize

\* Faulty variant: a lookup passes the buckets in use, its own node's as well.
SeqStop_FreeOnly(index, data, node, seed) ==
  {n \in 0 .. Attempts * ChunkSize - 1 : index[Probe(node, seed, n)] = Empty}

\* The probes at which it may end: a free bucket, or the node itself (whose tag
\* is then equal as well).
SeqStop(index, data, node, seed) ==
  {n \in 0 .. Attempts * ChunkSize - 1 :
     LET b == index[Probe(node, seed, n)] IN b = Empty \/ data[b] = node}

\* Otherwise the program reports that the table is full, and ends.
SeqRoom(index, data, node, seed) == SeqStop(index, data, node, seed) # {}

SeqBucket(index, data, node, seed) ==
  Probe(node, seed, Min(SeqStop(index, data, node, seed)))
=============================================================================
