----------------------------- MODULE LocalStore -----------------------------
(***************************************************************************)
(* References by index (bdd.h), the nodes they lead to, and the local      *)
(* store of localstore.c: a private hash table in which each thread keeps  *)
(* the nodes of the model.  A reference has a mark, which negates, a flag  *)
(* for the local store, and an index; index 0 is that of the constants in  *)
(* either store, although localstore.c may put a node there.               *)
(***************************************************************************)
EXTENDS Naturals, FiniteSetsExt

CONSTANTS
  LocalSize,        \* LOCALSTORE_SIZE
  LocalHash(_, _),  \* hash of a node, for a seed
  None              \* a free entry of a table

ASSUME LocalAssumption == LocalSize \in Nat \ {0}

LocalIndex == 0 .. LocalSize - 1

bdd_false == [mark |-> FALSE, local |-> FALSE, idx |-> 0]
bdd_true  == [mark |-> TRUE, local |-> FALSE, idx |-> 0]

\* bdd_isconst compares the reference without its mark and local flag.
IsConst(a) == a.idx = 0

bdd_not(a) == [a EXCEPT !.mark = ~@]
bdd_stripmark(a) == [a EXCEPT !.mark = FALSE]
bdd_transfermark(from, to) == [to EXCEPT !.mark = (@ # from.mark)]

\* The node that bdd_makenode looks up: the mark of the low edge moves to the
\* high edge, and to the reference that is returned.  A free entry of the local
\* store is all zeros, which no such node is: its two edges differ.
NodeOf(level, low, high) ==
  [level |-> level, low |-> bdd_stripmark(low),
   high |-> bdd_transfermark(low, high), data |-> FALSE]

\* Faulty variant: the mark that moved to the high edge is lost to the reference.
Reference_Unmarked(low, local, idx) == [mark |-> FALSE, local |-> local, idx |-> idx]

Reference(low, local, idx) == [mark |-> low.mark, local |-> local, idx |-> idx]

-----------------------------------------------------------------------------
(* localstore_find_or_put *)

\* The entry at offset i from the hash, and whether the lookup ends there.
LocalEntry(node, seed, i) == (LocalHash(node, seed) + i) % LocalSize
LocalStop(store, node, seed) ==
  {i \in LocalIndex : store[LocalEntry(node, seed, i)] \in {None, node}}

LocalRoom(store, node, seed) == LocalStop(store, node, seed) # {}

\* Where the node is, or is put.
LocalPlace(store, node, seed) == LocalEntry(node, seed, Min(LocalStop(store, node, seed)))
=============================================================================
