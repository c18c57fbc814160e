--------------------------------- MODULE Bdd ---------------------------------
(***************************************************************************)
(* The nodes and references of bdd.c: decision diagrams with complement    *)
(* marks.  A reference carries a mark, which negates, and a flag that says *)
(* whether the node is in the store of its machine (localstore.c), where   *)
(* the loader puts what it reads, or in the shared table, where every      *)
(* operation puts its results.  Each store keeps a node once, so that a    *)
(* reference stands for its node here; the two stores may both have it.    *)
(***************************************************************************)
EXTENDS Integers

CONSTANT NVars     \* the levels are 0 .. NVars - 1
ASSUME NVarsAssumption == NVars \in Nat

Level == 0 .. NVars - 1

\* The node of the constants: below every level (0xffffffff in bdd_relnext).
Leaf == [level |-> NVars]

bdd_false == [mark |-> FALSE, local |-> FALSE, node |-> Leaf]
bdd_true  == [mark |-> TRUE, local |-> FALSE, node |-> Leaf]

IsConst(a) == a.node = Leaf
IsTrue(a)  == IsConst(a) /\ a.mark
IsFalse(a) == IsConst(a) /\ ~a.mark

bdd_not(a) == [a EXCEPT !.mark = ~@]
bdd_stripmark(a) == [a EXCEPT !.mark = FALSE]
bdd_transfermark(from, to) == [to EXCEPT !.mark = (@ # from.mark)]

LevelOf(a) == a.node.level
node_low(a)  == bdd_transfermark(a, a.node.low)
node_high(a) == bdd_transfermark(a, a.node.high)

\* The cofactors of a for a level not below its own.
LowAt(a, l)  == IF LevelOf(a) = l THEN node_low(a) ELSE a
HighAt(a, l) == IF LevelOf(a) = l THEN node_high(a) ELSE a

\* Faulty variant: the low edge keeps its mark.
Reference_LowMarked(l, low, high, local) ==
  [mark |-> FALSE, local |-> local, node |-> [level |-> l, low |-> low, high |-> high]]

\* The low edge of a node has no mark: one moves to the high edge and to the
\* reference, so that a function and its negation share their nodes.
Reference(l, low, high, local) ==
  [mark |-> low.mark, local |-> local,
   node |-> [level |-> l, low |-> bdd_stripmark(low),
             high |-> bdd_transfermark(low, high)]]

\* Faulty variant: a node is made also when both children are the same.
bdd_makenode_Redundant(l, low, high) == Reference(l, low, high, FALSE)

bdd_makenode(l, low, high) ==
  IF low = high THEN low ELSE Reference(l, low, high, FALSE)

bdd_makenode_local(l, low, high) ==
  IF low = high THEN low ELSE Reference(l, low, high, TRUE)

\* Assignments of the variables.
Env == [Level -> BOOLEAN]

\* The references to diagrams of the n lowest levels, in which levels grow
\* downwards: all that the code makes, and more.
RefOver[n \in 0 .. NVars] ==
  IF n = 0 THEN {bdd_false, bdd_true}
  ELSE RefOver[n - 1] \cup
       [mark : BOOLEAN, local : BOOLEAN,
        node : [level : {NVars - n}, low : RefOver[n - 1], high : RefOver[n - 1]]]
Ref == RefOver[NVars]
=============================================================================
