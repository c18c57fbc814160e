----------------------------- MODULE BddMeaning -----------------------------
(***************************************************************************)
(* What a diagram means, the diagram of a meaning, and the shape of        *)
(* diagrams, as recursive functions.                                       *)
(***************************************************************************)
EXTENDS Bdd

\* The assignments for which a reference is true.
Branch(a, v) == IF v[LevelOf(a)] THEN node_high(a) ELSE node_low(a)
Holds[a \in Ref] ==
  [v \in Env |-> IF IsConst(a) THEN a.mark ELSE Holds[Branch(a, v)][v]]

Sem(a) == {v \in Env : Holds[a][v]}

\* The diagram of a set of assignments, from level l on, in the shared table.
Given(S, l, x) == {v \in Env : [v EXCEPT ![l] = x] \in S}
BuildStep(F, S, l) ==
  IF S = {} THEN bdd_false
  ELSE IF S = Env \/ l = NVars THEN bdd_true
  ELSE bdd_makenode(l, F[<<Given(S, l, FALSE), l + 1>>], F[<<Given(S, l, TRUE), l + 1>>])
BuildFrom[c \in (SUBSET Env) \X (0 .. NVars)] == BuildStep(BuildFrom, c[1], c[2])
Build(S) == BuildFrom[<<S, 0>>]

\* Reduced: no low edge is marked, no node has the same edge twice.
WellFormed[a \in Ref] ==
  \/ IsConst(a)
  \/ /\ ~a.node.low.mark
     /\ a.node.low # a.node.high
     /\ WellFormed[a.node.low] /\ WellFormed[a.node.high]

\* Every node is in the shared table.
AllShared[a \in Ref] ==
  \/ IsConst(a)
  \/ ~a.local /\ AllShared[a.node.low] /\ AllShared[a.node.high]
=============================================================================
