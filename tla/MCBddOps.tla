------------------------------ MODULE MCBddOps ------------------------------
(* Instances of BddOps for TLC: four levels, of which 0 and 2 are states. *)
EXTENDS BddOps

\* Diagrams over some levels: in the shared table, in the local store, and mixed
\* as the operations make them, shared nodes on top of shared and local ones.
RECURSIVE Shared(_)
Shared(ls) ==
  IF ls = << >> THEN {bdd_false, bdd_true}
  ELSE {bdd_makenode(ls[1], x, y) : x, y \in Shared(Tail(ls))}
RECURSIVE Local(_)
Local(ls) ==
  IF ls = << >> THEN {bdd_false, bdd_true}
  ELSE {bdd_makenode_local(ls[1], x, y) : x, y \in Local(Tail(ls))}
Mixed(ls) ==
  Local(ls) \cup
  {bdd_makenode(ls[1], x, y) : x, y \in Shared(Tail(ls)) \cup Local(Tail(ls))}

\* A diagram in the local store.
RECURSIVE BuildLocal(_, _)
BuildLocal(S, l) ==
  IF S = {} THEN bdd_false ELSE IF S = Env THEN bdd_true
  ELSE bdd_makenode_local(l, BuildLocal(Given(S, l, FALSE), l + 1),
                             BuildLocal(Given(S, l, TRUE), l + 1))

\* What a relation may do with one variable: keep it, flip it, set it, reset it if
\* it is set, allow anything.
Effects(s) ==
  LET t == s + 1
  IN  {{v \in Env : v[t] = v[s]}, {v \in Env : v[t] # v[s]}, {v \in Env : v[t]},
       {v \in Env : v[s] /\ ~v[t]}, Env}
Relations(chain) ==
  IF Len(chain) = 2 THEN Local(chain)
  ELSE {BuildLocal(x \cap y, 0) : x \in Effects(0), y \in Effects(2)}
       \cup {BuildLocal(x \cup y, 0) : x \in Effects(0), y \in Effects(2)}
Chains == {<<0, 1>>, <<2, 3>>, <<0, 1, 2, 3>>}

States == Mixed(<<0, 2>>)

Call(op, args, chain) == [op |-> op, args |-> args, chain |-> chain]

\* Operands with two levels of one granularity group, 2 and 3: of a call at level 2
\* the recursive calls at level 3 do not consult the cache, of a call at level 1
\* those at level 2 do.
Deep == Local(<<2, 3>>) \cup {bdd_makenode(1, x, bdd_not(x)) : x \in Shared(<<2, 3>>)}

\* A hash of the top of each operand, over three buckets.
Digit(a) ==
  IF IsConst(a) THEN IF a.mark THEN 1 ELSE 0
  ELSE LevelOf(a) + LevelOf(node_low(a)) + 2 * LevelOf(node_high(a))
       + (IF node_low(a).mark THEN 1 ELSE 0) + (IF a.local THEN 1 ELSE 0)
KeyHash(op, g) ==
  (Digit(g[1]) + IF op = "satcount" THEN g[2] ELSE 2 * Digit(g[2])) % 3

AllCalls ==
  {Call(op, <<a, b>>, << >>) : op \in {"and", "or", "diff", "xor"}, a \in States, b \in States}
  \cup {Call(op, <<a, b>>, << >>) : op \in {"and", "xor"}, a \in Shared(<<2, 3>>), b \in Deep}
  \cup {Call("ite", <<a, bdd_true, c>>, << >>) : a \in States, c \in States}
  \cup UNION {{Call("relnext", <<a, b, 0>>, ch) : a \in States, b \in Relations(ch)} : ch \in Chains}
  \cup {Call("satcount", <<a, 0>>, <<0, 2>>) : a \in States}

IteCalls == {Call("ite", <<a, b, c>>, << >>) : a, b, c \in Shared(<<0, 2>>)}
=============================================================================
