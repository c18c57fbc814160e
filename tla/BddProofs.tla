------------------------------- MODULE BddProofs -------------------------------
(***************************************************************************)
(* Why the diagrams of bdd.c are canonical, and why its operations are     *)
(* right, for any number of variables.                                     *)
(*                                                                         *)
(* The operations compare references: bdd_par ends when a reference is     *)
(* bdd_false, bdd_makenode makes no node if two references are the same,   *)
(* and the cache is asked for references.  That they may rests on the      *)
(* shape that bdd_makenode gives to its nodes: levels grow downwards, a    *)
(* low edge has no mark, and the two edges of a node differ.               *)
(*                                                                         *)
(* Each recursive definition is shown to define a function by building the *)
(* function up to n levels, for every n.  Each operation is shown right by *)
(* induction from the constants upwards: its calls are on operands that    *)
(* lie deeper, and one step of it is right if they are.                    *)
(***************************************************************************)
EXTENDS BddOps, WellFoundedInduction, TLAPS

-----------------------------------------------------------------------------
(* Diagrams and what they mean *)

IsReference(a) ==
  /\ a = [mark |-> a.mark, local |-> a.local, node |-> a.node]
  /\ a.mark \in BOOLEAN /\ a.local \in BOOLEAN

IsNode(n, D) ==
  /\ n = [level |-> n.level, low |-> n.low, high |-> n.high]
  /\ n.level \in Level
  /\ n.low \in D /\ n.high \in D
  /\ n.level < LevelOf(n.low) /\ n.level < LevelOf(n.high)

\* A set of references with all that is below them, and their complements.
Ordered(D) ==
  \A a \in D :
    /\ IsReference(a) /\ bdd_not(a) \in D
    /\ IF IsConst(a) THEN ~a.local ELSE IsNode(a.node, D)

Reduced(n) == ~n.low.mark /\ n.low # n.high

Diagrams(D) == Ordered(D) /\ \A a \in D : ~IsConst(a) => Reduced(a.node)

\* The equation that Holds satisfies.
Means(H, D) ==
  /\ \A a \in D : H[a] \in [Env -> BOOLEAN]
  /\ \A a \in D, v \in Env : H[a][v] = IF IsConst(a) THEN a.mark ELSE H[Branch(a, v)][v]

-----------------------------------------------------------------------------
(* References *)

\* Marks and cofactors of the constants and of references.
LEMMA Marks ==
  ASSUME NEW a, IsReference(a), NEW b, IsReference(b)
  PROVE  /\ bdd_not(a) = [mark |-> ~a.mark, local |-> a.local, node |-> a.node]
         /\ bdd_transfermark(b, a) = [mark |-> a.mark # b.mark, local |-> a.local, node |-> a.node]
         /\ bdd_stripmark(a) = [mark |-> FALSE, local |-> a.local, node |-> a.node]
         /\ bdd_transfermark(b, a) = IF b.mark THEN bdd_not(a) ELSE a
         /\ bdd_stripmark(a) = IF a.mark THEN bdd_not(a) ELSE a
<1>0. PICK n : n = a.node
  OBVIOUS
<1>1. PICK m \in BOOLEAN, l \in BOOLEAN : a = [mark |-> m, local |-> l, node |-> n]
  BY <1>0 DEF IsReference
<1>2. PICK k \in BOOLEAN : b.mark = k
  BY DEF IsReference
<1>3. ASSUME NEW x PROVE [a EXCEPT !.mark = x] = [mark |-> x, local |-> l, node |-> n]
  BY <1>1
<1>4. a.mark = m /\ a.local = l /\ a.node = n
  BY <1>1
<1>5. /\ bdd_not(a) = [mark |-> ~m, local |-> l, node |-> n]
      /\ bdd_transfermark(b, a) = [mark |-> m # k, local |-> l, node |-> n]
      /\ bdd_stripmark(a) = [mark |-> FALSE, local |-> l, node |-> n]
  <2>1. bdd_not(a) = [a EXCEPT !.mark = ~a.mark]
    BY DEF bdd_not
  <2>2. bdd_transfermark(b, a) = [a EXCEPT !.mark = (a.mark # b.mark)]
    BY DEF bdd_transfermark
  <2>3. bdd_stripmark(a) = [a EXCEPT !.mark = FALSE]
    BY DEF bdd_stripmark
  <2> QED
    BY <1>2, <1>3, <1>4, <2>1, <2>2, <2>3
<1>6. (m # k) = IF k THEN ~m ELSE m
  OBVIOUS
<1>7. m = IF m THEN TRUE ELSE FALSE
  OBVIOUS
<1> QED
  <2>1. CASE k
    BY <1>1, <1>2, <1>4, <1>5, <1>6, <2>1
  <2>2. CASE ~k
    BY <1>1, <1>2, <1>4, <1>5, <1>6, <2>2
  <2> QED
    BY <2>1, <2>2

\* The node of a reference, and its cofactors.
LEMMA Below ==
  ASSUME NEW D, Ordered(D), NEW a \in D
  PROVE  /\ IsReference(a) /\ bdd_not(a) \in D
         /\ IsConst(a) => LevelOf(a) = NVars /\ ~a.local
         /\ ~IsConst(a) => /\ IsNode(a.node, D) /\ LevelOf(a) \in Level /\ LevelOf(a) = a.node.level
                           /\ node_low(a) \in D /\ node_high(a) \in D
                           /\ LevelOf(node_low(a)) = LevelOf(a.node.low)
                           /\ LevelOf(node_high(a)) = LevelOf(a.node.high)
                           /\ node_low(a) = IF a.mark THEN bdd_not(a.node.low) ELSE a.node.low
                           /\ node_high(a) = IF a.mark THEN bdd_not(a.node.high) ELSE a.node.high
<1>1. IsReference(a) /\ bdd_not(a) \in D /\ (IF IsConst(a) THEN ~a.local ELSE IsNode(a.node, D))
  BY DEF Ordered
<1>2. IsConst(a) => LevelOf(a) = NVars
  BY DEF IsConst, LevelOf, Leaf
<1>3. ASSUME NEW x \in D
      PROVE  /\ IsReference(x) /\ bdd_not(x) \in D /\ LevelOf(bdd_not(x)) = LevelOf(x)
             /\ bdd_transfermark(a, x) = IF a.mark THEN bdd_not(x) ELSE x
  <2>1. IsReference(x) /\ bdd_not(x) \in D
    BY DEF Ordered
  <2> QED
    BY <1>1, <2>1, Marks DEF LevelOf
<1>4. ASSUME ~IsConst(a)
      PROVE  /\ IsNode(a.node, D) /\ LevelOf(a) \in Level /\ a.node.low \in D /\ a.node.high \in D
  BY <1>1, <1>4 DEF IsNode, LevelOf
<1> QED
  BY <1>1, <1>2, <1>3, <1>4 DEF node_low, node_high, LevelOf

\* The smallest set of diagrams; MakenodeRight gives every other.
LEMMA Constants ==
  Diagrams({bdd_false, bdd_true})
<1>1. IsReference(bdd_false) /\ IsReference(bdd_true)
  BY DEF IsReference, bdd_false, bdd_true
<1>2. bdd_not(bdd_false) = bdd_true /\ bdd_not(bdd_true) = bdd_false
  <2>1. bdd_not(bdd_false) = [mark |-> ~bdd_false.mark, local |-> bdd_false.local, node |-> bdd_false.node]
    BY <1>1, Marks
  <2>2. bdd_not(bdd_true) = [mark |-> ~bdd_true.mark, local |-> bdd_true.local, node |-> bdd_true.node]
    BY <1>1, Marks
  <2> QED
    BY <2>1, <2>2 DEF bdd_false, bdd_true
<1>3. IsConst(bdd_false) /\ IsConst(bdd_true) /\ ~bdd_false.local /\ ~bdd_true.local
  BY DEF IsConst, bdd_false, bdd_true
<1> QED
  BY <1>1, <1>2, <1>3 DEF Ordered, Diagrams

-----------------------------------------------------------------------------
(* Induction from the constants upwards *)

\* A level is a natural number, at most that of the constants.
LEMMA Levels ==
  ASSUME NEW D, Ordered(D)
  PROVE  \A a \in D : LevelOf(a) \in Nat /\ LevelOf(a) <= NVars
<1> TAKE a \in D
<1>1. CASE IsConst(a)
  BY <1>1, Below, NVarsAssumption
<1>2. CASE ~IsConst(a)
  BY <1>2, Below, NVarsAssumption DEF Level
<1> QED
  BY <1>1, <1>2

\* What holds of a diagram if it holds of all that lie deeper, holds of all.
LEMMA Upwards ==
  ASSUME NEW D, Ordered(D), NEW S,
         \A a \in D : (\A b \in D : LevelOf(a) < LevelOf(b) => b \in S) => a \in S
  PROVE  \A a \in D : a \in S
<1> DEFINE T == {NVars - LevelOf(a) : a \in D \ S}
<1> SUFFICES ASSUME NEW c \in D, c \notin S PROVE FALSE
  OBVIOUS
<1>1. T \subseteq Nat /\ T # {}
  BY Levels, NVarsAssumption
<1>2. \E m \in T : \A n \in T : ~(<<n, m>> \in OpToRel(<, Nat))
  <2> HIDE DEF T
  <2> QED
    BY <1>1, NatLessThanWellFounded, WFMin
<1>3. PICK m \in T : \A n \in T : ~(<<n, m>> \in OpToRel(<, Nat))
  BY <1>2
<1>4. PICK a \in D : a \notin S /\ m = NVars - LevelOf(a)
  BY <1>3
<1>5. PICK b \in D : b \notin S /\ LevelOf(a) < LevelOf(b)
  BY <1>4
<1>6. NVars - LevelOf(b) \in T
  BY <1>5
<1>7. <<NVars - LevelOf(b), m>> \in OpToRel(<, Nat)
  <2>1. /\ LevelOf(a) \in Nat /\ LevelOf(a) <= NVars
        /\ LevelOf(b) \in Nat /\ LevelOf(b) <= NVars
    BY Levels
  <2>2. NVars - LevelOf(b) \in Nat /\ m \in Nat /\ NVars - LevelOf(b) < m
    BY <1>4, <1>5, <2>1, NVarsAssumption
  <2> QED
    BY <2>2 DEF OpToRel
<1> QED
  BY <1>3, <1>6, <1>7

-----------------------------------------------------------------------------
(* The meaning of a diagram *)

\* The child that an assignment chooses lies deeper.
LEMMA BranchBelow ==
  ASSUME NEW D, Ordered(D), NEW a \in D, ~IsConst(a), NEW v
  PROVE  Branch(a, v) \in D /\ LevelOf(a) < LevelOf(Branch(a, v))
<1>1. /\ IsNode(a.node, D) /\ LevelOf(a) = a.node.level
      /\ node_low(a) \in D /\ node_high(a) \in D
      /\ LevelOf(node_low(a)) = LevelOf(a.node.low)
      /\ LevelOf(node_high(a)) = LevelOf(a.node.high)
  BY Below
<1> QED
  BY <1>1 DEF Branch, IsNode

\* Induction over the naturals, for a set instead of a predicate.
LEMMA NatSet ==
  ASSUME NEW S, 0 \in S, \A n \in Nat : n \in S => n + 1 \in S
  PROVE  \A n \in Nat : n \in S
<1> DEFINE T == Nat \ S
<1> SUFFICES ASSUME T # {} PROVE FALSE
  OBVIOUS
<1>1. \E m \in T : \A n \in T : ~(<<n, m>> \in OpToRel(<, Nat))
  <2>1. T \subseteq Nat
    OBVIOUS
  <2> HIDE DEF T
  <2> QED
    BY <2>1, NatLessThanWellFounded, WFMin
<1>2. PICK m \in T : \A n \in T : ~(<<n, m>> \in OpToRel(<, Nat))
  BY <1>1
<1>3. m \in Nat /\ m # 0 /\ m \notin S
  OBVIOUS
<1>4. m - 1 \in Nat /\ m - 1 < m /\ (m - 1) + 1 = m
  BY <1>3
<1>5. <<m - 1, m>> \in OpToRel(<, Nat)
  BY <1>3, <1>4 DEF OpToRel
<1>6. m - 1 \in S
  BY <1>2, <1>4, <1>5
<1> QED
  BY <1>3, <1>4, <1>6

\* There is a meaning.
LEMMA MeaningExists ==
  ASSUME NEW D, Ordered(D)
  PROVE  \E H \in [D -> [Env -> BOOLEAN]] : Means(H, D)
<1> DEFINE Eq(H, a) == \A v \in Env : H[a][v] = IF IsConst(a) THEN a.mark ELSE H[Branch(a, v)][v]
           Upto(n) == {a \in D : NVars - LevelOf(a) <= n}
           Good(n) == \E H \in [D -> [Env -> BOOLEAN]] : \A a \in Upto(n) : Eq(H, a)
           G == {n \in Nat : Good(n)}
<1>0. \A a \in D : a.mark \in BOOLEAN
  BY Below DEF IsReference
<1>1. 0 \in G
  <2> DEFINE H == [a \in D |-> [v \in Env |-> a.mark]]
  <2>1. H \in [D -> [Env -> BOOLEAN]]
    BY <1>0
  <2>2. ASSUME NEW a \in Upto(0) PROVE Eq(H, a)
    <3>1. LevelOf(a) \in Nat /\ LevelOf(a) <= NVars /\ NVars - LevelOf(a) <= 0
      BY Levels
    <3>2. ~(LevelOf(a) \in Level)
      BY <3>1, NVarsAssumption DEF Level
    <3>3. IsConst(a)
      BY <3>2, Below
    <3> QED
      BY <3>3
  <2> QED
    BY <2>1, <2>2
<1>2. ASSUME NEW n \in Nat, n \in G PROVE n + 1 \in G
  <2>1. PICK H \in [D -> [Env -> BOOLEAN]] : \A a \in Upto(n) : Eq(H, a)
    BY <1>2
  <2> DEFINE New(a) == [v \in Env |-> IF IsConst(a) THEN a.mark ELSE H[Branch(a, v)][v]]
             K == [a \in D |-> New(a)]
  <2>2. K \in [D -> [Env -> BOOLEAN]]
    <3> SUFFICES ASSUME NEW a \in D, NEW v \in Env
                 PROVE  (IF IsConst(a) THEN a.mark ELSE H[Branch(a, v)][v]) \in BOOLEAN
      OBVIOUS
    <3>1. ~IsConst(a) => Branch(a, v) \in D
      BY BranchBelow
    <3> QED
      BY <1>0, <2>1, <3>1
  <2>3. ASSUME NEW a \in Upto(n) PROVE K[a] = H[a]
    <3>1. \A v \in Env : K[a][v] = H[a][v]
      BY <2>1
    <3> QED
      BY <2>1, <2>2, <3>1
  <2>4. ASSUME NEW a \in Upto(n + 1), NEW v \in Env
        PROVE  K[a][v] = IF IsConst(a) THEN a.mark ELSE K[Branch(a, v)][v]
    <3>1. CASE IsConst(a)
      BY <3>1
    <3>2. CASE ~IsConst(a)
      <4>1. Branch(a, v) \in D /\ LevelOf(a) < LevelOf(Branch(a, v))
        BY <3>2, BranchBelow
      <4>2. LevelOf(a) \in Nat /\ LevelOf(Branch(a, v)) \in Nat
        BY <4>1, Levels
      <4>3. Branch(a, v) \in Upto(n)
        BY <4>1, <4>2, NVarsAssumption
      <4> QED
        BY <2>3, <3>2, <4>3
    <3> QED
      BY <3>1, <3>2
  <2>5. \A a \in Upto(n + 1) : Eq(K, a)
    BY <2>4
  <2> HIDE DEF K
  <2>6. Good(n + 1)
    BY <2>2, <2>5
  <2> QED
    BY <2>6
<1>3. NVars \in G
  <2> HIDE DEF G
  <2> QED
    BY <1>1, <1>2, NatSet, NVarsAssumption
<1>4. \A a \in D : a \in Upto(NVars)
  BY Levels, NVarsAssumption
<1> QED
  BY <1>3, <1>4 DEF Means

\* A reference and its complement.
LEMMA NotProps ==
  ASSUME NEW D, Ordered(D), NEW a \in D
  PROVE  LET b == bdd_not(a) IN
         /\ b \in D /\ b.mark = ~a.mark /\ b.local = a.local /\ b.node = a.node
         /\ LevelOf(b) = LevelOf(a) /\ IsConst(b) = IsConst(a)
         /\ bdd_not(b) = a
<1>1. IsReference(a) /\ bdd_not(a) \in D
  BY Below
<1>2. bdd_not(a) = [mark |-> ~a.mark, local |-> a.local, node |-> a.node]
  BY <1>1, Marks
<1>3. PICK b : b = [mark |-> ~a.mark, local |-> a.local, node |-> a.node]
  OBVIOUS
<1>4. b.mark = ~a.mark /\ b.local = a.local /\ b.node = a.node
  BY <1>3
<1>5. bdd_not(b) = [mark |-> ~b.mark, local |-> b.local, node |-> b.node]
  <2>1. IsReference(b)
    BY <1>1, <1>3, <1>4 DEF IsReference
  <2> QED
    BY <1>1, <2>1, Marks
<1>6. ~b.mark = a.mark
  BY <1>1, <1>4 DEF IsReference
<1>7. bdd_not(b) = a
  BY <1>1, <1>4, <1>5, <1>6 DEF IsReference
<1> QED
  BY <1>1, <1>2, <1>3, <1>4, <1>7 DEF LevelOf, IsConst

\* bdd_not, which only changes the mark, negates.
THEOREM NotRight ==
  ASSUME NEW D, Ordered(D), NEW H, Means(H, D)
  PROVE  \A a \in D, v \in Env : H[bdd_not(a)][v] = ~H[a][v]
<1> DEFINE S == {a \in D : \A v \in Env : H[bdd_not(a)][v] = ~H[a][v]}
<1>1. ASSUME NEW a \in D, \A b \in D : LevelOf(a) < LevelOf(b) => b \in S
      PROVE  a \in S
  <2> SUFFICES ASSUME NEW v \in Env PROVE H[bdd_not(a)][v] = ~H[a][v]
    OBVIOUS
  <2>1. PICK b \in D : b = bdd_not(a) /\ b.mark = ~a.mark /\ b.node = a.node
                       /\ LevelOf(b) = LevelOf(a) /\ IsConst(b) = IsConst(a)
    BY NotProps
  <2>2. CASE IsConst(a)
    BY <2>1, <2>2 DEF Means
  <2>3. CASE ~IsConst(a)
    <3>1. /\ Branch(a, v) \in D /\ LevelOf(a) < LevelOf(Branch(a, v))
          /\ Branch(b, v) \in D
      BY <2>1, <2>3, BranchBelow
    <3>2. H[a][v] = H[Branch(a, v)][v] /\ H[b][v] = H[Branch(b, v)][v]
      BY <2>1, <2>3 DEF Means
    <3>3. Branch(b, v) = bdd_not(Branch(a, v))
      <4>0. /\ IsNode(a.node, D)
            /\ node_low(a) = (IF a.mark THEN bdd_not(a.node.low) ELSE a.node.low)
            /\ node_high(a) = (IF a.mark THEN bdd_not(a.node.high) ELSE a.node.high)
            /\ node_low(b) = (IF b.mark THEN bdd_not(a.node.low) ELSE a.node.low)
            /\ node_high(b) = (IF b.mark THEN bdd_not(a.node.high) ELSE a.node.high)
        BY <2>1, <2>3, Below
      <4>1. PICK x \in D : /\ Branch(a, v) = (IF a.mark THEN bdd_not(x) ELSE x)
                           /\ Branch(b, v) = (IF b.mark THEN bdd_not(x) ELSE x)
        <5>1. a.node.low \in D /\ a.node.high \in D
          BY <4>0 DEF IsNode
        <5>2. CASE v[LevelOf(a)]
          BY <2>1, <4>0, <5>1, <5>2 DEF Branch
        <5>3. CASE ~v[LevelOf(a)]
          BY <2>1, <4>0, <5>1, <5>3 DEF Branch
        <5> QED
          BY <5>2, <5>3
      <4>2. bdd_not(bdd_not(x)) = x
        BY NotProps
      <4>3. a.mark \in BOOLEAN
        BY Below DEF IsReference
      <4> QED
        BY <2>1, <4>1, <4>2, <4>3
    <3>4. Branch(a, v) \in S
      BY <1>1, <3>1
    <3> QED
      BY <2>1, <3>2, <3>3, <3>4
  <2> QED
    BY <2>2, <2>3
<1>2. \A a \in D : a \in S
  <2> HIDE DEF S
  <2> QED
    BY <1>1, Upwards
<1> QED
  BY <1>2

\* Two assignments that differ in one variable at most.
Apart(v, w, l) == \A k \in Level : k # l => v[k] = w[k]

\* An assignment with one variable off, and with it on.
LEMMA OffAndOn ==
  ASSUME NEW v \in Env, NEW l \in Level
  PROVE  /\ \E w \in Env : Apart(v, w, l) /\ ~w[l]
         /\ \E w \in Env : Apart(v, w, l) /\ w[l]
<1>1. ASSUME NEW x \in BOOLEAN
      PROVE  \E w \in Env : Apart(v, w, l) /\ w[l] = x
  <2>1. PICK w : w = [v EXCEPT ![l] = x]
    OBVIOUS
  <2>2. w \in Env /\ w[l] = x /\ Apart(v, w, l)
    BY <2>1 DEF Env, Apart
  <2> QED
    BY <2>2
<1> QED
  BY <1>1

\* A diagram does not depend on the variables above its level.
LEMMA Independent ==
  ASSUME NEW D, Ordered(D), NEW H, Means(H, D)
  PROVE  \A a \in D, v, w \in Env, l \in Level :
           l < LevelOf(a) /\ Apart(v, w, l) => H[a][v] = H[a][w]
<1> DEFINE S == {a \in D : \A v, w \in Env, l \in Level :
                   l < LevelOf(a) /\ Apart(v, w, l) => H[a][v] = H[a][w]}
<1>1. ASSUME NEW a \in D, \A b \in D : LevelOf(a) < LevelOf(b) => b \in S
      PROVE  a \in S
  <2> SUFFICES ASSUME NEW v \in Env, NEW w \in Env, NEW l \in Level,
                      l < LevelOf(a), Apart(v, w, l)
               PROVE  H[a][v] = H[a][w]
    OBVIOUS
  <2>1. CASE IsConst(a)
    BY <2>1 DEF Means
  <2>2. CASE ~IsConst(a)
    <3>1. Branch(a, v) \in D /\ LevelOf(a) < LevelOf(Branch(a, v))
      BY <2>2, BranchBelow
    <3>2. LevelOf(a) \in Level /\ LevelOf(a) # l
      BY <2>2, Below, NVarsAssumption DEF Level
    <3>3. v[LevelOf(a)] = w[LevelOf(a)]
      BY <3>2 DEF Apart
    <3>4. Branch(a, v) = Branch(a, w)
      BY <3>3 DEF Branch
    <3>5. l < LevelOf(Branch(a, v))
      <4>1. LevelOf(a) \in Nat /\ LevelOf(Branch(a, v)) \in Nat /\ l \in Nat
        BY <3>1, Levels, NVarsAssumption DEF Level
      <4> QED
        BY <3>1, <4>1
    <3>6. Branch(a, v) \in S
      BY <1>1, <3>1
    <3>7. H[Branch(a, v)][v] = H[Branch(a, v)][w]
      BY <3>5, <3>6
    <3>8. H[a][v] = H[Branch(a, v)][v] /\ H[a][w] = H[Branch(a, w)][w]
      BY <2>2 DEF Means
    <3> QED
      BY <3>4, <3>7, <3>8
  <2> QED
    BY <2>1, <2>2
<1>2. \A a \in D : a \in S
  <2> HIDE DEF S
  <2> QED
    BY <1>1, Upwards
<1> QED
  BY <1>2

\* The cofactors of the code lie deeper than the level they are taken at.
LEMMA Cofactors ==
  ASSUME NEW D, Ordered(D), NEW a \in D, NEW l \in Level, l <= LevelOf(a)
  PROVE  /\ LowAt(a, l) \in D /\ l < LevelOf(LowAt(a, l))
         /\ HighAt(a, l) \in D /\ l < LevelOf(HighAt(a, l))
<1>0. l \in Nat /\ LevelOf(a) \in Nat
  BY Levels, NVarsAssumption DEF Level
<1>1. CASE l < LevelOf(a)
  <2>1. LowAt(a, l) = a /\ HighAt(a, l) = a
    BY <1>0, <1>1 DEF LowAt, HighAt
  <2> QED
    BY <1>1, <2>1
<1>2. CASE l = LevelOf(a)
  <2>1. ~IsConst(a)
    BY <1>2, NVarsAssumption DEF IsConst, LevelOf, Leaf, Level
  <2>2. /\ LowAt(a, l) = node_low(a) /\ HighAt(a, l) = node_high(a)
        /\ IsNode(a.node, D) /\ LevelOf(a) = a.node.level
        /\ node_low(a) \in D /\ node_high(a) \in D
        /\ LevelOf(node_low(a)) = LevelOf(a.node.low)
        /\ LevelOf(node_high(a)) = LevelOf(a.node.high)
    BY <1>2, <2>1, Below DEF LowAt, HighAt
  <2> QED
    BY <1>2, <2>2 DEF IsNode
<1> QED
  BY <1>0, <1>1, <1>2

\* A diagram is the choice between them.
LEMMA Shannon ==
  ASSUME NEW D, Ordered(D), NEW H, Means(H, D), NEW a \in D, NEW l \in Level, l <= LevelOf(a)
  PROVE  \A v \in Env : H[a][v] = IF v[l] THEN H[HighAt(a, l)][v] ELSE H[LowAt(a, l)][v]
<1> TAKE v \in Env
<1>0. l \in Nat /\ LevelOf(a) \in Nat
  BY Levels, NVarsAssumption DEF Level
<1>1. CASE l < LevelOf(a)
  BY <1>0, <1>1 DEF LowAt, HighAt
<1>2. CASE l = LevelOf(a)
  <2>1. ~IsConst(a)
    BY <1>2, NVarsAssumption DEF IsConst, LevelOf, Leaf, Level
  <2>2. LowAt(a, l) = node_low(a) /\ HighAt(a, l) = node_high(a)
    BY <1>2 DEF LowAt, HighAt
  <2>3. H[a][v] = H[Branch(a, v)][v]
    BY <2>1 DEF Means
  <2> QED
    BY <1>2, <2>2, <2>3 DEF Branch
<1> QED
  BY <1>0, <1>1, <1>2

\* The two edges of a node stay different under its mark.
LEMMA ChildrenDiffer ==
  ASSUME NEW D, Diagrams(D), NEW a \in D, ~IsConst(a)
  PROVE  node_low(a) # node_high(a)
<1> Ordered(D)
  BY DEF Diagrams
<1>1. /\ node_low(a) = IF a.mark THEN bdd_not(a.node.low) ELSE a.node.low
      /\ node_high(a) = IF a.mark THEN bdd_not(a.node.high) ELSE a.node.high
      /\ IsNode(a.node, D)
  BY Below
<1>2. a.node.low \in D /\ a.node.high \in D /\ a.node.low # a.node.high
  BY <1>1 DEF IsNode, Diagrams, Reduced
<1>3. bdd_not(bdd_not(a.node.low)) = a.node.low /\ bdd_not(bdd_not(a.node.high)) = a.node.high
  BY <1>2, NotProps
<1> QED
  BY <1>1, <1>2, <1>3

-----------------------------------------------------------------------------
(* What the code takes for granted *)

\* No node of the diagrams is in the store of a machine.
Shared(D) == \A a \in D : ~a.local

\* A node made in the shared table, or by the loader in the local store, keeps
\* the shape and means a choice by its variable: for any low and high that lie
\* deeper than the level, whatever their marks and whichever stores they are in.
THEOREM MakenodeRight ==
  ASSUME NEW D, Diagrams(D), NEW low \in D, NEW high \in D,
         NEW l \in Level, l < LevelOf(low), l < LevelOf(high),
         NEW r, NEW k \in BOOLEAN,
         r = IF k THEN bdd_makenode_local(l, low, high) ELSE bdd_makenode(l, low, high),
         NEW E, E = D \cup {r, bdd_not(r)}
  PROVE  /\ Diagrams(E) /\ (Shared(D) /\ ~k => Shared(E))
         /\ l <= LevelOf(r) /\ LowAt(r, l) = low /\ HighAt(r, l) = high
         /\ \A H : Means(H, E) =>
              \A v \in Env : H[r][v] = IF v[l] THEN H[high][v] ELSE H[low][v]
<1> Ordered(D)
  BY DEF Diagrams
<1>0. l \in Nat /\ LevelOf(low) \in Nat
  BY Levels, NVarsAssumption DEF Level
<1>1. CASE low = high
  <2>1. r = low
    BY <1>1 DEF bdd_makenode, bdd_makenode_local
  <2>2. E = D
    BY <2>1, NotProps
  <2>3. LowAt(low, l) = low /\ HighAt(low, l) = low
    BY <1>0 DEF LowAt, HighAt
  <2>4. l <= LevelOf(low)
    BY <1>0
  <2> QED
    BY <1>1, <2>1, <2>2, <2>3, <2>4
<1>2. CASE low # high
  <2>1. /\ IsReference(low) /\ IsReference(high)
        /\ bdd_not(low) \in D /\ bdd_not(high) \in D
        /\ bdd_not(low).mark = ~low.mark
        /\ LevelOf(bdd_not(low)) = LevelOf(low) /\ LevelOf(bdd_not(high)) = LevelOf(high)
        /\ bdd_not(bdd_not(low)) = low /\ bdd_not(bdd_not(high)) = high
    BY Below, NotProps
  <2>2. PICK lo \in D : lo = (IF low.mark THEN bdd_not(low) ELSE low)
    BY <2>1
  <2>3. PICK hi \in D : hi = (IF low.mark THEN bdd_not(high) ELSE high)
    BY <2>1
  <2>4. PICK n : n = [level |-> l, low |-> lo, high |-> hi]
    OBVIOUS
  <2>5. PICK m \in BOOLEAN : m = low.mark
    BY <2>1 DEF IsReference
  <2>6. r = [mark |-> m, local |-> k, node |-> n]
    <3>1. bdd_stripmark(low) = lo /\ bdd_transfermark(low, high) = hi
      BY <2>1, <2>2, <2>3, Marks
    <3> QED
      BY <1>2, <2>4, <2>5, <3>1 DEF bdd_makenode, bdd_makenode_local, Reference
  <2>7. lo # hi /\ ~lo.mark /\ l < LevelOf(lo) /\ l < LevelOf(hi)
    BY <1>2, <2>1, <2>2, <2>3
  <2>8. IsNode(n, D) /\ Reduced(n) /\ n.level = l /\ n.low = lo /\ n.high = hi
    BY <2>4, <2>7 DEF IsNode, Reduced
  <2>9. IsReference(r) /\ r.mark = m /\ r.node = n /\ LevelOf(r) = l /\ r.local = k
    BY <2>6, <2>8 DEF IsReference, LevelOf
  <2>10. PICK s : s = bdd_not(r)
    OBVIOUS
  <2>11. s = [mark |-> ~m, local |-> k, node |-> n]
    <3>1. bdd_not(r) = [mark |-> ~r.mark, local |-> r.local, node |-> r.node]
      BY <2>9, Marks
    <3> QED
      BY <2>9, <2>10, <3>1
  <2>12. IsReference(s) /\ s.mark = ~m /\ s.node = n
    BY <2>11 DEF IsReference
  <2>13. bdd_not(s) = r
    <3>1. bdd_not(s) = [mark |-> ~s.mark, local |-> s.local, node |-> s.node]
      BY <2>9, <2>12, Marks
    <3> QED
      BY <2>6, <2>11, <3>1
  <2>14. ~IsConst(r) /\ ~IsConst(s)
    <3>1. n.level # NVars
      BY <1>0, <2>8, NVarsAssumption DEF Level
    <3> QED
      BY <2>9, <2>12, <3>1 DEF IsConst, Leaf
  <2>15. \A x : IsNode(x, D) => IsNode(x, E)
    BY DEF IsNode
  <2>16. Diagrams(E)
    <3> SUFFICES ASSUME NEW a \in E
                 PROVE  /\ IsReference(a) /\ bdd_not(a) \in E
                        /\ IF IsConst(a) THEN ~a.local ELSE IsNode(a.node, E)
                        /\ ~IsConst(a) => Reduced(a.node)
      BY DEF Diagrams, Ordered
    <3>1. CASE a \in D
      BY <2>15, <3>1 DEF Diagrams, Ordered
    <3>2. CASE a = r
      BY <2>8, <2>9, <2>14, <2>15, <3>2
    <3>3. CASE a = s
      BY <2>8, <2>12, <2>13, <2>14, <2>15, <3>3
    <3> QED
      BY <2>10, <3>1, <3>2, <3>3
  <2>17. LowAt(r, l) = low /\ HighAt(r, l) = high
    <3>1. IsReference(lo) /\ IsReference(hi)
      BY Below
    <3>2. /\ bdd_transfermark(r, lo) = IF m THEN bdd_not(lo) ELSE lo
          /\ bdd_transfermark(r, hi) = IF m THEN bdd_not(hi) ELSE hi
      BY <2>9, <3>1, Marks
    <3>3. node_low(r) = bdd_transfermark(r, lo) /\ node_high(r) = bdd_transfermark(r, hi)
      BY <2>8, <2>9 DEF node_low, node_high
    <3>4. LowAt(r, l) = node_low(r) /\ HighAt(r, l) = node_high(r)
      BY <2>9 DEF LowAt, HighAt
    <3> QED
      BY <2>1, <2>2, <2>3, <2>5, <3>2, <3>3, <3>4
  <2>18. ASSUME NEW H, Means(H, E), NEW v \in Env
         PROVE  H[r][v] = IF v[l] THEN H[high][v] ELSE H[low][v]
    <3>1. r \in E
      OBVIOUS
    <3>2. l <= LevelOf(r)
      BY <1>0, <2>9
    <3>3. H[r][v] = IF v[l] THEN H[HighAt(r, l)][v] ELSE H[LowAt(r, l)][v]
      <4>1. Ordered(E)
        BY <2>16 DEF Diagrams
      <4> QED
        BY <2>18, <3>1, <3>2, <4>1, Shannon
    <3> QED
      BY <2>17, <3>3
  <2>19. l <= LevelOf(r)
    BY <1>0, <2>9
  <2>20. Shared(D) /\ ~k => Shared(E)
    BY <2>6, <2>10, <2>11 DEF Shared
  <2> QED
    BY <2>16, <2>17, <2>18, <2>19, <2>20
<1> QED
  BY <1>1, <1>2

\* Two diagrams in the shared table have the same meaning only if they are
\* the same reference: the operations may compare references, and a result
\* found in the cache is the one that the operation would make.
THEOREM Canonical ==
  ASSUME NEW D, Diagrams(D), Shared(D), NEW H, Means(H, D)
  PROVE  \A a, b \in D : (\A v \in Env : H[a][v] = H[b][v]) => a = b
<1> Ordered(D)
  BY DEF Diagrams
<1> DEFINE Same(a, b) == \A v \in Env : H[a][v] = H[b][v]
           S == {a \in D : \A b \in D : LevelOf(a) <= LevelOf(b) /\ Same(a, b) => a = b}
<1>1. ASSUME NEW a \in D, \A b \in D : LevelOf(a) < LevelOf(b) => b \in S
      PROVE  a \in S
  <2> SUFFICES ASSUME NEW b \in D, LevelOf(a) <= LevelOf(b), Same(a, b) PROVE a = b
    OBVIOUS
  <2>0. LevelOf(a) \in Nat /\ LevelOf(b) \in Nat
    BY Levels
  <2>1. IsReference(a) /\ IsReference(b) /\ ~a.local /\ ~b.local
    BY Below DEF Shared
  <2>2. CASE IsConst(a)
    <3>1. IsConst(b)
      <4>1. LevelOf(a) = NVars
        BY <2>2, Below
      <4>2. LevelOf(b) \notin Level
        BY <2>0, <4>1, NVarsAssumption DEF Level
      <4> QED
        BY <4>2, Below
    <3>2. [l \in Level |-> FALSE] \in Env
      BY DEF Env
    <3>3. a.mark = b.mark
      BY <2>2, <3>1, <3>2 DEF Means
    <3>4. a.node = b.node
      BY <2>2, <3>1 DEF IsConst
    <3> QED
      BY <2>1, <3>3, <3>4 DEF IsReference
  <2>3. CASE ~IsConst(a)
    <3> DEFINE l == LevelOf(a)
    <3>1. l \in Level /\ IsNode(a.node, D) /\ LevelOf(a) = a.node.level
      BY <2>3, Below
    <3>2. PICK p \in D : p = LowAt(a, l)
      BY <2>0, <3>1, Cofactors
    <3>3. PICK q \in D : q = HighAt(a, l)
      BY <2>0, <3>1, Cofactors
    <3>4. PICK s \in D : s = LowAt(b, l)
      BY <2>0, <3>1, Cofactors
    <3>5. PICK t \in D : t = HighAt(b, l)
      BY <2>0, <3>1, Cofactors
    <3>6. /\ l < LevelOf(p) /\ l < LevelOf(q) /\ l < LevelOf(s) /\ l < LevelOf(t)
          /\ \A v \in Env : /\ H[a][v] = IF v[l] THEN H[q][v] ELSE H[p][v]
                            /\ H[b][v] = IF v[l] THEN H[t][v] ELSE H[s][v]
      <4>1. l <= LevelOf(a)
        BY <2>0
      <4> QED
        BY <3>1, <3>2, <3>3, <3>4, <3>5, <4>1, Cofactors, Shannon
    <3>7. ASSUME NEW x \in D, NEW y \in D, l < LevelOf(x), l < LevelOf(y), Same(x, y)
          PROVE  x = y
      <4>1. x \in S /\ y \in S
        BY <1>1, <3>7
      <4>2. LevelOf(x) \in Nat /\ LevelOf(y) \in Nat
        BY Levels
      <4>3. LevelOf(x) <= LevelOf(y) \/ LevelOf(y) <= LevelOf(x)
        BY <4>2
      <4>4. Same(y, x)
        BY <3>7
      <4> QED
        BY <3>7, <4>1, <4>3, <4>4
    <3>8. ASSUME NEW v \in Env PROVE H[p][v] = H[s][v] /\ H[q][v] = H[t][v]
      <4>1. PICK w \in Env : Apart(v, w, l) /\ ~w[l]
        BY <3>1, OffAndOn
      <4>2. PICK u \in Env : Apart(v, u, l) /\ u[l]
        BY <3>1, OffAndOn
      <4>3. H[p][v] = H[p][w] /\ H[s][v] = H[s][w]
        BY <3>1, <3>6, <4>1, Independent
      <4>4. H[q][v] = H[q][u] /\ H[t][v] = H[t][u]
        BY <3>1, <3>6, <4>2, Independent
      <4>5. H[a][w] = H[b][w] /\ H[a][u] = H[b][u]
        OBVIOUS
      <4>6. H[p][w] = H[s][w]
        BY <3>6, <4>1, <4>5
      <4>7. H[q][u] = H[t][u]
        BY <3>6, <4>2, <4>5
      <4> QED
        BY <4>3, <4>4, <4>6, <4>7
    <3>9. Same(p, s) /\ Same(q, t)
      BY <3>8
    <3>10. p = s /\ q = t
      BY <3>6, <3>7, <3>9
    <3>11. p # q
      BY <2>3, <3>2, <3>3, ChildrenDiffer DEF LowAt, HighAt
    <3>12. CASE l < LevelOf(b)
      <4>1. s = b /\ t = b
        BY <2>0, <3>4, <3>5, <3>12 DEF LowAt, HighAt
      <4> QED
        BY <3>10, <3>11, <4>1
    <3>13. CASE l = LevelOf(b)
      <4>1. ~IsConst(b)
        <5>1. LevelOf(b) # NVars
          BY <3>1, <3>13, NVarsAssumption DEF Level
        <5> QED
          BY <5>1, Below
      <4>2. /\ IsNode(b.node, D) /\ b.node.level = l
            /\ p = IF b.mark THEN bdd_not(b.node.low) ELSE b.node.low
            /\ q = IF b.mark THEN bdd_not(b.node.high) ELSE b.node.high
        BY <3>4, <3>5, <3>10, <3>13, <4>1, Below DEF LowAt, HighAt
      <4>3. /\ p = IF a.mark THEN bdd_not(a.node.low) ELSE a.node.low
            /\ q = IF a.mark THEN bdd_not(a.node.high) ELSE a.node.high
        BY <2>3, <3>2, <3>3, Below DEF LowAt, HighAt
      <4>4. /\ a.node.low \in D /\ a.node.high \in D /\ ~a.node.low.mark
            /\ b.node.low \in D /\ b.node.high \in D /\ ~b.node.low.mark
        BY <2>3, <3>1, <4>1, <4>2 DEF IsNode, Diagrams, Reduced
      <4>5. /\ bdd_not(a.node.low).mark /\ bdd_not(b.node.low).mark
            /\ bdd_not(bdd_not(a.node.low)) = a.node.low
            /\ bdd_not(bdd_not(b.node.low)) = b.node.low
            /\ bdd_not(bdd_not(a.node.high)) = a.node.high
            /\ bdd_not(bdd_not(b.node.high)) = b.node.high
        BY <4>4, NotProps
      <4>6. a.mark = b.mark
        <5>1. a.mark \in BOOLEAN /\ b.mark \in BOOLEAN
          BY <2>1 DEF IsReference
        <5> QED
          BY <4>2, <4>3, <4>4, <4>5, <5>1
      <4>7. a.node.low = b.node.low /\ a.node.high = b.node.high
        BY <4>2, <4>3, <4>5, <4>6
      <4>8. a.node = b.node
        BY <3>1, <4>2, <4>7 DEF IsNode
      <4> QED
        BY <2>1, <4>6, <4>8 DEF IsReference
    <3> QED
      BY <2>0, <3>12, <3>13
  <2> QED
    BY <2>2, <2>3
<1>2. \A a \in D : a \in S
  <2> HIDE DEF S
  <2> QED
    BY <1>1, Upwards
<1> SUFFICES ASSUME NEW a \in D, NEW b \in D, Same(a, b) PROVE a = b
  OBVIOUS
<1>3. LevelOf(a) <= LevelOf(b) \/ LevelOf(b) <= LevelOf(a)
  BY Levels
<1>4. Same(b, a)
  OBVIOUS
<1> QED
  BY <1>2, <1>3, <1>4

\* A diagram of no assignment is the constant false, whichever stores its nodes
\* are in: bdd_par ends its loop on that test.
THEOREM EmptyIsFalse ==
  ASSUME NEW D, Diagrams(D), NEW H, Means(H, D)
  PROVE  \A a \in D : (\A v \in Env : ~H[a][v]) <=> IsFalse(a)
<1> Ordered(D)
  BY DEF Diagrams
<1> DEFINE Flat(a) == \A v, w \in Env : H[a][v] = H[a][w]
           S == {a \in D : Flat(a) => IsConst(a)}
<1>0. [k \in Level |-> FALSE] \in Env
  BY DEF Env
<1>1. ASSUME NEW a \in D, \A b \in D : LevelOf(a) < LevelOf(b) => b \in S
      PROVE  a \in S
  <2> SUFFICES ASSUME Flat(a), ~IsConst(a) PROVE FALSE
    OBVIOUS
  <2> DEFINE l == LevelOf(a)
  <2>1. l \in Level /\ IsNode(a.node, D) /\ l <= LevelOf(a)
    BY Below, Levels
  <2>2. PICK p \in D : p = LowAt(a, l) /\ l < LevelOf(p)
    BY <2>1, Cofactors
  <2>3. PICK q \in D : q = HighAt(a, l) /\ l < LevelOf(q)
    BY <2>1, Cofactors
  <2>4. \A v \in Env : H[a][v] = IF v[l] THEN H[q][v] ELSE H[p][v]
    BY <2>1, <2>2, <2>3, Shannon
  <2>5. PICK x : \A v \in Env : H[a][v] = x
    <3>1. \A v \in Env : H[a][v] = H[a][[k \in Level |-> FALSE]]
      BY <1>0
    <3> QED
      BY <3>1
  <2>6. ASSUME NEW v \in Env PROVE H[p][v] = x /\ H[q][v] = x
    <3>1. PICK w \in Env : Apart(v, w, l) /\ ~w[l]
      BY <2>1, OffAndOn
    <3>2. PICK u \in Env : Apart(v, u, l) /\ u[l]
      BY <2>1, OffAndOn
    <3>3. H[p][v] = H[p][w] /\ H[q][v] = H[q][u]
      BY <2>1, <2>2, <2>3, <3>1, <3>2, Independent
    <3>4. H[p][w] = x /\ H[q][u] = x
      BY <2>4, <2>5, <3>1, <3>2
    <3> QED
      BY <3>3, <3>4
  <2>7. IsConst(p) /\ IsConst(q)
    <3>1. Flat(p) /\ Flat(q)
      BY <2>6
    <3>2. p \in S /\ q \in S
      BY <1>1, <2>2, <2>3
    <3> QED
      BY <3>1, <3>2
  <2>8. p.mark = q.mark
    <3>1. PICK v \in Env : v = [k \in Level |-> FALSE]
      BY <1>0
    <3>2. H[p][v] = H[q][v]
      BY <2>6
    <3> QED
      BY <2>7, <3>2 DEF Means
  <2>9. p = q
    <3>1. IsReference(p) /\ IsReference(q) /\ ~p.local /\ ~q.local
      BY <2>7, Below
    <3> QED
      BY <2>7, <2>8, <3>1 DEF IsReference, IsConst
  <2>10. p # q
    BY <2>1, <2>2, <2>3, ChildrenDiffer DEF LowAt, HighAt
  <2> QED
    BY <2>9, <2>10
<1>2. \A a \in D : a \in S
  <2> HIDE DEF S
  <2> QED
    BY <1>1, Upwards
<1> TAKE a \in D
<1>3. ASSUME \A v \in Env : ~H[a][v] PROVE IsFalse(a)
  <2>1. \A v \in Env : H[a][v] = FALSE
    <3>1. \A v \in Env : H[a][v] \in BOOLEAN
      BY DEF Means
    <3> QED
      BY <1>3, <3>1
  <2>2. IsConst(a)
    BY <1>2, <2>1
  <2>3. ~a.mark
    BY <1>0, <1>3, <2>2 DEF Means
  <2> QED
    BY <2>2, <2>3 DEF IsFalse
<1>4. ASSUME IsFalse(a) PROVE \A v \in Env : ~H[a][v]
  BY <1>4 DEF IsFalse, Means
<1> QED
  BY <1>3, <1>4

-----------------------------------------------------------------------------
(* The references of an instance *)

\* The step from n levels to n + 1.
Over(R, n) ==
  R \cup [mark : BOOLEAN, local : BOOLEAN,
          node : [level : {NVars - n}, low : R, high : R]]

RefOverUpto(f, n) ==
  /\ f = [k \in 0 .. NVars |-> f[k]]
  /\ \A k \in 0 .. n : f[k] = IF k = 0 THEN {bdd_false, bdd_true} ELSE Over(f[k - 1], k)

\* The recursive definition of RefOver has a function.
LEMMA RefOverExists ==
  \E f : f = [n \in 0 .. NVars |-> IF n = 0 THEN {bdd_false, bdd_true} ELSE Over(f[n - 1], n)]
<1> DEFINE S == {n \in Nat : n <= NVars => \E f : RefOverUpto(f, n)}
<1>1. 0 \in S
  <2> DEFINE f == [k \in 0 .. NVars |-> {bdd_false, bdd_true}]
  <2>1. f[0] = {bdd_false, bdd_true} /\ f = [k \in 0 .. NVars |-> f[k]]
    BY NVarsAssumption
  <2> HIDE DEF f
  <2>2. \A k \in 0 .. 0 : k = 0
    OBVIOUS
  <2>3. RefOverUpto(f, 0)
    BY <2>1, <2>2, Zenon DEF RefOverUpto
  <2> QED
    BY <2>3
<1>2. ASSUME NEW n \in Nat, n \in S PROVE n + 1 \in S
  <2> SUFFICES ASSUME n + 1 <= NVars PROVE \E f : RefOverUpto(f, n + 1)
    OBVIOUS
  <2>1. PICK f : RefOverUpto(f, n)
    BY <1>2, NVarsAssumption
  <2> DEFINE g == [k \in 0 .. NVars |-> IF k = n + 1 THEN Over(f[n], n + 1) ELSE f[k]]
  <2>2. \A k \in 0 .. n : g[k] = f[k]
    BY NVarsAssumption
  <2>3. g[n + 1] = Over(f[n], n + 1) /\ g = [k \in 0 .. NVars |-> g[k]]
    BY NVarsAssumption
  <2> HIDE DEF g
  <2>4. ASSUME NEW k \in 0 .. n + 1 PROVE g[k] = IF k = 0 THEN {bdd_false, bdd_true} ELSE Over(g[k - 1], k)
    <3>1. CASE k = n + 1
      <4>1. k # 0 /\ k - 1 = n /\ n \in 0 .. n
        BY <3>1
      <4> QED
        BY <2>2, <2>3, <3>1, <4>1
    <3>2. CASE k # n + 1
      <4>1. k \in 0 .. n /\ (k # 0 => k - 1 \in 0 .. n)
        BY <3>2
      <4>2. f[k] = IF k = 0 THEN {bdd_false, bdd_true} ELSE Over(f[k - 1], k)
        BY <2>1, <4>1 DEF RefOverUpto
      <4> QED
        BY <2>2, <4>1, <4>2
    <3> QED
      BY <3>1, <3>2
  <2> QED
    BY <2>3, <2>4 DEF RefOverUpto
<1>3. NVars \in S
  <2> HIDE DEF S
  <2> QED
    BY <1>1, <1>2, NatSet, NVarsAssumption
<1>4. PICK f : RefOverUpto(f, NVars)
  BY <1>3, NVarsAssumption
<1>5. f = [n \in 0 .. NVars |-> IF n = 0 THEN {bdd_false, bdd_true} ELSE Over(f[n - 1], n)]
  BY <1>4 DEF RefOverUpto
<1> QED
  BY <1>5

\* RefOver satisfies its equation.
LEMMA RefOverIs ==
  /\ RefOver[0] = {bdd_false, bdd_true}
  /\ \A n \in 0 .. NVars : n # 0 => RefOver[n] = Over(RefOver[n - 1], n)
<1> DEFINE Is(f) == f = [n \in 0 .. NVars |-> IF n = 0 THEN {bdd_false, bdd_true} ELSE Over(f[n - 1], n)]
<1>1. RefOver = CHOOSE f : Is(f)
  BY DEF RefOver, Over
<1>2. \E f : Is(f)
  BY RefOverExists
<1>3. Is(RefOver)
  <2> HIDE DEF Is
  <2> QED
    BY <1>1, <1>2
<1>4. 0 \in 0 .. NVars
  BY NVarsAssumption
<1> QED
  BY <1>3, <1>4

\* References over n levels: the constants, and nodes of those levels over
\* references of the deeper ones.
LEMMA RefShape ==
  \A n \in Nat : n <= NVars =>
    /\ Ordered(RefOver[n])
    /\ bdd_false \in RefOver[n] /\ bdd_true \in RefOver[n]
    /\ \A a \in RefOver[n] : NVars - n <= LevelOf(a)
<1> DEFINE P(n) == /\ Ordered(RefOver[n])
                   /\ bdd_false \in RefOver[n] /\ bdd_true \in RefOver[n]
                   /\ \A a \in RefOver[n] : NVars - n <= LevelOf(a)
           S == {n \in Nat : n <= NVars => P(n)}
<1>1. 0 \in S
  <2>1. Ordered({bdd_false, bdd_true})
    BY Constants DEF Diagrams
  <2>2. LevelOf(bdd_false) = NVars /\ LevelOf(bdd_true) = NVars
    BY DEF LevelOf, bdd_false, bdd_true, Leaf
  <2>3. P(0)
    BY <2>1, <2>2, RefOverIs, NVarsAssumption
  <2> QED
    BY <2>3
<1>2. ASSUME NEW n \in Nat, n \in S PROVE n + 1 \in S
  <2> SUFFICES ASSUME n + 1 <= NVars PROVE P(n + 1)
    OBVIOUS
  <2>1. PICK R : R = RefOver[n]
    OBVIOUS
  <2>2. PICK E : E = RefOver[n + 1]
    OBVIOUS
  <2>3. P(n)
    BY <1>2, NVarsAssumption
  <2>4. Ordered(R) /\ \A a \in R : NVars - n <= LevelOf(a)
    BY <2>1, <2>3
  <2>5. E = Over(R, n + 1)
    <3>1. n + 1 \in 0 .. NVars /\ n + 1 # 0 /\ (n + 1) - 1 = n
      BY NVarsAssumption
    <3> QED
      BY <2>1, <2>2, <3>1, RefOverIs
  <2>6. PICK l : l = NVars - (n + 1)
    OBVIOUS
  <2>7. l \in Level /\ l \in Nat
    BY <2>6, NVarsAssumption DEF Level
  <2>8. \A x : IsNode(x, R) => IsNode(x, E)
    BY <2>5 DEF IsNode, Over
  <2>9. ASSUME NEW a \in E, a \notin R
        PROVE  IsReference(a) /\ bdd_not(a) \in E /\ ~IsConst(a) /\ IsNode(a.node, E) /\ LevelOf(a) = l
    <3>1. a \in [mark : BOOLEAN, local : BOOLEAN, node : [level : {l}, low : R, high : R]]
      BY <2>5, <2>6, <2>9 DEF Over
    <3>2. PICK nd \in [level : {l}, low : R, high : R] : a.node = nd
      BY <3>1
    <3>3. IsReference(a)
      BY <3>1 DEF IsReference
    <3>4. bdd_not(a) = [mark |-> ~a.mark, local |-> a.local, node |-> a.node]
      BY <3>3, Marks
    <3>5. bdd_not(a) \in [mark : BOOLEAN, local : BOOLEAN, node : [level : {l}, low : R, high : R]]
      BY <3>1, <3>4
    <3>6. bdd_not(a) \in E
      BY <2>5, <2>6, <3>5 DEF Over
    <3>7. nd.level = l /\ nd.low \in R /\ nd.high \in R /\ nd = [level |-> nd.level, low |-> nd.low, high |-> nd.high]
      BY <3>2
    <3>8. LevelOf(nd.low) \in Nat /\ LevelOf(nd.high) \in Nat
      BY <2>4, <3>7, Levels
    <3>9. l < LevelOf(nd.low) /\ l < LevelOf(nd.high)
      BY <2>4, <2>6, <3>7, <3>8, NVarsAssumption
    <3>10. IsNode(nd, E)
      BY <2>5, <2>7, <3>7, <3>9 DEF IsNode, Over
    <3>11. LevelOf(a) = l /\ ~IsConst(a)
      BY <2>7, <3>2, <3>7, NVarsAssumption DEF LevelOf, IsConst, Leaf, Level
    <3> QED
      BY <3>2, <3>3, <3>6, <3>10, <3>11
  <2>10. R \subseteq E
    BY <2>5 DEF Over
  <2>11. Ordered(E)
    <3> SUFFICES ASSUME NEW a \in E
                 PROVE  /\ IsReference(a) /\ bdd_not(a) \in E
                        /\ IF IsConst(a) THEN ~a.local ELSE IsNode(a.node, E)
      BY DEF Ordered
    <3>1. CASE a \in R
      BY <2>4, <2>8, <2>10, <3>1 DEF Ordered
    <3>2. CASE a \notin R
      BY <2>9, <3>2
    <3> QED
      BY <3>1, <3>2
  <2>12. ASSUME NEW a \in E PROVE l <= LevelOf(a)
    <3>1. CASE a \in R
      <4>1. LevelOf(a) \in Nat /\ NVars - n <= LevelOf(a)
        BY <2>4, <3>1, Levels
      <4> QED
        BY <2>6, <4>1, NVarsAssumption
    <3>2. CASE a \notin R
      BY <2>7, <2>9, <3>2
    <3> QED
      BY <3>1, <3>2
  <2> QED
    BY <2>1, <2>2, <2>3, <2>6, <2>10, <2>11, <2>12
<1>3. \A n \in Nat : n \in S
  <2> HIDE DEF S
  <2> QED
    BY <1>1, <1>2, NatSet
<1> QED
  BY <1>3

\* A reference of a level is one of the levels from there on.
LEMMA RefDeep ==
  ASSUME NEW n \in Nat, n <= NVars
  PROVE  \A a \in Ref : NVars - n <= LevelOf(a) => a \in RefOver[n]
<1> DEFINE P(m) == \A a \in RefOver[m] : NVars - n <= LevelOf(a) => a \in RefOver[n]
           S == {k \in Nat : n + k <= NVars => P(n + k)}
<1>1. 0 \in S
  OBVIOUS
<1>2. ASSUME NEW k \in Nat, k \in S PROVE k + 1 \in S
  <2> SUFFICES ASSUME n + (k + 1) <= NVars, NEW a \in RefOver[n + (k + 1)], NVars - n <= LevelOf(a)
               PROVE  a \in RefOver[n]
    OBVIOUS
  <2>1. PICK m \in 0 .. NVars : m = n + (k + 1)
    BY NVarsAssumption
  <2>2. m # 0 /\ m - 1 = n + k /\ n + k <= NVars
    BY <2>1, NVarsAssumption
  <2>3. RefOver[m] = Over(RefOver[m - 1], m)
    BY <2>2, RefOverIs
  <2>4. CASE a \in RefOver[m - 1]
    BY <1>2, <2>2, <2>4
  <2>5. CASE a \notin RefOver[m - 1]
    <3>1. a.node.level = NVars - m
      BY <2>1, <2>3, <2>5 DEF Over
    <3> QED
      BY <2>1, <3>1, NVarsAssumption DEF LevelOf
  <2> QED
    BY <2>4, <2>5
<1>3. \A k \in Nat : k \in S
  <2> HIDE DEF S
  <2> QED
    BY <1>1, <1>2, NatSet
<1>4. NVars - n \in Nat /\ n + (NVars - n) = NVars
  BY NVarsAssumption
<1>5. P(NVars)
  BY <1>3, <1>4, NVarsAssumption
<1> QED
  BY <1>5 DEF Ref

\* The references of an instance are diagrams, their edges not always reduced.
LEMMA RefOrdered ==
  /\ Ordered(Ref) /\ bdd_false \in Ref /\ bdd_true \in Ref
  BY RefShape, NVarsAssumption DEF Ref

\* A node over references of deeper levels is one of them.
LEMMA RefNode ==
  ASSUME NEW l \in Level, NEW low \in Ref, NEW high \in Ref, l < LevelOf(low), l < LevelOf(high),
         NEW mk \in BOOLEAN, NEW lc \in BOOLEAN
  PROVE  [mark |-> mk, local |-> lc, node |-> [level |-> l, low |-> low, high |-> high]] \in Ref
<1>1. PICK n \in Nat : n = NVars - l /\ n # 0 /\ n - 1 \in Nat /\ n - 1 <= NVars /\ n \in 0 .. NVars
  BY NVarsAssumption DEF Level
<1>2. LevelOf(low) \in Nat /\ LevelOf(high) \in Nat /\ l \in Nat
  BY RefOrdered, Levels, NVarsAssumption DEF Level
<1>3. NVars - (n - 1) <= LevelOf(low) /\ NVars - (n - 1) <= LevelOf(high)
  BY <1>1, <1>2, NVarsAssumption
<1>4. low \in RefOver[n - 1] /\ high \in RefOver[n - 1]
  BY <1>1, <1>3, RefDeep
<1>5. PICK a : a = [mark |-> mk, local |-> lc, node |-> [level |-> l, low |-> low, high |-> high]]
  OBVIOUS
<1>6. a \in RefOver[n]
  <2>1. RefOver[n] = Over(RefOver[n - 1], n)
    BY <1>1, RefOverIs
  <2>2. l = NVars - n
    BY <1>1, <1>2, NVarsAssumption
  <2> QED
    BY <1>4, <1>5, <2>1, <2>2 DEF Over
<1>7. \A k \in Nat : n + k <= NVars => a \in RefOver[n + k]
  <2> DEFINE S == {k \in Nat : n + k <= NVars => a \in RefOver[n + k]}
  <2>1. 0 \in S
    BY <1>6
  <2>2. ASSUME NEW k \in Nat, k \in S PROVE k + 1 \in S
    <3> SUFFICES ASSUME n + (k + 1) <= NVars PROVE a \in RefOver[n + (k + 1)]
      OBVIOUS
    <3>1. PICK m \in 0 .. NVars : m = n + (k + 1) /\ m # 0 /\ m - 1 = n + k
      BY NVarsAssumption
    <3>2. a \in RefOver[m - 1]
      BY <2>2, <3>1, NVarsAssumption
    <3> QED
      BY <3>1, <3>2, RefOverIs DEF Over
  <2>3. \A k \in Nat : k \in S
    <3> HIDE DEF S
    <3> QED
      BY <2>1, <2>2, NatSet
  <2> QED
    BY <2>3
<1>8. NVars - n \in Nat /\ n + (NVars - n) = NVars
  BY <1>1, NVarsAssumption
<1> QED
  BY <1>5, <1>7, <1>8, NVarsAssumption DEF Ref

-----------------------------------------------------------------------------
(* The recursive definitions of BddMeaning define functions *)

\* Holds is the meaning of every reference.
LEMMA HoldsIs ==
  Means(Holds, Ref)
<1> DEFINE Is(f) == f = [a \in Ref |-> [v \in Env |-> IF IsConst(a) THEN a.mark ELSE f[Branch(a, v)][v]]]
<1>1. PICK H \in [Ref -> [Env -> BOOLEAN]] : Means(H, Ref)
  BY RefOrdered, MeaningExists
<1>2. Is(H)
  <2>1. ASSUME NEW a \in Ref
        PROVE  H[a] = [v \in Env |-> IF IsConst(a) THEN a.mark ELSE H[Branch(a, v)][v]]
    <3>1. H[a] = [v \in Env |-> H[a][v]]
      OBVIOUS
    <3> QED
      BY <1>1, <3>1 DEF Means
  <2> QED
    BY <2>1
<1>3. Holds = CHOOSE f : Is(f)
  BY DEF Holds
<1>4. Is(Holds)
  <2> HIDE DEF Is
  <2> QED
    BY <1>2, <1>3
<1>5. \A a \in Ref, v \in Env : Holds[a][v] = IF IsConst(a) THEN a.mark ELSE Holds[Branch(a, v)][v]
  BY <1>4
<1>6. \A a \in Ref : Holds[a] \in [Env -> BOOLEAN]
  <2> DEFINE S == {a \in Ref : Holds[a] \in [Env -> BOOLEAN]}
  <2>1. ASSUME NEW a \in Ref, \A b \in Ref : LevelOf(a) < LevelOf(b) => b \in S
        PROVE  a \in S
    <3>1. Holds[a] = [v \in Env |-> IF IsConst(a) THEN a.mark ELSE Holds[Branch(a, v)][v]]
      BY <1>4
    <3>2. ASSUME NEW v \in Env
          PROVE  (IF IsConst(a) THEN a.mark ELSE Holds[Branch(a, v)][v]) \in BOOLEAN
      <4>1. CASE IsConst(a)
        <5>1. IsReference(a)
          BY RefOrdered, Below
        <5> QED
          BY <4>1, <5>1 DEF IsReference
      <4>2. CASE ~IsConst(a)
        <5>1. Branch(a, v) \in Ref /\ LevelOf(a) < LevelOf(Branch(a, v))
          BY <4>2, RefOrdered, BranchBelow
        <5>2. Holds[Branch(a, v)] \in [Env -> BOOLEAN]
          BY <2>1, <5>1
        <5> QED
          BY <4>2, <5>2
      <4> QED
        BY <4>1, <4>2
    <3> QED
      BY <3>1, <3>2
  <2>2. \A a \in Ref : a \in S
    <3> HIDE DEF S
    <3> QED
      BY <2>1, RefOrdered, Upwards
  <2> QED
    BY <2>2
<1> QED
  BY <1>5, <1>6 DEF Means

\* The nodes of a reference are in Q, all of them.
LEMMA Hereditary ==
  ASSUME NEW Q
  PROVE  \E f \in [Ref -> BOOLEAN] : \A a \in Ref :
           f[a] <=> IsConst(a) \/ (a \in Q /\ f[a.node.low] /\ f[a.node.high])
<1> DEFINE Closed(X) == \A x \in X : IsConst(x) \/ (x \in Q /\ x.node.low \in X /\ x.node.high \in X)
           f == [a \in Ref |-> \E X \in SUBSET Ref : a \in X /\ Closed(X)]
<1>1. ASSUME NEW a \in Ref
      PROVE  f[a] <=> IsConst(a) \/ (a \in Q /\ f[a.node.low] /\ f[a.node.high])
  <2>1. CASE IsConst(a)
    <3>1. {a} \in SUBSET Ref /\ a \in {a} /\ Closed({a})
      BY <2>1
    <3>2. \E X \in SUBSET Ref : a \in X /\ Closed(X)
      BY <3>1
    <3> QED
      BY <2>1, <3>2
  <2>2. CASE ~IsConst(a)
    <3>1. a.node.low \in Ref /\ a.node.high \in Ref
      <4>1. IsNode(a.node, Ref)
        BY <2>2, RefOrdered, Below
      <4> QED
        BY <4>1 DEF IsNode
    <3>2. ASSUME f[a] PROVE a \in Q /\ f[a.node.low] /\ f[a.node.high]
      <4>1. PICK X \in SUBSET Ref : a \in X /\ Closed(X)
        BY <3>2
      <4>2. a \in Q /\ a.node.low \in X /\ a.node.high \in X
        BY <2>2, <4>1
      <4> QED
        BY <3>1, <4>1, <4>2
    <3>3. ASSUME a \in Q, f[a.node.low], f[a.node.high] PROVE f[a]
      <4>1. PICK X \in SUBSET Ref : a.node.low \in X /\ Closed(X)
        BY <3>1, <3>3
      <4>2. PICK Y \in SUBSET Ref : a.node.high \in Y /\ Closed(Y)
        BY <3>1, <3>3
      <4>3. PICK Z : Z = X \cup Y \cup {a}
        OBVIOUS
      <4>4. Z \in SUBSET Ref /\ a \in Z /\ Closed(Z)
        BY <3>3, <4>1, <4>2, <4>3
      <4> QED
        BY <4>4
    <3> QED
      BY <2>2, <3>2, <3>3
  <2> QED
    BY <2>1, <2>2
<1>2. f \in [Ref -> BOOLEAN]
  OBVIOUS
<1> QED
  <2> HIDE DEF f
  <2> QED
    BY <1>1, <1>2

\* WellFormed satisfies its equation.
LEMMA WellFormedIs ==
  \A a \in Ref : /\ WellFormed[a] \in BOOLEAN
                 /\ WellFormed[a] <=> IsConst(a) \/ ( /\ Reduced(a.node)
                                                      /\ WellFormed[a.node.low]
                                                      /\ WellFormed[a.node.high])
<1> DEFINE Is(f) == f = [a \in Ref |-> \/ IsConst(a)
                                       \/ /\ ~a.node.low.mark
                                          /\ a.node.low # a.node.high
                                          /\ f[a.node.low] /\ f[a.node.high]]
<1>1. PICK Q : Q = {a \in Ref : Reduced(a.node)}
  OBVIOUS
<1>2. PICK f \in [Ref -> BOOLEAN] : \A a \in Ref :
           f[a] <=> IsConst(a) \/ (a \in Q /\ f[a.node.low] /\ f[a.node.high])
  BY Hereditary
<1>3. Is(f)
  <2>1. f = [a \in Ref |-> f[a]]
    OBVIOUS
  <2>2. ASSUME NEW a \in Ref
        PROVE  f[a] = \/ IsConst(a)
                      \/ /\ ~a.node.low.mark
                         /\ a.node.low # a.node.high
                         /\ f[a.node.low] /\ f[a.node.high]
    BY <1>1, <1>2 DEF Reduced
  <2> QED
    BY <2>1, <2>2
<1>4. WellFormed = CHOOSE g : Is(g)
  BY DEF WellFormed
<1>5. Is(WellFormed)
  <2> HIDE DEF Is
  <2> QED
    BY <1>3, <1>4
<1> TAKE a \in Ref
<1>6. WellFormed[a] = \/ IsConst(a)
                      \/ /\ ~a.node.low.mark
                         /\ a.node.low # a.node.high
                         /\ WellFormed[a.node.low] /\ WellFormed[a.node.high]
  BY <1>5
<1> QED
  BY <1>6 DEF Reduced

\* AllShared satisfies its equation.
LEMMA AllSharedIs ==
  \A a \in Ref : /\ AllShared[a] \in BOOLEAN
                 /\ AllShared[a] <=> IsConst(a) \/ ( /\ ~a.local
                                                     /\ AllShared[a.node.low]
                                                     /\ AllShared[a.node.high])
<1> DEFINE Is(f) == f = [a \in Ref |-> \/ IsConst(a)
                                       \/ ~a.local /\ f[a.node.low] /\ f[a.node.high]]
<1>1. PICK Q : Q = {a \in Ref : ~a.local}
  OBVIOUS
<1>2. PICK f \in [Ref -> BOOLEAN] : \A a \in Ref :
           f[a] <=> IsConst(a) \/ (a \in Q /\ f[a.node.low] /\ f[a.node.high])
  BY Hereditary
<1>3. Is(f)
  <2>1. f = [a \in Ref |-> f[a]]
    OBVIOUS
  <2>2. ASSUME NEW a \in Ref
        PROVE  f[a] = \/ IsConst(a)
                      \/ ~a.local /\ f[a.node.low] /\ f[a.node.high]
    BY <1>1, <1>2
  <2> QED
    BY <2>1, <2>2
<1>4. AllShared = CHOOSE g : Is(g)
  BY DEF AllShared
<1>5. Is(AllShared)
  <2> HIDE DEF Is
  <2> QED
    BY <1>3, <1>4
<1> TAKE a \in Ref
<1>6. AllShared[a] = \/ IsConst(a)
                     \/ ~a.local /\ AllShared[a.node.low] /\ AllShared[a.node.high]
  BY <1>5
<1> QED
  BY <1>6

-----------------------------------------------------------------------------
(* Diagrams in which no edge is superfluous, and those in the shared table *)

Good == {a \in Ref : WellFormed[a]}
SharedGood == {a \in Good : AllShared[a]}

\* The good references are diagrams, those of the shared table as well.
LEMMA GoodDiagrams ==
  /\ Diagrams(Good) /\ Diagrams(SharedGood) /\ Shared(SharedGood)
  /\ Means(Holds, Good) /\ Means(Holds, SharedGood)
  /\ bdd_false \in SharedGood /\ bdd_true \in SharedGood
<1>1. ASSUME NEW a \in Ref
      PROVE  /\ bdd_not(a) \in Ref /\ bdd_not(a).node = a.node /\ bdd_not(a).local = a.local
             /\ IsConst(bdd_not(a)) = IsConst(a)
  BY RefOrdered, NotProps
<1>2. ASSUME NEW a \in Ref, ~IsConst(a)
      PROVE  IsNode(a.node, Ref)
  BY <1>2, RefOrdered, Below
<1>3. ASSUME NEW a \in Good
      PROVE  /\ bdd_not(a) \in Good
             /\ ~IsConst(a) => IsNode(a.node, Good) /\ Reduced(a.node)
  <2>1. a \in Ref /\ WellFormed[a]
    BY DEF Good
  <2>2. WellFormed[bdd_not(a)]
    BY <1>1, <2>1, WellFormedIs
  <2>3. ~IsConst(a) => IsNode(a.node, Good) /\ Reduced(a.node)
    BY <1>2, <2>1, WellFormedIs DEF IsNode, Good
  <2> QED
    BY <1>1, <2>1, <2>2, <2>3 DEF Good
<1>4. ASSUME NEW a \in SharedGood
      PROVE  /\ bdd_not(a) \in SharedGood /\ ~a.local
             /\ ~IsConst(a) => IsNode(a.node, SharedGood) /\ Reduced(a.node)
  <2>1. a \in Ref /\ AllShared[a] /\ a \in Good
    BY DEF Good, SharedGood
  <2>2. AllShared[bdd_not(a)]
    BY <1>1, <2>1, AllSharedIs
  <2>3. ~IsConst(a) => IsNode(a.node, SharedGood) /\ Reduced(a.node)
    <3> SUFFICES ASSUME ~IsConst(a) PROVE IsNode(a.node, SharedGood) /\ Reduced(a.node)
      OBVIOUS
    <3>1. AllShared[a.node.low] /\ AllShared[a.node.high]
      BY <2>1, AllSharedIs
    <3>2. IsNode(a.node, Good) /\ Reduced(a.node)
      BY <1>3, <2>1
    <3> QED
      BY <3>1, <3>2 DEF IsNode, SharedGood
  <2>4. ~a.local
    <3>1. IsConst(a) => ~a.local
      BY <2>1, RefOrdered, Below
    <3> QED
      BY <2>1, <3>1, AllSharedIs
  <2> QED
    BY <1>3, <2>1, <2>2, <2>3, <2>4 DEF SharedGood
<1>5. \A a \in Ref : IsReference(a) /\ (IsConst(a) => ~a.local)
  BY RefOrdered, Below
<1>6. Good \subseteq Ref /\ SharedGood \subseteq Ref
  BY DEF Good, SharedGood
<1>7. Diagrams(Good)
  BY <1>3, <1>5, <1>6 DEF Diagrams, Ordered
<1>8. Diagrams(SharedGood) /\ Shared(SharedGood)
  BY <1>4, <1>5, <1>6 DEF Diagrams, Ordered, Shared
<1>9. Means(Holds, Good) /\ Means(Holds, SharedGood)
  BY <1>6, HoldsIs DEF Means
<1>10. bdd_false \in SharedGood /\ bdd_true \in SharedGood
  <2>1. IsConst(bdd_false) /\ IsConst(bdd_true)
    BY DEF IsConst, bdd_false, bdd_true
  <2> QED
    BY <2>1, RefOrdered, WellFormedIs, AllSharedIs DEF Good, SharedGood
<1> QED
  BY <1>7, <1>8, <1>9, <1>10

-----------------------------------------------------------------------------
(* Sets of assignments *)

\* Sem as a subset of the assignments.
LEMMA SemIs ==
  ASSUME NEW a \in Ref
  PROVE  Sem(a) \subseteq Env /\ \A v \in Env : v \in Sem(a) <=> Holds[a][v]
BY DEF Sem

\* Membership depends on the variables from level l on only.
Agree(v, w, l) == \A k \in Level : l <= k => v[k] = w[k]
Free(S, l) == \A v, w \in Env : Agree(v, w, l) => (v \in S <=> w \in S)

\* What is free up to a level is free up to the levels above.
LEMMA FreeLower ==
  ASSUME NEW S, NEW l \in Nat, NEW m \in Nat, m <= l, Free(S, l)
  PROVE  Free(S, m)
<1>1. ASSUME NEW v \in Env, NEW w \in Env, Agree(v, w, m)
      PROVE  Agree(v, w, l)
  <2>1. \A k \in Level : k \in Nat
    BY NVarsAssumption DEF Level
  <2>2. \A k \in Level : l <= k => m <= k
    BY <2>1
  <2> QED
    BY <1>1, <2>2 DEF Agree
<1> QED
  BY <1>1 DEF Free

\* The level of a reference, which is NVars for the constants only.
LEMMA RefLevel ==
  ASSUME NEW a \in Ref
  PROVE  LevelOf(a) \in Nat /\ LevelOf(a) <= NVars /\ (IsConst(a) <=> LevelOf(a) = NVars)
<1>1. LevelOf(a) \in Nat /\ LevelOf(a) <= NVars
  BY RefOrdered, Levels
<1>2. ~IsConst(a) => LevelOf(a) \in Level
  BY RefOrdered, Below
<1>3. IsConst(a) => LevelOf(a) = NVars
  BY RefOrdered, Below
<1> QED
  BY <1>1, <1>2, <1>3, NVarsAssumption DEF Level

\* What a reference means depends on the variables from its level on only.
LEMMA SemFree ==
  \A a \in Ref : Free(Sem(a), LevelOf(a))
<1> DEFINE S == {a \in Ref : Free(Sem(a), LevelOf(a))}
<1>1. ASSUME NEW a \in Ref, \A b \in Ref : LevelOf(a) < LevelOf(b) => b \in S
      PROVE  a \in S
  <2> SUFFICES ASSUME NEW v \in Env, NEW w \in Env, Agree(v, w, LevelOf(a))
               PROVE  v \in Sem(a) <=> w \in Sem(a)
    BY DEF Free
  <2>1. /\ v \in Sem(a) <=> Holds[a][v]
        /\ w \in Sem(a) <=> Holds[a][w]
    BY SemIs
  <2>2. CASE IsConst(a)
    BY <2>1, <2>2, HoldsIs DEF Means
  <2>3. CASE ~IsConst(a)
    <3>1. PICK b \in Ref : b = Branch(a, v) /\ LevelOf(a) < LevelOf(b)
      BY <2>3, RefOrdered, BranchBelow
    <3>2. LevelOf(a) \in Level
      BY <2>3, RefOrdered, Below
    <3>3. v[LevelOf(a)] = w[LevelOf(a)]
      BY <3>2, RefLevel DEF Agree
    <3>4. b = Branch(a, w)
      BY <3>1, <3>3 DEF Branch
    <3>5. Holds[a][v] = Holds[b][v] /\ Holds[a][w] = Holds[b][w]
      BY <2>3, <3>1, <3>4, HoldsIs DEF Means
    <3>6. Free(Sem(b), LevelOf(b))
      BY <1>1, <3>1
    <3>7. Agree(v, w, LevelOf(b))
      <4>1. \A k \in Level : k \in Nat
        BY NVarsAssumption DEF Level
      <4>2. LevelOf(a) \in Nat /\ LevelOf(b) \in Nat
        BY RefLevel
      <4>3. \A k \in Level : LevelOf(b) <= k => LevelOf(a) <= k
        BY <3>1, <4>1, <4>2
      <4> QED
        BY <4>3 DEF Agree
    <3>8. v \in Sem(b) <=> w \in Sem(b)
      BY <3>6, <3>7 DEF Free
    <3> QED
      BY <2>1, <3>5, <3>8, SemIs
  <2> QED
    BY <2>2, <2>3
<1>2. \A a \in Ref : a \in S
  <2> HIDE DEF S
  <2> QED
    BY <1>1, RefOrdered, Upwards
<1> QED
  BY <1>2

\* The constants mean every assignment, or none.
LEMMA Constant ==
  /\ Sem(bdd_false) = {} /\ Sem(bdd_true) = Env
  /\ LevelOf(bdd_false) = NVars /\ LevelOf(bdd_true) = NVars
  /\ \A a \in Ref : (IsTrue(a) <=> a = bdd_true) /\ (IsFalse(a) <=> a = bdd_false)
<1>1. IsConst(bdd_false) /\ IsConst(bdd_true) /\ ~bdd_false.mark /\ bdd_true.mark
  BY DEF IsConst, bdd_false, bdd_true
<1>2. Sem(bdd_false) = {} /\ Sem(bdd_true) = Env
  <2>1. \A v \in Env : ~Holds[bdd_false][v] /\ Holds[bdd_true][v]
    BY <1>1, RefOrdered, HoldsIs DEF Means
  <2> QED
    BY <2>1 DEF Sem
<1>3. ASSUME NEW a \in Ref, IsConst(a)
      PROVE  a.mark \in BOOLEAN /\ a = IF a.mark THEN bdd_true ELSE bdd_false
  <2>1. IsReference(a) /\ ~a.local
    BY <1>3, RefOrdered, Below
  <2>2. a.node = Leaf
    BY <1>3 DEF IsConst
  <2>3. CASE a.mark
    BY <2>1, <2>2, <2>3 DEF IsReference, bdd_true
  <2>4. CASE ~a.mark
    BY <2>1, <2>2, <2>4 DEF IsReference, bdd_false
  <2> QED
    BY <2>1, <2>3, <2>4 DEF IsReference
<1>4. LevelOf(bdd_false) = NVars /\ LevelOf(bdd_true) = NVars
  BY <1>1, RefOrdered, RefLevel
<1>5. ASSUME NEW a \in Ref
      PROVE  (IsTrue(a) <=> a = bdd_true) /\ (IsFalse(a) <=> a = bdd_false)
  BY <1>1, <1>3 DEF IsTrue, IsFalse
<1> QED
  BY <1>2, <1>4, <1>5

\* A good reference is a reference.
LEMMA InGood ==
  ASSUME NEW a \in Good
  PROVE  a \in Ref
BY DEF Good

\* bdd_not of a good reference is good, means the complement, and stays in its store.
LEMMA GoodNot ==
  ASSUME NEW a \in Good
  PROVE  /\ bdd_not(a) \in Good /\ bdd_not(bdd_not(a)) = a
         /\ LevelOf(bdd_not(a)) = LevelOf(a)
         /\ Sem(bdd_not(a)) = Env \ Sem(a)
         /\ AllShared[a] => AllShared[bdd_not(a)]
<1>1. PICK b : b = bdd_not(a)
  OBVIOUS
<1>2. /\ b \in Good /\ bdd_not(b) = a /\ LevelOf(b) = LevelOf(a)
  BY <1>1, GoodDiagrams, NotProps DEF Diagrams
<1>3. Sem(b) = Env \ Sem(a)
  <2>1. \A v \in Env : Holds[b][v] = ~Holds[a][v]
    BY <1>1, InGood, RefOrdered, HoldsIs, NotRight
  <2> QED
    BY <2>1 DEF Sem
<1>4. ASSUME AllShared[a] PROVE AllShared[b]
  <2>1. a \in SharedGood
    BY <1>4 DEF SharedGood
  <2>2. b \in SharedGood
    BY <1>1, <2>1, GoodDiagrams, NotProps DEF Diagrams
  <2> QED
    BY <2>2 DEF SharedGood
<1> QED
  BY <1>1, <1>2, <1>3, <1>4

\* The cofactors of a good reference are good, lie deeper, and split its meaning.
LEMMA GoodCofactors ==
  ASSUME NEW a \in Good, NEW l \in Level, l <= LevelOf(a),
         NEW p, p = LowAt(a, l), NEW q, q = HighAt(a, l)
  PROVE  /\ p \in Good /\ l < LevelOf(p)
         /\ q \in Good /\ l < LevelOf(q)
         /\ AllShared[a] => AllShared[p] /\ AllShared[q]
         /\ \A v \in Env : v \in Sem(a) <=> IF v[l] THEN v \in Sem(q) ELSE v \in Sem(p)
<1>1. /\ p \in Good /\ l < LevelOf(p)
      /\ q \in Good /\ l < LevelOf(q)
  BY GoodDiagrams, Cofactors DEF Diagrams
<1>2. ASSUME AllShared[a] PROVE AllShared[p] /\ AllShared[q]
  <2>1. a \in SharedGood
    BY <1>2 DEF SharedGood
  <2>2. p \in SharedGood /\ q \in SharedGood
    BY <2>1, GoodDiagrams, Cofactors DEF Diagrams
  <2> QED
    BY <2>2 DEF SharedGood
<1>3. \A v \in Env : Holds[a][v] = IF v[l] THEN Holds[q][v] ELSE Holds[p][v]
  BY GoodDiagrams, Shannon DEF Diagrams
<1> QED
  BY <1>1, <1>2, <1>3 DEF Sem

\* bdd_makenode on good references that lie deeper is good, and means the choice.
LEMMA GoodMakenode ==
  ASSUME NEW low \in Good, NEW high \in Good, NEW l \in Level, l < LevelOf(low), l < LevelOf(high),
         NEW r, r = bdd_makenode(l, low, high)
  PROVE  /\ r \in Good /\ l <= LevelOf(r)
         /\ AllShared[low] /\ AllShared[high] => AllShared[r]
         /\ \A v \in Env : v \in Sem(r) <=> IF v[l] THEN v \in Sem(high) ELSE v \in Sem(low)
<1>1. low \in Ref /\ high \in Ref /\ WellFormed[low] /\ WellFormed[high]
  BY DEF Good
<1>2. LevelOf(low) \in Nat /\ l \in Nat
  BY <1>1, RefLevel, NVarsAssumption DEF Level
<1>3. CASE low = high
  <2>1. r = low
    BY <1>3 DEF bdd_makenode
  <2> QED
    BY <1>2, <1>3, <2>1
<1>4. CASE low # high
  <2>1. /\ IsReference(low) /\ IsReference(high)
        /\ bdd_not(low) \in Good /\ bdd_not(high) \in Good
        /\ LevelOf(bdd_not(low)) = LevelOf(low) /\ LevelOf(bdd_not(high)) = LevelOf(high)
        /\ bdd_not(bdd_not(low)) = low /\ bdd_not(bdd_not(high)) = high
        /\ bdd_not(low).mark = ~low.mark
    <3>1. IsReference(low) /\ IsReference(high)
      BY <1>1, RefOrdered, Below
    <3>2. bdd_not(low).mark = ~low.mark
      BY <1>1, RefOrdered, NotProps
    <3> QED
      BY <3>1, <3>2, GoodNot
  <2>2. PICK lo \in Good : lo = (IF low.mark THEN bdd_not(low) ELSE low)
    BY <2>1
  <2>3. PICK hi \in Good : hi = (IF low.mark THEN bdd_not(high) ELSE high)
    BY <2>1
  <2>4. PICK n : n = [level |-> l, low |-> lo, high |-> hi]
    OBVIOUS
  <2>5. PICK m \in BOOLEAN : m = low.mark
    BY <2>1 DEF IsReference
  <2>6. r = [mark |-> m, local |-> FALSE, node |-> n]
    <3>1. bdd_stripmark(low) = lo /\ bdd_transfermark(low, high) = hi
      BY <2>1, <2>2, <2>3, Marks
    <3> QED
      BY <1>4, <2>4, <2>5, <3>1 DEF bdd_makenode, Reference
  <2>7. lo # hi /\ ~lo.mark /\ l < LevelOf(lo) /\ l < LevelOf(hi)
    BY <1>4, <2>1, <2>2, <2>3
  <2>8. r.mark = m /\ r.local = FALSE /\ r.node = n /\ n.level = l /\ n.low = lo /\ n.high = hi
    BY <2>4, <2>6
  <2>9. r \in Ref
    <3>1. lo \in Ref /\ hi \in Ref
      BY InGood
    <3>2. [mark |-> m, local |-> FALSE, node |-> [level |-> l, low |-> lo, high |-> hi]] \in Ref
      BY <2>7, <3>1, RefNode
    <3> QED
      BY <2>4, <2>6, <3>2
  <2>10. LevelOf(r) = l /\ ~IsConst(r)
    BY <1>2, <2>8, NVarsAssumption DEF LevelOf, IsConst, Leaf, Level
  <2>11. r \in Good
    <3>1. WellFormed[lo] /\ WellFormed[hi]
      BY DEF Good
    <3> QED
      BY <2>7, <2>8, <2>9, <3>1, WellFormedIs DEF Good, Reduced
  <2>12. ASSUME AllShared[low], AllShared[high] PROVE AllShared[r]
    <3>1. AllShared[lo] /\ AllShared[hi]
      BY <2>2, <2>3, <2>12, GoodNot
    <3> QED
      BY <2>8, <2>9, <3>1, AllSharedIs
  <2>13. LowAt(r, l) = low /\ HighAt(r, l) = high
    <3>1. IsReference(lo) /\ IsReference(hi) /\ IsReference(r)
      BY <2>9, InGood, RefOrdered, Below
    <3>2. /\ bdd_transfermark(r, lo) = IF m THEN bdd_not(lo) ELSE lo
          /\ bdd_transfermark(r, hi) = IF m THEN bdd_not(hi) ELSE hi
      BY <2>8, <3>1, Marks
    <3>3. node_low(r) = bdd_transfermark(r, lo) /\ node_high(r) = bdd_transfermark(r, hi)
      BY <2>8 DEF node_low, node_high
    <3>4. LowAt(r, l) = node_low(r) /\ HighAt(r, l) = node_high(r)
      BY <2>10 DEF LowAt, HighAt
    <3> QED
      BY <2>1, <2>2, <2>3, <2>5, <3>2, <3>3, <3>4
  <2>14. l <= LevelOf(r)
    BY <1>2, <2>10
  <2>15. \A v \in Env : v \in Sem(r) <=> IF v[l] THEN v \in Sem(high) ELSE v \in Sem(low)
    BY <2>11, <2>13, <2>14, GoodCofactors
  <2> QED
    BY <2>11, <2>12, <2>14, <2>15
<1> QED
  BY <1>3, <1>4

\* A set of assignments has one diagram in the shared table.
LEMMA SharedUnique ==
  ASSUME NEW a \in SharedGood, NEW b \in SharedGood, Sem(a) = Sem(b)
  PROVE  a = b
<1>1. a \in Ref /\ b \in Ref
  BY DEF SharedGood, Good
<1>2. \A v \in Env : Holds[a][v] \in BOOLEAN /\ Holds[b][v] \in BOOLEAN
  BY <1>1, HoldsIs DEF Means
<1>3. \A v \in Env : Holds[a][v] = Holds[b][v]
  BY <1>1, <1>2, SemIs
<1> QED
  BY <1>3, GoodDiagrams, Canonical

\* It starts at the first variable it depends on.
LEMMA LevelBound ==
  ASSUME NEW r \in SharedGood, NEW l \in Nat, l <= NVars, Free(Sem(r), l)
  PROVE  l <= LevelOf(r)
<1> SUFFICES ASSUME LevelOf(r) < l PROVE FALSE
  <2>1. LevelOf(r) \in Nat
    BY RefLevel DEF SharedGood, Good
  <2> QED
    BY <2>1
<1>0. r \in Good /\ r \in Ref /\ AllShared[r]
  BY DEF SharedGood, Good
<1>1. PICK k \in Level : k = LevelOf(r) /\ k <= LevelOf(r) /\ k \in Nat
  BY <1>0, RefLevel, NVarsAssumption DEF Level
<1>2. PICK p : p = LowAt(r, k)
  OBVIOUS
<1>3. PICK q : q = HighAt(r, k)
  OBVIOUS
<1>4. /\ p \in Good /\ k < LevelOf(p)
      /\ q \in Good /\ k < LevelOf(q)
      /\ AllShared[p] /\ AllShared[q]
      /\ \A v \in Env : v \in Sem(r) <=> IF v[k] THEN v \in Sem(q) ELSE v \in Sem(p)
  BY <1>0, <1>1, <1>2, <1>3, GoodCofactors
<1>5. ASSUME NEW v \in Env PROVE v \in Sem(p) <=> v \in Sem(q)
  <2>1. PICK w \in Env : Apart(v, w, k) /\ ~w[k]
    BY OffAndOn
  <2>2. PICK u \in Env : Apart(v, u, k) /\ u[k]
    BY OffAndOn
  <2>3. \A j \in Level : k + 1 <= j => j # k
    BY <1>1
  <2>4. Agree(v, w, k + 1) /\ Agree(v, u, k + 1)
    BY <2>1, <2>2, <2>3 DEF Agree, Apart
  <2>5. Free(Sem(p), k + 1) /\ Free(Sem(q), k + 1)
    <3>1. /\ LevelOf(p) \in Nat /\ k + 1 <= LevelOf(p) /\ Free(Sem(p), LevelOf(p))
          /\ LevelOf(q) \in Nat /\ k + 1 <= LevelOf(q) /\ Free(Sem(q), LevelOf(q))
      BY <1>1, <1>4, InGood, RefLevel, SemFree
    <3> QED
      BY <1>1, <3>1, FreeLower
  <2>6. (v \in Sem(p) <=> w \in Sem(p)) /\ (v \in Sem(q) <=> u \in Sem(q))
    BY <2>4, <2>5 DEF Free
  <2>7. Agree(w, u, l)
    <3>1. \A j \in Level : l <= j => j # k
      BY <1>1
    <3> QED
      BY <2>1, <2>2, <3>1 DEF Agree, Apart
  <2>8. w \in Sem(r) <=> u \in Sem(r)
    BY <2>7 DEF Free
  <2> QED
    BY <1>4, <2>1, <2>2, <2>6, <2>8
<1>6. p = q
  <2>1. Sem(p) = Sem(q)
    BY <1>5 DEF Sem
  <2> QED
    BY <1>4, <2>1, SharedUnique DEF SharedGood
<1>7. ~IsConst(r)
  BY <1>0, <1>1, RefLevel, NVarsAssumption DEF Level
<1> QED
  BY <1>0, <1>1, <1>2, <1>3, <1>6, <1>7, GoodDiagrams, ChildrenDiffer DEF LowAt, HighAt

-----------------------------------------------------------------------------
(* The diagram of a set of assignments *)

BuildDom == (SUBSET Env) \X (0 .. NVars)

\* A step of BuildFrom looks one level deeper only.
LEMMA BuildLocal ==
  ASSUME NEW f, NEW g, NEW S \in SUBSET Env, NEW l \in 0 .. NVars,
         \A c \in BuildDom : l < c[2] => f[c] = g[c]
  PROVE  BuildStep(f, S, l) = BuildStep(g, S, l)
<1>1. CASE l = NVars
  BY <1>1 DEF BuildStep
<1>2. CASE l # NVars
  <2>1. /\ <<Given(S, l, FALSE), l + 1>> \in BuildDom
        /\ <<Given(S, l, TRUE), l + 1>> \in BuildDom
        /\ l < l + 1
    <3>1. l + 1 \in 0 .. NVars /\ l < l + 1
      BY <1>2, NVarsAssumption
    <3>2. Given(S, l, FALSE) \in SUBSET Env /\ Given(S, l, TRUE) \in SUBSET Env
      BY DEF Given
    <3> QED
      BY <3>1, <3>2 DEF BuildDom
  <2>2. /\ f[<<Given(S, l, FALSE), l + 1>>] = g[<<Given(S, l, FALSE), l + 1>>]
        /\ f[<<Given(S, l, TRUE), l + 1>>] = g[<<Given(S, l, TRUE), l + 1>>]
    BY <2>1
  <2> QED
    BY <2>2 DEF BuildStep
<1> QED
  BY <1>1, <1>2

BuildUpto(f, n) ==
  /\ f = [c \in BuildDom |-> f[c]]
  /\ \A c \in BuildDom : NVars - c[2] <= n => f[c] = BuildStep(f, c[1], c[2])

\* The recursive definition of BuildFrom has a function.
LEMMA BuildExists ==
  \E f : f = [c \in BuildDom |-> BuildStep(f, c[1], c[2])]
<1> DEFINE S == {n \in Nat : \E f : BuildUpto(f, n)}
<1>0. \A c \in BuildDom : c[1] \in SUBSET Env /\ c[2] \in 0 .. NVars /\ c[2] \in Nat /\ c[2] <= NVars
  BY NVarsAssumption DEF BuildDom
<1>1. ASSUME NEW f, NEW n \in Nat, NEW g, g = [c \in BuildDom |-> BuildStep(f, c[1], c[2])],
             n = 0 \/ BuildUpto(f, n - 1)
      PROVE  BuildUpto(g, n)
  <2>1. ASSUME NEW c \in BuildDom, NVars - c[2] <= n
        PROVE  g[c] = BuildStep(g, c[1], c[2])
    <3>1. PICK T \in SUBSET Env, l \in 0 .. NVars : T = c[1] /\ l = c[2]
      BY <1>0
    <3>2. ASSUME NEW d \in BuildDom, l < d[2] PROVE f[d] = g[d]
      <4>1. n # 0 /\ NVars - d[2] <= n - 1
        BY <1>0, <2>1, <3>1, <3>2, NVarsAssumption
      <4> QED
        BY <1>1, <4>1 DEF BuildUpto
    <3>3. BuildStep(f, T, l) = BuildStep(g, T, l)
      BY <3>1, <3>2, BuildLocal
    <3> QED
      BY <1>1, <3>1, <3>3
  <2>2. g = [c \in BuildDom |-> g[c]]
    BY <1>1
  <2> QED
    BY <2>1, <2>2 DEF BuildUpto
<1>2. 0 \in S
  <2>1. PICK f : f = << >>
    OBVIOUS
  <2>2. PICK g : g = [c \in BuildDom |-> BuildStep(f, c[1], c[2])]
    OBVIOUS
  <2>3. BuildUpto(g, 0)
    BY <1>1, <2>2
  <2> QED
    BY <2>3
<1>3. ASSUME NEW n \in Nat, n \in S PROVE n + 1 \in S
  <2>1. PICK f : BuildUpto(f, n)
    BY <1>3
  <2>2. PICK g : g = [c \in BuildDom |-> BuildStep(f, c[1], c[2])]
    OBVIOUS
  <2>3. n + 1 \in Nat /\ (n + 1) - 1 = n
    OBVIOUS
  <2>4. BuildUpto(g, n + 1)
    BY <1>1, <2>1, <2>2, <2>3
  <2> QED
    BY <2>3, <2>4
<1>4. NVars \in S
  <2> HIDE DEF S
  <2> QED
    BY <1>2, <1>3, NatSet, NVarsAssumption
<1>5. PICK f : BuildUpto(f, NVars)
  BY <1>4
<1>6. \A c \in BuildDom : f[c] = BuildStep(f, c[1], c[2])
  BY <1>0, <1>5, NVarsAssumption DEF BuildUpto
<1>7. f = [c \in BuildDom |-> BuildStep(f, c[1], c[2])]
  BY <1>5, <1>6 DEF BuildUpto
<1> QED
  BY <1>7

\* BuildFrom satisfies its equation.
LEMMA BuildFromIs ==
  \A S \in SUBSET Env, l \in 0 .. NVars : BuildFrom[<<S, l>>] = BuildStep(BuildFrom, S, l)
<1> DEFINE Is(f) == f = [c \in BuildDom |-> BuildStep(f, c[1], c[2])]
<1>1. BuildFrom = CHOOSE f : Is(f)
  BY DEF BuildFrom, BuildDom
<1>2. \E f : Is(f)
  BY BuildExists
<1>3. Is(BuildFrom)
  <2> HIDE DEF Is
  <2> QED
    BY <1>1, <1>2
<1> TAKE S \in SUBSET Env, l \in 0 .. NVars
<1>4. <<S, l>> \in BuildDom /\ <<S, l>>[1] = S /\ <<S, l>>[2] = l
  BY DEF BuildDom
<1>5. BuildFrom[<<S, l>>] = BuildStep(BuildFrom, <<S, l>>[1], <<S, l>>[2])
  BY <1>3, <1>4
<1> QED
  BY <1>4, <1>5

\* A set of assignments with one variable fixed.
LEMMA GivenIs ==
  ASSUME NEW S \in SUBSET Env, NEW l \in Level, NEW x \in BOOLEAN, Free(S, l)
  PROVE  /\ Given(S, l, x) \in SUBSET Env /\ Free(Given(S, l, x), l + 1)
         /\ \A v \in Env : v[l] = x => (v \in S <=> v \in Given(S, l, x))
<1>1. ASSUME NEW v \in Env
      PROVE  [v EXCEPT ![l] = x] \in Env /\ (v[l] = x => [v EXCEPT ![l] = x] = v)
  BY DEF Env
<1>2. Given(S, l, x) \in SUBSET Env
  BY DEF Given
<1>3. ASSUME NEW v \in Env, NEW w \in Env, Agree(v, w, l + 1)
      PROVE  v \in Given(S, l, x) <=> w \in Given(S, l, x)
  <2>1. PICK p \in Env : p = [v EXCEPT ![l] = x]
    BY <1>1
  <2>2. PICK q \in Env : q = [w EXCEPT ![l] = x]
    BY <1>1
  <2>3. Agree(p, q, l)
    <3> SUFFICES ASSUME NEW k \in Level, l <= k PROVE p[k] = q[k]
      BY DEF Agree
    <3>1. CASE k = l
      BY <2>1, <2>2, <3>1 DEF Env
    <3>2. CASE k # l
      <4>1. l + 1 <= k
        BY <3>2, NVarsAssumption DEF Level
      <4>2. v[k] = w[k]
        BY <1>3, <4>1 DEF Agree
      <4> QED
        BY <2>1, <2>2, <3>2, <4>2 DEF Env
    <3> QED
      BY <3>1, <3>2
  <2>4. p \in S <=> q \in S
    BY <2>3 DEF Free
  <2> QED
    BY <2>1, <2>2, <2>4 DEF Given
<1>4. ASSUME NEW v \in Env, v[l] = x PROVE v \in S <=> v \in Given(S, l, x)
  BY <1>1, <1>4 DEF Given
<1> QED
  BY <1>2, <1>3, <1>4 DEF Free

Built(S, l, r) == r \in SharedGood /\ Sem(r) = S /\ l <= LevelOf(r)

BuiltFrom(l) ==
  \A S \in SUBSET Env : Free(S, l) => Built(S, l, BuildFrom[<<S, l>>])

\* Build, from a level on, of a set that depends on the variables from there on.
LEMMA BuildFromRight ==
  \A l \in 0 .. NVars : BuiltFrom(l)
<1> DEFINE T == {n \in Nat : n <= NVars => BuiltFrom(NVars - n)}
<1>1. ASSUME NEW l \in 0 .. NVars, NEW S \in SUBSET Env, Free(S, l), NEW r, r = BuildFrom[<<S, l>>],
             S = {} \/ S = Env \/ l = NVars
      PROVE  Built(S, l, r)
  <2>1. r = BuildStep(BuildFrom, S, l)
    BY <1>1, BuildFromIs
  <2>2. S = {} \/ S = Env
    <3>1. ASSUME l = NVars, NEW v \in S, NEW w \in Env PROVE w \in S
      <4>1. Agree(v, w, l)
        BY <3>1, NVarsAssumption DEF Agree, Level
      <4> QED
        BY <1>1, <4>1 DEF Free
    <3> QED
      BY <1>1, <3>1
  <2>3. [k \in Level |-> FALSE] \in Env
    BY DEF Env
  <2>4. CASE S = {}
    BY <2>1, <2>4, Constant, GoodDiagrams, NVarsAssumption DEF BuildStep, Built
  <2>5. CASE S = Env
    BY <2>1, <2>3, <2>5, Constant, GoodDiagrams, NVarsAssumption DEF BuildStep, Built
  <2> QED
    BY <2>2, <2>4, <2>5
<1>2. 0 \in T
  <2>1. NVars \in 0 .. NVars /\ NVars - 0 = NVars
    BY NVarsAssumption
  <2>2. BuiltFrom(NVars)
    BY <1>1, <2>1 DEF BuiltFrom
  <2> QED
    BY <2>1, <2>2
<1>3. ASSUME NEW n \in Nat, n \in T PROVE n + 1 \in T
  <2> SUFFICES ASSUME n + 1 <= NVars PROVE BuiltFrom(NVars - (n + 1))
    OBVIOUS
  <2>1. PICK l \in Level : /\ l = NVars - (n + 1) /\ l + 1 = NVars - n
                           /\ l \in 0 .. NVars /\ l + 1 \in 0 .. NVars /\ l # NVars /\ l \in Nat
    BY NVarsAssumption DEF Level
  <2> SUFFICES ASSUME NEW S \in SUBSET Env, Free(S, l)
               PROVE  Built(S, l, BuildFrom[<<S, l>>])
    BY <2>1 DEF BuiltFrom
  <2>2. PICK r : r = BuildFrom[<<S, l>>]
    OBVIOUS
  <2>3. CASE S = {} \/ S = Env
    BY <1>1, <2>1, <2>2, <2>3
  <2>4. CASE S # {} /\ S # Env
    <3>1. PICK L : L = Given(S, l, FALSE)
      OBVIOUS
    <3>2. PICK U : U = Given(S, l, TRUE)
      OBVIOUS
    <3>3. PICK low : low = BuildFrom[<<L, l + 1>>]
      OBVIOUS
    <3>4. PICK high : high = BuildFrom[<<U, l + 1>>]
      OBVIOUS
    <3>5. r = bdd_makenode(l, low, high)
      BY <2>1, <2>2, <2>4, <3>1, <3>2, <3>3, <3>4, BuildFromIs DEF BuildStep
    <3>6. /\ L \in SUBSET Env /\ Free(L, l + 1)
          /\ U \in SUBSET Env /\ Free(U, l + 1)
          /\ \A v \in Env : v[l] = FALSE => (v \in S <=> v \in L)
          /\ \A v \in Env : v[l] = TRUE => (v \in S <=> v \in U)
      BY <2>1, <3>1, <3>2, GivenIs
    <3>7. Built(L, l + 1, low) /\ Built(U, l + 1, high)
      <4>1. BuiltFrom(l + 1)
        <5>1. n <= NVars
          BY NVarsAssumption
        <5>2. BuiltFrom(NVars - n)
          BY <1>3, <5>1
        <5> QED
          BY <2>1, <5>2
      <4> QED
        BY <3>3, <3>4, <3>6, <4>1 DEF BuiltFrom
    <3>8. /\ low \in Good /\ high \in Good /\ AllShared[low] /\ AllShared[high]
          /\ l < LevelOf(low) /\ l < LevelOf(high)
      <4>1. LevelOf(low) \in Nat /\ LevelOf(high) \in Nat
        BY <3>7, RefLevel DEF SharedGood, Good, Built
      <4> QED
        BY <2>1, <3>7, <4>1 DEF SharedGood, Built
    <3>9. /\ r \in Good /\ l <= LevelOf(r) /\ AllShared[r]
          /\ \A v \in Env : v \in Sem(r) <=> IF v[l] THEN v \in Sem(high) ELSE v \in Sem(low)
      BY <3>5, <3>8, GoodMakenode
    <3>10. \A v \in Env : v \in Sem(r) <=> v \in S
      <4>1. \A v \in Env : v[l] \in BOOLEAN
        BY DEF Env
      <4> QED
        BY <3>6, <3>7, <3>9, <4>1 DEF Built
    <3>11. Sem(r) = S
      <4>1. Sem(r) \subseteq Env
        BY DEF Sem
      <4> QED
        BY <3>10, <4>1
    <3> QED
      BY <2>1, <2>2, <3>9, <3>11 DEF SharedGood, Built
  <2> QED
    BY <2>3, <2>4
<1>4. \A n \in Nat : n \in T
  <2> HIDE DEF T
  <2> QED
    BY <1>2, <1>3, NatSet
<1> TAKE l \in 0 .. NVars
<1>5. NVars - l \in Nat /\ NVars - l <= NVars /\ NVars - (NVars - l) = l
  BY NVarsAssumption
<1>6. NVars - l \in T
  BY <1>4, <1>5
<1> QED
  BY <1>5, <1>6

\* It is in the shared table, means the set, and starts at the first variable
\* that the set depends on.
LEMMA BuildRight ==
  ASSUME NEW S \in SUBSET Env, NEW r, r = Build(S)
  PROVE  /\ r \in SharedGood /\ Sem(r) = S
         /\ \A l \in Nat : l <= NVars /\ Free(S, l) => l <= LevelOf(r)
<1>1. Free(S, 0)
  <2>1. ASSUME NEW v \in Env, NEW w \in Env, Agree(v, w, 0) PROVE v = w
    <3>1. \A k \in Level : v[k] = w[k]
      BY <2>1 DEF Agree, Level
    <3> QED
      BY <3>1 DEF Env
  <2> QED
    BY <2>1 DEF Free
<1>2. r \in SharedGood /\ Sem(r) = S
  BY <1>1, BuildFromRight, NVarsAssumption DEF Build, Built, BuiltFrom
<1> QED
  BY <1>2, LevelBound

-----------------------------------------------------------------------------
(* Pairs of operands *)

Top(x, y) == Lower(LevelOf(x), LevelOf(y))
PairDom == Ref \X Ref \X Nat

\* The higher of two levels, which is NVars for constants only.
LEMMA TopIs ==
  ASSUME NEW x \in Ref, NEW y \in Ref
  PROVE  /\ Top(x, y) \in Nat /\ Top(x, y) <= NVars
         /\ Top(x, y) <= LevelOf(x) /\ Top(x, y) <= LevelOf(y)
         /\ Top(x, y) = LevelOf(x) \/ Top(x, y) = LevelOf(y)
         /\ Top(x, y) = Top(y, x)
         /\ (~IsConst(x) \/ ~IsConst(y)) => Top(x, y) \in Level
<1>1. /\ LevelOf(x) \in Nat /\ LevelOf(x) <= NVars /\ (IsConst(x) <=> LevelOf(x) = NVars)
      /\ LevelOf(y) \in Nat /\ LevelOf(y) <= NVars /\ (IsConst(y) <=> LevelOf(y) = NVars)
  BY RefLevel
<1> QED
  BY <1>1, NVarsAssumption DEF Top, Lower, Level

\* What holds of two diagrams if it holds of all pairs that lie deeper, holds
\* of all pairs.
LEMMA PairUpwards ==
  ASSUME NEW S,
         \A x, y \in Good :
           (\A p, q \in Good : Top(x, y) < Top(p, q) => <<p, q>> \in S) => <<x, y>> \in S
  PROVE  \A x, y \in Good : <<x, y>> \in S
<1> DEFINE P(n) == \A x, y \in Good : NVars - Top(x, y) < n => <<x, y>> \in S
           T == {n \in Nat : P(n)}
<1>0. \A x, y \in Good : Top(x, y) \in Nat /\ Top(x, y) <= NVars
  BY TopIs, InGood
<1>1. 0 \in T
  <2>1. \A x, y \in Good : ~(NVars - Top(x, y) < 0)
    BY <1>0, NVarsAssumption
  <2> QED
    BY <2>1
<1>2. ASSUME NEW n \in Nat, n \in T PROVE n + 1 \in T
  <2>1. ASSUME NEW x \in Good, NEW y \in Good, NVars - Top(x, y) < n + 1 PROVE <<x, y>> \in S
    <3>1. ASSUME NEW p \in Good, NEW q \in Good, Top(x, y) < Top(p, q) PROVE <<p, q>> \in S
      <4>1. NVars - Top(p, q) < n
        BY <1>0, <2>1, <3>1, NVarsAssumption
      <4> QED
        BY <1>2, <4>1
    <3> QED
      BY <3>1
  <2> QED
    BY <2>1
<1>3. NVars + 1 \in T
  <2> HIDE DEF T
  <2>1. \A n \in Nat : n \in T
    BY <1>1, <1>2, NatSet
  <2> QED
    BY <2>1, NVarsAssumption
<1>4. \A x, y \in Good : NVars - Top(x, y) < NVars + 1
  BY <1>0, NVarsAssumption
<1> QED
  BY <1>3, <1>4

\* The order of the operands.
LEMMA Ordering ==
  ASSUME NEW x, NEW y, NEW a, a = First(x, y), NEW b, b = Second(x, y)
  PROVE  (a = x /\ b = y) \/ (a = y /\ b = x)
BY DEF First, Second

\* A cofactor at the top of two operands lies deeper.
LEMMA TopCofactors ==
  ASSUME NEW a \in Ref, NEW b \in Ref, NEW l \in Level, l = Top(a, b)
  PROVE  /\ LowAt(a, l) \in Ref /\ LowAt(b, l) \in Ref
         /\ HighAt(a, l) \in Ref /\ HighAt(b, l) \in Ref
         /\ l < LevelOf(LowAt(a, l)) /\ l < LevelOf(LowAt(b, l))
         /\ l < LevelOf(HighAt(a, l)) /\ l < LevelOf(HighAt(b, l))
         /\ l < Top(LowAt(a, l), LowAt(b, l)) /\ l < Top(HighAt(a, l), HighAt(b, l))
<1>1. l <= LevelOf(a) /\ l <= LevelOf(b)
  BY TopIs
<1>2. /\ LowAt(a, l) \in Ref /\ LowAt(b, l) \in Ref
      /\ HighAt(a, l) \in Ref /\ HighAt(b, l) \in Ref
      /\ l < LevelOf(LowAt(a, l)) /\ l < LevelOf(LowAt(b, l))
      /\ l < LevelOf(HighAt(a, l)) /\ l < LevelOf(HighAt(b, l))
  BY <1>1, RefOrdered, Cofactors
<1>3. /\ Top(LowAt(a, l), LowAt(b, l)) = LevelOf(LowAt(a, l)) \/ Top(LowAt(a, l), LowAt(b, l)) = LevelOf(LowAt(b, l))
      /\ Top(HighAt(a, l), HighAt(b, l)) = LevelOf(HighAt(a, l)) \/ Top(HighAt(a, l), HighAt(b, l)) = LevelOf(HighAt(b, l))
  BY <1>2, TopIs
<1> QED
  BY <1>2, <1>3

-----------------------------------------------------------------------------
(* bdd_and *)

\* A call of bdd_and asks for pairs that lie deeper only.
LEMMA AndLocal ==
  ASSUME NEW f, NEW g, NEW x \in Ref, NEW y \in Ref, NEW prev \in Nat,
         \A c \in PairDom : Top(x, y) < Top(c[1], c[2]) => f[c] = g[c]
  PROVE  AndStep(f, x, y, prev) = AndStep(g, x, y, prev)
<1>1. CASE IsTrue(x) \/ IsTrue(y) \/ IsFalse(x) \/ IsFalse(y)
  BY <1>1 DEF AndStep
<1>2. CASE ~(IsTrue(x) \/ IsTrue(y) \/ IsFalse(x) \/ IsFalse(y))
  <2>1. PICK a : a = First(x, y)
    OBVIOUS
  <2>2. PICK b : b = Second(x, y)
    OBVIOUS
  <2>3. (a = x /\ b = y) \/ (a = y /\ b = x)
    BY <2>1, <2>2, Ordering
  <2>4. ~IsConst(x) /\ ~IsConst(y)
    BY <1>2 DEF IsTrue, IsFalse
  <2>5. PICK l \in Level : l = Top(a, b) /\ l = Top(x, y)
    BY <2>3, <2>4, TopIs
  <2>6. ASSUME NEW p \in Ref, NEW q \in Ref, l < Top(p, q)
        PROVE  AndTask(f, p, q, l) = AndTask(g, p, q, l)
    <3>1. <<p, q, l>> \in PairDom
      BY NVarsAssumption DEF PairDom, Level
    <3>2. f[<<p, q, l>>] = g[<<p, q, l>>]
      BY <2>5, <2>6, <3>1
    <3> QED
      BY <3>2 DEF AndTask
  <2>7. a \in Ref /\ b \in Ref
    BY <2>3
  <2>8. /\ AndTask(f, LowAt(a, l), LowAt(b, l), l) = AndTask(g, LowAt(a, l), LowAt(b, l), l)
        /\ AndTask(f, HighAt(a, l), HighAt(b, l), l) = AndTask(g, HighAt(a, l), HighAt(b, l), l)
    BY <2>5, <2>6, <2>7, TopCofactors
  <2>9. l = Lower(LevelOf(a), LevelOf(b))
    BY <2>5 DEF Top
  <2> QED
    BY <1>2, <2>1, <2>2, <2>8, <2>9 DEF AndStep
<1> QED
  BY <1>1, <1>2

AndUpto(f, n) ==
  /\ f = [c \in PairDom |-> f[c]]
  /\ \A c \in PairDom : NVars - Top(c[1], c[2]) <= n => f[c] = AndStep(f, c[1], c[2], c[3])

\* The operands of a call in its tuple.
LEMMA PairIs ==
  \A c \in PairDom : /\ c[1] \in Ref /\ c[2] \in Ref /\ c[3] \in Nat
                     /\ Top(c[1], c[2]) \in Nat /\ Top(c[1], c[2]) <= NVars
<1> TAKE c \in PairDom
<1>1. c[1] \in Ref /\ c[2] \in Ref /\ c[3] \in Nat
  BY DEF PairDom
<1> QED
  BY <1>1, TopIs

\* The recursive definition of AndOf has a function.
LEMMA AndExists ==
  \E f : f = [c \in PairDom |-> AndStep(f, c[1], c[2], c[3])]
<1> DEFINE S == {n \in Nat : \E f : AndUpto(f, n)}
<1>1. ASSUME NEW f, NEW n \in Nat, NEW g, g = [c \in PairDom |-> AndStep(f, c[1], c[2], c[3])],
             n = 0 \/ AndUpto(f, n - 1)
      PROVE  AndUpto(g, n)
  <2>1. ASSUME NEW c \in PairDom, NVars - Top(c[1], c[2]) <= n
        PROVE  g[c] = AndStep(g, c[1], c[2], c[3])
    <3>1. PICK x \in Ref, y \in Ref, prev \in Nat : x = c[1] /\ y = c[2] /\ prev = c[3]
      BY PairIs
    <3>2. ASSUME NEW d \in PairDom, Top(x, y) < Top(d[1], d[2]) PROVE f[d] = g[d]
      <4>1. n # 0 /\ NVars - Top(d[1], d[2]) <= n - 1
        BY <2>1, <3>1, <3>2, PairIs, NVarsAssumption
      <4> QED
        BY <1>1, <4>1 DEF AndUpto
    <3>3. AndStep(f, x, y, prev) = AndStep(g, x, y, prev)
      BY <3>2, AndLocal
    <3> QED
      BY <1>1, <3>1, <3>3
  <2>2. g = [c \in PairDom |-> g[c]]
    BY <1>1
  <2> QED
    BY <2>1, <2>2 DEF AndUpto
<1>2. 0 \in S
  <2>1. PICK f : f = << >>
    OBVIOUS
  <2>2. PICK g : g = [c \in PairDom |-> AndStep(f, c[1], c[2], c[3])]
    OBVIOUS
  <2>3. AndUpto(g, 0)
    BY <1>1, <2>2
  <2> QED
    BY <2>3
<1>3. ASSUME NEW n \in Nat, n \in S PROVE n + 1 \in S
  <2>1. PICK f : AndUpto(f, n)
    BY <1>3
  <2>2. PICK g : g = [c \in PairDom |-> AndStep(f, c[1], c[2], c[3])]
    OBVIOUS
  <2>3. n + 1 \in Nat /\ (n + 1) - 1 = n
    OBVIOUS
  <2>4. AndUpto(g, n + 1)
    BY <1>1, <2>1, <2>2, <2>3
  <2> QED
    BY <2>3, <2>4
<1>4. NVars \in S
  <2> HIDE DEF S
  <2> QED
    BY <1>2, <1>3, NatSet, NVarsAssumption
<1>5. PICK f : AndUpto(f, NVars)
  BY <1>4
<1>6. \A c \in PairDom : f[c] = AndStep(f, c[1], c[2], c[3])
  BY <1>5, PairIs, NVarsAssumption DEF AndUpto
<1>7. f = [c \in PairDom |-> AndStep(f, c[1], c[2], c[3])]
  BY <1>5, <1>6 DEF AndUpto
<1> QED
  BY <1>7

\* AndOf satisfies its equation.
LEMMA AndIs ==
  \A x \in Ref, y \in Ref, prev \in Nat : AndOf[<<x, y, prev>>] = AndStep(AndOf, x, y, prev)
<1> DEFINE Is(f) == f = [c \in PairDom |-> AndStep(f, c[1], c[2], c[3])]
<1>1. AndOf = CHOOSE f : Is(f)
  BY DEF AndOf, PairDom
<1>2. \E f : Is(f)
  BY AndExists
<1>3. Is(AndOf)
  <2> HIDE DEF Is
  <2> QED
    BY <1>1, <1>2
<1> TAKE x \in Ref, y \in Ref, prev \in Nat
<1>4. <<x, y, prev>> \in PairDom
  BY DEF PairDom
<1>5. PICK c : c = <<x, y, prev>>
  OBVIOUS
<1>6. AndOf[c] = AndStep(AndOf, c[1], c[2], c[3]) /\ c[1] = x /\ c[2] = y /\ c[3] = prev
  BY <1>3, <1>4, <1>5
<1> QED
  BY <1>5, <1>6

\* An answer that means S, from level l on, shared if its operands are; and what
\* it leaves in the cache.
Right(o, S, l, sh) ==
  /\ o.res \in Good /\ Sem(o.res) = S /\ l <= LevelOf(o.res)
  /\ sh => AllShared[o.res]
  /\ \A p \in o.puts : IsRight(p.op, p.args, p.res)

AndRight(x, y) ==
  \A prev \in Nat :
    Right(AndOf[<<x, y, prev>>], Sem(x) \cap Sem(y), Top(x, y), AllShared[x] /\ AllShared[y])

\* What bdd_and does with a pair of cofactors is right, if the call on them is.
LEMMA AndTaskRight ==
  ASSUME NEW p \in Good, NEW q \in Good, NEW l \in Level, l < LevelOf(p), l < LevelOf(q),
         AndRight(p, q), NEW t, t = AndTask(AndOf, p, q, l)
  PROVE  /\ t \in Good /\ Sem(t) = Sem(p) \cap Sem(q) /\ l < LevelOf(t)
         /\ AllShared[p] /\ AllShared[q] => AllShared[t]
<1>0. Sem(p) \subseteq Env /\ Sem(q) \subseteq Env
  BY DEF Sem
<1>1. p \in Ref /\ q \in Ref /\ l \in Nat
  BY InGood, NVarsAssumption DEF Level
<1>2. bdd_false \in Good /\ AllShared[bdd_false]
  BY GoodDiagrams DEF SharedGood
<1>3. CASE IsTrue(p)
  BY <1>0, <1>1, <1>3, Constant DEF AndTask
<1>4. CASE IsFalse(p) \/ IsFalse(q)
  <2>1. t = bdd_false
    BY <1>1, <1>4, Constant DEF AndTask, IsTrue, IsFalse
  <2> QED
    BY <1>1, <1>2, <1>4, <2>1, Constant, NVarsAssumption DEF Level
<1>5. CASE IsTrue(q) /\ ~IsTrue(p) /\ ~IsFalse(p) /\ ~IsFalse(q)
  BY <1>0, <1>1, <1>5, Constant DEF AndTask
<1>6. CASE ~IsTrue(q) /\ ~IsTrue(p) /\ ~IsFalse(p) /\ ~IsFalse(q)
  <2>1. t = AndOf[<<p, q, l>>].res
    BY <1>6 DEF AndTask
  <2>2. Right(AndOf[<<p, q, l>>], Sem(p) \cap Sem(q), Top(p, q), AllShared[p] /\ AllShared[q])
    BY <1>1 DEF AndRight
  <2>3. t \in Good /\ Sem(t) = Sem(p) \cap Sem(q) /\ Top(p, q) <= LevelOf(t)
        /\ (AllShared[p] /\ AllShared[q] => AllShared[t])
    BY <2>1, <2>2 DEF Right
  <2>4. l < Top(p, q) /\ Top(p, q) \in Nat /\ LevelOf(t) \in Nat
    BY <1>1, <2>3, TopIs, RefLevel, InGood
  <2> QED
    BY <1>1, <2>3, <2>4
<1> QED
  BY <1>3, <1>4, <1>5, <1>6

\* References that start at a level, or deeper, depend on no variable above it.
LEMMA FreeBoth ==
  ASSUME NEW x \in Ref, NEW y \in Ref, NEW l \in Nat, l <= LevelOf(x), l <= LevelOf(y)
  PROVE  Free(Sem(x), l) /\ Free(Sem(y), l)
<1>1. /\ LevelOf(x) \in Nat /\ LevelOf(y) \in Nat
      /\ Free(Sem(x), LevelOf(x)) /\ Free(Sem(y), LevelOf(y))
  BY RefLevel, SemFree
<1> QED
  BY <1>1, FreeLower

\* What the cache finds for a key.
LEMMA CachedRight ==
  ASSUME NEW op, op # "satcount", NEW g, NEW S \in SUBSET Env, S = Meaning(op, g, in.chain),
         NEW l \in Nat, l <= NVars, Free(S, l), NEW r, r = Cached(op, g)
  PROVE  r \in Good /\ AllShared[r] /\ Sem(r) = S /\ l <= LevelOf(r)
<1>1. r = Build(S)
  BY DEF Cached
<1>2. r \in SharedGood /\ Sem(r) = S /\ l <= LevelOf(r)
  BY <1>1, BuildRight
<1> QED
  BY <1>2 DEF SharedGood

\* bdd_and of any two good diagrams is the good diagram of the intersection, with
\* any lookups hitting and the operands in either order; it is in the shared
\* table if they are, and every result it puts in the cache is right for its key.
THEOREM AndOfRight ==
  \A x, y \in Good : AndRight(x, y)
<1> DEFINE S == {c \in Good \X Good : AndRight(c[1], c[2])}
<1>1. ASSUME NEW x \in Good, NEW y \in Good,
             \A p, q \in Good : Top(x, y) < Top(p, q) => AndRight(p, q)
      PROVE  AndRight(x, y)
  <2> SUFFICES ASSUME NEW prev \in Nat
               PROVE  Right(AndOf[<<x, y, prev>>], Sem(x) \cap Sem(y), Top(x, y), AllShared[x] /\ AllShared[y])
    BY DEF AndRight
  <2>0. x \in Ref /\ y \in Ref /\ Sem(x) \subseteq Env /\ Sem(y) \subseteq Env
    BY InGood DEF Sem
  <2>1. PICK o : o = AndOf[<<x, y, prev>>]
    OBVIOUS
  <2>2. o = AndStep(AndOf, x, y, prev)
    BY <2>0, <2>1, AndIs
  <2>3. SUFFICES Right(o, Sem(x) \cap Sem(y), Top(x, y), AllShared[x] /\ AllShared[y])
    BY <2>1
  <2>4. ASSUME NEW r \in Good, o = Answer(r), Sem(r) = Sem(x) \cap Sem(y), Top(x, y) <= LevelOf(r),
               AllShared[x] /\ AllShared[y] => AllShared[r]
        PROVE  Right(o, Sem(x) \cap Sem(y), Top(x, y), AllShared[x] /\ AllShared[y])
    <3>1. o.res = r /\ o.puts = {}
      BY <2>4 DEF Answer
    <3> QED
      BY <2>4, <3>1 DEF Right
  <2>5. Top(x, y) <= LevelOf(x) /\ Top(x, y) <= LevelOf(y) /\ Top(x, y) \in Nat /\ Top(x, y) <= NVars
    BY <2>0, TopIs
  <2>6. CASE IsTrue(x)
    <3>1. o = Answer(y) /\ Sem(x) = Env
      BY <2>0, <2>2, <2>6, Constant DEF AndStep
    <3>2. Sem(y) = Sem(x) \cap Sem(y)
      BY <2>0, <3>1
    <3> QED
      BY <2>4, <2>5, <3>1, <3>2
  <2>7. CASE ~IsTrue(x) /\ IsTrue(y)
    <3>1. o = Answer(x) /\ Sem(y) = Env
      BY <2>0, <2>2, <2>7, Constant DEF AndStep
    <3>2. Sem(x) = Sem(x) \cap Sem(y)
      BY <2>0, <3>1
    <3> QED
      BY <2>4, <2>5, <3>1, <3>2
  <2>8. CASE ~IsTrue(x) /\ ~IsTrue(y) /\ (IsFalse(x) \/ IsFalse(y))
    <3>1. o = Answer(bdd_false)
      BY <2>2, <2>8 DEF AndStep
    <3>2. Sem(bdd_false) = Sem(x) \cap Sem(y) /\ LevelOf(bdd_false) = NVars
      BY <2>0, <2>8, Constant
    <3>3. bdd_false \in Good /\ AllShared[bdd_false]
      BY GoodDiagrams DEF SharedGood
    <3> QED
      BY <2>4, <2>5, <3>1, <3>2, <3>3
  <2>9. CASE ~IsTrue(x) /\ ~IsTrue(y) /\ ~IsFalse(x) /\ ~IsFalse(y)
    <3>1. PICK a : a = First(x, y)
      OBVIOUS
    <3>2. PICK b : b = Second(x, y)
      OBVIOUS
    <3>3. (a = x /\ b = y) \/ (a = y /\ b = x)
      BY <3>1, <3>2, Ordering
    <3>4. ~IsConst(x) /\ ~IsConst(y)
      BY <2>9 DEF IsTrue, IsFalse
    <3>5. PICK l \in Level : l = Top(a, b) /\ l = Top(x, y) /\ l \in Nat
      BY <2>0, <3>3, <3>4, TopIs
    <3>6. a \in Good /\ b \in Good /\ a \in Ref /\ b \in Ref /\ l <= LevelOf(a) /\ l <= LevelOf(b)
      BY <2>0, <2>5, <3>3, <3>5
    <3>7. PICK a0 : a0 = LowAt(a, l)
      OBVIOUS
    <3>8. PICK a1 : a1 = HighAt(a, l)
      OBVIOUS
    <3>9. PICK b0 : b0 = LowAt(b, l)
      OBVIOUS
    <3>10. PICK b1 : b1 = HighAt(b, l)
      OBVIOUS
    <3>11. /\ a0 \in Good /\ l < LevelOf(a0) /\ a1 \in Good /\ l < LevelOf(a1)
           /\ AllShared[a] => AllShared[a0] /\ AllShared[a1]
           /\ \A v \in Env : v \in Sem(a) <=> IF v[l] THEN v \in Sem(a1) ELSE v \in Sem(a0)
      BY <3>6, <3>7, <3>8, GoodCofactors
    <3>12. /\ b0 \in Good /\ l < LevelOf(b0) /\ b1 \in Good /\ l < LevelOf(b1)
           /\ AllShared[b] => AllShared[b0] /\ AllShared[b1]
           /\ \A v \in Env : v \in Sem(b) <=> IF v[l] THEN v \in Sem(b1) ELSE v \in Sem(b0)
      BY <3>6, <3>9, <3>10, GoodCofactors
    <3>13. AndRight(a0, b0) /\ AndRight(a1, b1)
      <4>1. l < Top(a0, b0) /\ l < Top(a1, b1)
        BY <3>5, <3>6, <3>7, <3>8, <3>9, <3>10, TopCofactors
      <4> QED
        BY <1>1, <3>5, <3>11, <3>12, <4>1
    <3>14. PICK low : low = AndTask(AndOf, a0, b0, l)
      OBVIOUS
    <3>15. PICK high : high = AndTask(AndOf, a1, b1, l)
      OBVIOUS
    <3>16. /\ low \in Good /\ Sem(low) = Sem(a0) \cap Sem(b0) /\ l < LevelOf(low)
           /\ AllShared[a0] /\ AllShared[b0] => AllShared[low]
      BY <3>11, <3>12, <3>13, <3>14, AndTaskRight
    <3>17. /\ high \in Good /\ Sem(high) = Sem(a1) \cap Sem(b1) /\ l < LevelOf(high)
           /\ AllShared[a1] /\ AllShared[b1] => AllShared[high]
      BY <3>11, <3>12, <3>13, <3>15, AndTaskRight
    <3>18. PICK r : r = bdd_makenode(l, low, high)
      OBVIOUS
    <3>19. /\ r \in Good /\ l <= LevelOf(r)
           /\ AllShared[low] /\ AllShared[high] => AllShared[r]
           /\ \A v \in Env : v \in Sem(r) <=> IF v[l] THEN v \in Sem(high) ELSE v \in Sem(low)
      BY <3>16, <3>17, <3>18, GoodMakenode
    <3>20. Sem(r) = Sem(a) \cap Sem(b)
      <4>1. \A v \in Env : v \in Sem(r) <=> v \in Sem(a) /\ v \in Sem(b)
        BY <3>11, <3>12, <3>16, <3>17, <3>19
      <4>2. Sem(r) \subseteq Env /\ Sem(a) \subseteq Env
        BY DEF Sem
      <4> QED
        BY <4>1, <4>2
    <3>21. AllShared[x] /\ AllShared[y] => AllShared[r]
      BY <3>3, <3>11, <3>12, <3>16, <3>17, <3>19
    <3>22. Sem(a) \cap Sem(b) = Sem(x) \cap Sem(y)
      BY <3>3
    <3>23. l = Lower(LevelOf(a), LevelOf(b))
      BY <3>5 DEF Top
    <3>24. Meaning("and", <<a, b>>, in.chain) = Sem(a) \cap Sem(b)
      BY DEF Meaning
    <3>25. CASE Hit(prev, l, "and", <<a, b>>)
      <4>1. PICK c : c = Cached("and", <<a, b>>)
        OBVIOUS
      <4>2. o = Answer(c)
        BY <2>2, <2>9, <3>1, <3>2, <3>23, <3>25, <4>1 DEF AndStep
      <4>3. PICK T \in SUBSET Env : T = Sem(a) \cap Sem(b)
        BY DEF Sem
      <4>4. Free(T, l)
        <5>1. Free(Sem(a), l) /\ Free(Sem(b), l)
          BY <3>5, <3>6, FreeBoth
        <5> QED
          BY <4>3, <5>1 DEF Free
      <4>5. c \in Good /\ AllShared[c] /\ Sem(c) = T /\ l <= LevelOf(c)
        <5>1. PICK op : op = "and"
          OBVIOUS
        <5>2. PICK g : g = <<a, b>>
          OBVIOUS
        <5>3. op # "satcount" /\ T = Meaning(op, g, in.chain) /\ c = Cached(op, g) /\ l <= NVars
          BY <2>5, <3>5, <3>24, <4>1, <4>3, <5>1, <5>2
        <5> QED
          BY <3>5, <4>4, <5>3, CachedRight
      <4> QED
        BY <2>4, <3>5, <3>22, <4>2, <4>3, <4>5
    <3>26. CASE ~Hit(prev, l, "and", <<a, b>>)
      <4>1. o = Store(r, prev, l, "and", <<a, b>>, r)
        BY <2>2, <2>9, <3>1, <3>2, <3>7, <3>8, <3>9, <3>10, <3>14, <3>15, <3>18, <3>23, <3>26 DEF AndStep
      <4>2. o.res = r /\ \A p \in o.puts : p = [op |-> "and", args |-> <<a, b>>, res |-> r]
        BY <4>1 DEF Store
      <4>3. IsRight("and", <<a, b>>, r)
        BY <3>19, <3>20, <3>24, InGood DEF IsRight
      <4> QED
        BY <3>5, <3>19, <3>20, <3>21, <3>22, <4>2, <4>3 DEF Right
    <3> QED
      BY <3>25, <3>26
  <2> QED
    BY <2>6, <2>7, <2>8, <2>9
<1>2. ASSUME NEW x \in Good, NEW y \in Good,
             \A p, q \in Good : Top(x, y) < Top(p, q) => <<p, q>> \in S
      PROVE  <<x, y>> \in S
  <2>1. \A p, q \in Good : Top(x, y) < Top(p, q) => AndRight(p, q)
    BY <1>2
  <2>2. AndRight(x, y)
    BY <1>1, <2>1
  <2> QED
    BY <2>2
<1>3. \A x, y \in Good : <<x, y>> \in S
  <2> HIDE DEF S
  <2> QED
    BY <1>2, PairUpwards
<1> QED
  BY <1>3

-----------------------------------------------------------------------------
(* bdd_or and bdd_diff *)

\* bdd_not of a good reference is one.
LEMMA NotBelow ==
  ASSUME NEW x \in Good
  PROVE  bdd_not(x) \in Good /\ bdd_not(x) \in Ref /\ x \in Ref
BY GoodNot, InGood

\* A call of bdd_and by another operation.
LEMMA AndCall ==
  ASSUME NEW x \in Good, NEW y \in Good, NEW prev \in Nat, NEW r, r = bdd_and(x, y, prev).res
  PROVE  /\ r \in Good /\ Sem(r) = Sem(x) \cap Sem(y) /\ Top(x, y) <= LevelOf(r)
         /\ AllShared[x] /\ AllShared[y] => AllShared[r]
<1>1. Right(AndOf[<<x, y, prev>>], Sem(x) \cap Sem(y), Top(x, y), AllShared[x] /\ AllShared[y])
  BY AndOfRight DEF AndRight
<1>2. r = AndOf[<<x, y, prev>>].res
  BY DEF bdd_and
<1> QED
  BY <1>1, <1>2 DEF Right

\* Complements have the same top level.
LEMMA TopNot ==
  ASSUME NEW x \in Good, NEW y \in Good
  PROVE  /\ Top(bdd_not(x), y) = Top(x, y) /\ Top(x, bdd_not(y)) = Top(x, y)
         /\ Top(bdd_not(x), bdd_not(y)) = Top(x, y)
BY GoodNot DEF Top

\* The union by way of the intersection.
LEMMA UnionByAnd ==
  ASSUME NEW x \in Good, NEW y \in Good, NEW prev \in Nat,
         NEW t, t = bdd_and(bdd_not(x), bdd_not(y), prev).res, NEW r, r = bdd_not(t)
  PROVE  /\ r \in Good /\ Sem(r) = Sem(x) \cup Sem(y) /\ Top(x, y) <= LevelOf(r)
         /\ AllShared[x] /\ AllShared[y] => AllShared[r]
<1>1. PICK p \in Good : p = bdd_not(x) /\ Sem(p) = Env \ Sem(x) /\ (AllShared[x] => AllShared[p])
  BY GoodNot
<1>2. PICK q \in Good : q = bdd_not(y) /\ Sem(q) = Env \ Sem(y) /\ (AllShared[y] => AllShared[q])
  BY GoodNot
<1>3. t = bdd_and(p, q, prev).res
  BY <1>1, <1>2
<1>4. /\ t \in Good /\ Sem(t) = Sem(p) \cap Sem(q) /\ Top(p, q) <= LevelOf(t)
      /\ AllShared[p] /\ AllShared[q] => AllShared[t]
  BY <1>3, AndCall
<1>5. /\ r = bdd_not(t) /\ r \in Good /\ LevelOf(r) = LevelOf(t) /\ Sem(r) = Env \ Sem(t)
      /\ AllShared[t] => AllShared[r]
  BY <1>1, <1>2, <1>3, <1>4, GoodNot
<1>6. Top(p, q) = Top(x, y)
  BY <1>1, <1>2, TopNot
<1>7. Sem(x) \subseteq Env /\ Sem(y) \subseteq Env
  BY DEF Sem
<1>8. Sem(r) = Sem(x) \cup Sem(y)
  BY <1>1, <1>2, <1>4, <1>5, <1>7
<1> QED
  BY <1>1, <1>2, <1>4, <1>5, <1>6, <1>8

\* bdd_or is the union.
LEMMA OrCall ==
  ASSUME NEW x \in Good, NEW y \in Good, NEW r, r = bdd_or(x, y)
  PROVE  /\ r \in Good /\ Sem(r) = Sem(x) \cup Sem(y) /\ Top(x, y) <= LevelOf(r)
         /\ AllShared[x] /\ AllShared[y] => AllShared[r]
<1>1. PICK n \in Nat : n = 0
  OBVIOUS
<1>2. PICK t : t = bdd_and(bdd_not(x), bdd_not(y), n).res
  OBVIOUS
<1>3. r = bdd_not(t)
  BY <1>1, <1>2 DEF bdd_or
<1> QED
  BY <1>2, <1>3, UnionByAnd

\* bdd_diff is the difference.
LEMMA DiffCall ==
  ASSUME NEW x \in Good, NEW y \in Good, NEW r, r = bdd_diff(x, y)
  PROVE  /\ r \in Good /\ Sem(r) = Sem(x) \ Sem(y) /\ Top(x, y) <= LevelOf(r)
         /\ AllShared[x] /\ AllShared[y] => AllShared[r]
<1>1. PICK n \in Nat : n = 0
  OBVIOUS
<1>2. PICK q \in Good : q = bdd_not(y) /\ Sem(q) = Env \ Sem(y) /\ (AllShared[y] => AllShared[q])
  BY GoodNot
<1>3. r = bdd_and(x, q, n).res
  BY <1>1, <1>2 DEF bdd_diff
<1>4. /\ r \in Good /\ Sem(r) = Sem(x) \cap Sem(q) /\ Top(x, q) <= LevelOf(r)
      /\ AllShared[x] /\ AllShared[q] => AllShared[r]
  BY <1>3, AndCall
<1>5. Sem(x) \subseteq Env
  BY DEF Sem
<1>6. Sem(r) = Sem(x) \ Sem(y)
  BY <1>2, <1>4, <1>5
<1>7. Top(x, q) = Top(x, y)
  BY <1>2, TopNot
<1> QED
  BY <1>2, <1>4, <1>6, <1>7

-----------------------------------------------------------------------------
(* bdd_xor *)

\* The operands as bdd_xor changes them: the mark of the first moves to the second.
LEMMA Moved ==
  ASSUME NEW D, Ordered(D), NEW m \in D, NEW n \in D,
         NEW a, a = bdd_stripmark(m), NEW b, b = bdd_transfermark(m, n)
  PROVE  /\ (a = m /\ b = n) \/ (a = bdd_not(m) /\ b = bdd_not(n))
         /\ a \in D /\ b \in D /\ LevelOf(a) = LevelOf(m) /\ LevelOf(b) = LevelOf(n)
<1>1. IsReference(m) /\ IsReference(n)
  BY Below
<1>2. /\ bdd_not(m) \in D /\ LevelOf(bdd_not(m)) = LevelOf(m)
      /\ bdd_not(n) \in D /\ LevelOf(bdd_not(n)) = LevelOf(n)
  BY NotProps
<1>3. /\ b = IF m.mark THEN bdd_not(n) ELSE n
      /\ a = IF m.mark THEN bdd_not(m) ELSE m
  BY <1>1, Marks
<1> QED
  BY <1>2, <1>3

\* A call of bdd_xor asks for pairs that lie deeper only.
LEMMA XorLocal ==
  ASSUME NEW f, NEW g, NEW x \in Ref, NEW y \in Ref, NEW prev \in Nat,
         \A c \in PairDom : Top(x, y) < Top(c[1], c[2]) => f[c] = g[c]
  PROVE  XorStep(f, x, y, prev) = XorStep(g, x, y, prev)
<1> DEFINE Ends == IsTrue(x) \/ IsTrue(y) \/ IsFalse(x) \/ IsFalse(y)
<1>1. CASE Ends
  BY <1>1 DEF XorStep
<1>2. CASE ~Ends
  <2>1. PICK m : m = First(x, y)
    OBVIOUS
  <2>2. PICK n : n = Second(x, y)
    OBVIOUS
  <2>3. (m = x /\ n = y) \/ (m = y /\ n = x)
    BY <2>1, <2>2, Ordering
  <2>4. PICK a : a = bdd_stripmark(m)
    OBVIOUS
  <2>5. PICK b : b = bdd_transfermark(m, n)
    OBVIOUS
  <2>6. a \in Ref /\ b \in Ref /\ LevelOf(a) = LevelOf(m) /\ LevelOf(b) = LevelOf(n)
    BY <2>3, <2>4, <2>5, RefOrdered, Moved
  <2>7. ~IsConst(x) /\ ~IsConst(y)
    BY <1>2 DEF IsTrue, IsFalse
  <2>8. PICK l \in Level : l = Top(x, y)
    BY <2>7, TopIs
  <2>9. l = Top(a, b)
    <3>1. Top(m, n) = Top(x, y)
      BY <2>3, TopIs
    <3> QED
      BY <2>6, <2>8, <3>1 DEF Top
  <2>10. ASSUME NEW p \in Ref, NEW q \in Ref, l < Top(p, q)
         PROVE  f[<<p, q, l>>] = g[<<p, q, l>>]
    <3>1. <<p, q, l>> \in PairDom
      BY NVarsAssumption DEF PairDom, Level
    <3> QED
      BY <2>8, <2>10, <3>1
  <2>11. /\ f[<<LowAt(a, l), LowAt(b, l), l>>] = g[<<LowAt(a, l), LowAt(b, l), l>>]
         /\ f[<<HighAt(a, l), HighAt(b, l), l>>] = g[<<HighAt(a, l), HighAt(b, l), l>>]
    BY <2>6, <2>9, <2>10, TopCofactors
  <2>12. l = Lower(LevelOf(a), LevelOf(b))
    BY <2>9 DEF Top
  <2> QED
    BY <2>1, <2>2, <2>4, <2>5, <2>11, <2>12 DEF XorStep
<1> QED
  BY <1>1, <1>2

XorUpto(f, n) ==
  /\ f = [c \in PairDom |-> f[c]]
  /\ \A c \in PairDom : NVars - Top(c[1], c[2]) <= n => f[c] = XorStep(f, c[1], c[2], c[3])

\* The recursive definition of XorOf has a function.
LEMMA XorExists ==
  \E f : f = [c \in PairDom |-> XorStep(f, c[1], c[2], c[3])]
<1> DEFINE S == {n \in Nat : \E f : XorUpto(f, n)}
<1>1. ASSUME NEW f, NEW n \in Nat, NEW g, g = [c \in PairDom |-> XorStep(f, c[1], c[2], c[3])],
             n = 0 \/ XorUpto(f, n - 1)
      PROVE  XorUpto(g, n)
  <2>1. ASSUME NEW c \in PairDom, NVars - Top(c[1], c[2]) <= n
        PROVE  g[c] = XorStep(g, c[1], c[2], c[3])
    <3>1. PICK x \in Ref, y \in Ref, prev \in Nat : x = c[1] /\ y = c[2] /\ prev = c[3]
      BY PairIs
    <3>2. ASSUME NEW d \in PairDom, Top(x, y) < Top(d[1], d[2]) PROVE f[d] = g[d]
      <4>1. n # 0 /\ NVars - Top(d[1], d[2]) <= n - 1
        BY <2>1, <3>1, <3>2, PairIs, NVarsAssumption
      <4> QED
        BY <1>1, <4>1 DEF XorUpto
    <3>3. XorStep(f, x, y, prev) = XorStep(g, x, y, prev)
      BY <3>2, XorLocal
    <3> QED
      BY <1>1, <3>1, <3>3
  <2>2. g = [c \in PairDom |-> g[c]]
    BY <1>1
  <2> QED
    BY <2>1, <2>2 DEF XorUpto
<1>2. 0 \in S
  <2>1. PICK f : f = << >>
    OBVIOUS
  <2>2. PICK g : g = [c \in PairDom |-> XorStep(f, c[1], c[2], c[3])]
    OBVIOUS
  <2>3. XorUpto(g, 0)
    BY <1>1, <2>2
  <2> QED
    BY <2>3
<1>3. ASSUME NEW n \in Nat, n \in S PROVE n + 1 \in S
  <2>1. PICK f : XorUpto(f, n)
    BY <1>3
  <2>2. PICK g : g = [c \in PairDom |-> XorStep(f, c[1], c[2], c[3])]
    OBVIOUS
  <2>3. n + 1 \in Nat /\ (n + 1) - 1 = n
    OBVIOUS
  <2>4. XorUpto(g, n + 1)
    BY <1>1, <2>1, <2>2, <2>3
  <2> QED
    BY <2>3, <2>4
<1>4. NVars \in S
  <2> HIDE DEF S
  <2> QED
    BY <1>2, <1>3, NatSet, NVarsAssumption
<1>5. PICK f : XorUpto(f, NVars)
  BY <1>4
<1>6. \A c \in PairDom : f[c] = XorStep(f, c[1], c[2], c[3])
  BY <1>5, PairIs, NVarsAssumption DEF XorUpto
<1>7. f = [c \in PairDom |-> XorStep(f, c[1], c[2], c[3])]
  BY <1>5, <1>6 DEF XorUpto
<1> QED
  BY <1>7

\* XorOf satisfies its equation.
LEMMA XorIs ==
  \A x \in Ref, y \in Ref, prev \in Nat : XorOf[<<x, y, prev>>] = XorStep(XorOf, x, y, prev)
<1> DEFINE Is(f) == f = [c \in PairDom |-> XorStep(f, c[1], c[2], c[3])]
<1>1. XorOf = CHOOSE f : Is(f)
  BY DEF XorOf, PairDom
<1>2. \E f : Is(f)
  BY XorExists
<1>3. Is(XorOf)
  <2> HIDE DEF Is
  <2> QED
    BY <1>1, <1>2
<1> TAKE x \in Ref, y \in Ref, prev \in Nat
<1>4. <<x, y, prev>> \in PairDom
  BY DEF PairDom
<1>5. PICK c : c = <<x, y, prev>>
  OBVIOUS
<1>6. XorOf[c] = XorStep(XorOf, c[1], c[2], c[3]) /\ c[1] = x /\ c[2] = y /\ c[3] = prev
  BY <1>3, <1>4, <1>5
<1> QED
  BY <1>5, <1>6


Sym(S, T) == (S \ T) \cup (T \ S)

XorRight(x, y) ==
  \A prev \in Nat :
    Right(XorOf[<<x, y, prev>>], Sym(Sem(x), Sem(y)), Top(x, y), AllShared[x] /\ AllShared[y])

\* A call on cofactors is right at the level of the node that is made of it.
LEMMA XorTaskRight ==
  ASSUME NEW p \in Good, NEW q \in Good, NEW l \in Level, l < LevelOf(p), l < LevelOf(q),
         XorRight(p, q), NEW t, t = XorOf[<<p, q, l>>].res
  PROVE  /\ t \in Good /\ Sem(t) = Sym(Sem(p), Sem(q)) /\ l < LevelOf(t)
         /\ AllShared[p] /\ AllShared[q] => AllShared[t]
<1>1. p \in Ref /\ q \in Ref /\ l \in Nat
  BY InGood, NVarsAssumption DEF Level
<1>2. Right(XorOf[<<p, q, l>>], Sym(Sem(p), Sem(q)), Top(p, q), AllShared[p] /\ AllShared[q])
  BY <1>1 DEF XorRight
<1>3. t \in Good /\ Sem(t) = Sym(Sem(p), Sem(q)) /\ Top(p, q) <= LevelOf(t)
      /\ (AllShared[p] /\ AllShared[q] => AllShared[t])
  BY <1>2 DEF Right
<1>4. l < Top(p, q) /\ Top(p, q) \in Nat /\ LevelOf(t) \in Nat
  BY <1>1, <1>3, TopIs, RefLevel, InGood
<1> QED
  BY <1>1, <1>3, <1>4

\* bdd_xor of any two good diagrams is the good diagram of the symmetric
\* difference, though it moves the mark of one operand to the other and exchanges
\* the two; what it puts in the cache is right for the operands as it changed them.
THEOREM XorOfRight ==
  \A x, y \in Good : XorRight(x, y)
<1> DEFINE S == {c \in Good \X Good : XorRight(c[1], c[2])}
<1>1. ASSUME NEW x \in Good, NEW y \in Good,
             \A p, q \in Good : Top(x, y) < Top(p, q) => XorRight(p, q)
      PROVE  XorRight(x, y)
  <2> SUFFICES ASSUME NEW prev \in Nat
               PROVE  Right(XorOf[<<x, y, prev>>], Sym(Sem(x), Sem(y)), Top(x, y), AllShared[x] /\ AllShared[y])
    BY DEF XorRight
  <2>0. x \in Ref /\ y \in Ref /\ Sem(x) \subseteq Env /\ Sem(y) \subseteq Env
    BY InGood DEF Sem
  <2>1. PICK o : o = XorOf[<<x, y, prev>>]
    OBVIOUS
  <2>2. o = XorStep(XorOf, x, y, prev)
    BY <2>0, <2>1, XorIs
  <2>3. SUFFICES Right(o, Sym(Sem(x), Sem(y)), Top(x, y), AllShared[x] /\ AllShared[y])
    BY <2>1
  <2>4. ASSUME NEW r \in Good, o = Answer(r), Sem(r) = Sym(Sem(x), Sem(y)), Top(x, y) <= LevelOf(r),
               AllShared[x] /\ AllShared[y] => AllShared[r]
        PROVE  Right(o, Sym(Sem(x), Sem(y)), Top(x, y), AllShared[x] /\ AllShared[y])
    <3>1. o.res = r /\ o.puts = {}
      BY <2>4 DEF Answer
    <3> QED
      BY <2>4, <3>1 DEF Right
  <2>5. Top(x, y) <= LevelOf(x) /\ Top(x, y) <= LevelOf(y) /\ Top(x, y) \in Nat /\ Top(x, y) <= NVars
    BY <2>0, TopIs
  <2>6. /\ bdd_not(x) \in Good /\ LevelOf(bdd_not(x)) = LevelOf(x) /\ Sem(bdd_not(x)) = Env \ Sem(x)
        /\ AllShared[x] => AllShared[bdd_not(x)]
        /\ bdd_not(y) \in Good /\ LevelOf(bdd_not(y)) = LevelOf(y) /\ Sem(bdd_not(y)) = Env \ Sem(y)
        /\ AllShared[y] => AllShared[bdd_not(y)]
    BY GoodNot
  <2> DEFINE Ends == IsFalse(x) \/ IsFalse(y) \/ IsTrue(x) \/ IsTrue(y)
  <2>7. CASE Ends
    <3>1. CASE IsFalse(x)
      <4>1. o = Answer(y) /\ Sem(x) = {}
        BY <2>0, <2>2, <3>1, Constant DEF XorStep
      <4>2. Sem(y) = Sym(Sem(x), Sem(y))
        BY <4>1 DEF Sym
      <4> QED
        BY <2>4, <2>5, <4>1, <4>2
    <3>2. CASE ~IsFalse(x) /\ IsFalse(y)
      <4>1. o = Answer(x) /\ Sem(y) = {}
        BY <2>0, <2>2, <3>2, Constant DEF XorStep
      <4>2. Sem(x) = Sym(Sem(x), Sem(y))
        BY <4>1 DEF Sym
      <4> QED
        BY <2>4, <2>5, <4>1, <4>2
    <3>3. CASE ~IsFalse(x) /\ ~IsFalse(y) /\ IsTrue(x)
      <4>1. o = Answer(bdd_not(y)) /\ Sem(x) = Env
        BY <2>0, <2>2, <3>3, Constant DEF XorStep
      <4>2. Sem(bdd_not(y)) = Sym(Sem(x), Sem(y))
        BY <2>0, <2>6, <4>1 DEF Sym
      <4> QED
        BY <2>4, <2>5, <2>6, <4>1, <4>2
    <3>4. CASE ~IsFalse(x) /\ ~IsFalse(y) /\ ~IsTrue(x) /\ IsTrue(y)
      <4>1. o = Answer(bdd_not(x)) /\ Sem(y) = Env
        BY <2>0, <2>2, <3>4, Constant DEF XorStep
      <4>2. Sem(bdd_not(x)) = Sym(Sem(x), Sem(y))
        BY <2>0, <2>6, <4>1 DEF Sym
      <4> QED
        BY <2>4, <2>5, <2>6, <4>1, <4>2
    <3> QED
      BY <2>7, <3>1, <3>2, <3>3, <3>4
  <2>8. CASE ~Ends /\ x = y
    <3>1. o = Answer(bdd_false)
      BY <2>2, <2>8 DEF XorStep
    <3>2. Sem(bdd_false) = Sym(Sem(x), Sem(y)) /\ LevelOf(bdd_false) = NVars
      BY <2>8, Constant DEF Sym
    <3>3. bdd_false \in Good /\ AllShared[bdd_false]
      BY GoodDiagrams DEF SharedGood
    <3> QED
      BY <2>4, <2>5, <3>1, <3>2, <3>3
  <2>9. CASE ~Ends /\ x # y /\ x = bdd_not(y)
    <3>1. o = Answer(bdd_true)
      BY <2>2, <2>9 DEF XorStep
    <3>2. Sem(bdd_true) = Sym(Sem(x), Sem(y)) /\ LevelOf(bdd_true) = NVars
      BY <2>0, <2>6, <2>9, Constant DEF Sym
    <3>3. bdd_true \in Good /\ AllShared[bdd_true]
      BY GoodDiagrams DEF SharedGood
    <3> QED
      BY <2>4, <2>5, <3>1, <3>2, <3>3
  <2>10. CASE ~Ends /\ x # y /\ x # bdd_not(y)
    <3>1. PICK m : m = First(x, y)
      OBVIOUS
    <3>2. PICK n : n = Second(x, y)
      OBVIOUS
    <3>3. (m = x /\ n = y) \/ (m = y /\ n = x)
      BY <3>1, <3>2, Ordering
    <3>4. PICK a : a = bdd_stripmark(m)
      OBVIOUS
    <3>5. PICK b : b = bdd_transfermark(m, n)
      OBVIOUS
    <3>6. /\ (a = m /\ b = n) \/ (a = bdd_not(m) /\ b = bdd_not(n))
          /\ a \in Good /\ b \in Good /\ LevelOf(a) = LevelOf(m) /\ LevelOf(b) = LevelOf(n)
      <4>1. Ordered(Good) /\ m \in Good /\ n \in Good
        BY <3>3, GoodDiagrams DEF Diagrams
      <4> QED
        BY <3>4, <3>5, <4>1, Moved
    <3>7. ~IsConst(x) /\ ~IsConst(y)
      BY <2>10 DEF IsTrue, IsFalse
    <3>8. PICK l \in Level : l = Top(x, y) /\ l \in Nat
      BY <2>0, <3>7, TopIs
    <3>9. l = Top(a, b) /\ a \in Ref /\ b \in Ref /\ l <= LevelOf(a) /\ l <= LevelOf(b)
      <4>1. Top(m, n) = Top(x, y)
        BY <2>0, <3>3, TopIs
      <4>2. Top(a, b) = l
        BY <3>6, <3>8, <4>1 DEF Top
      <4> QED
        BY <3>6, <4>2, TopIs, InGood
    <3>10. Sym(Sem(a), Sem(b)) = Sym(Sem(x), Sem(y))
      <4>1. Sym(Sem(m), Sem(n)) = Sym(Sem(x), Sem(y))
        BY <3>3 DEF Sym
      <4>2. Sem(bdd_not(m)) = Env \ Sem(m) /\ Sem(bdd_not(n)) = Env \ Sem(n) /\ Sem(m) \subseteq Env /\ Sem(n) \subseteq Env
        BY <2>0, <2>6, <3>3
      <4>3. CASE a = m /\ b = n
        BY <4>1, <4>3
      <4>4. CASE a = bdd_not(m) /\ b = bdd_not(n)
        <5>1. Sem(a) = Env \ Sem(m) /\ Sem(b) = Env \ Sem(n)
          BY <4>2, <4>4
        <5>2. Sym(Sem(a), Sem(b)) = Sym(Sem(m), Sem(n))
          BY <4>2, <5>1 DEF Sym
        <5> QED
          BY <4>1, <5>2
      <4> QED
        BY <3>6, <4>3, <4>4
    <3>11. AllShared[x] /\ AllShared[y] => AllShared[a] /\ AllShared[b]
      BY <2>6, <3>3, <3>6
    <3>12. PICK a0 : a0 = LowAt(a, l)
      OBVIOUS
    <3>13. PICK a1 : a1 = HighAt(a, l)
      OBVIOUS
    <3>14. PICK b0 : b0 = LowAt(b, l)
      OBVIOUS
    <3>15. PICK b1 : b1 = HighAt(b, l)
      OBVIOUS
    <3>16. /\ a0 \in Good /\ l < LevelOf(a0) /\ a1 \in Good /\ l < LevelOf(a1)
           /\ AllShared[a] => AllShared[a0] /\ AllShared[a1]
           /\ \A v \in Env : v \in Sem(a) <=> IF v[l] THEN v \in Sem(a1) ELSE v \in Sem(a0)
      BY <3>6, <3>9, <3>12, <3>13, GoodCofactors
    <3>17. /\ b0 \in Good /\ l < LevelOf(b0) /\ b1 \in Good /\ l < LevelOf(b1)
           /\ AllShared[b] => AllShared[b0] /\ AllShared[b1]
           /\ \A v \in Env : v \in Sem(b) <=> IF v[l] THEN v \in Sem(b1) ELSE v \in Sem(b0)
      BY <3>6, <3>9, <3>14, <3>15, GoodCofactors
    <3>18. XorRight(a0, b0) /\ XorRight(a1, b1)
      <4>1. l < Top(a0, b0) /\ l < Top(a1, b1)
        BY <3>9, <3>12, <3>13, <3>14, <3>15, TopCofactors
      <4> QED
        BY <1>1, <3>8, <3>16, <3>17, <4>1
    <3>19. PICK low : low = XorOf[<<a0, b0, l>>].res
      OBVIOUS
    <3>20. PICK high : high = XorOf[<<a1, b1, l>>].res
      OBVIOUS
    <3>21. /\ low \in Good /\ Sem(low) = Sym(Sem(a0), Sem(b0)) /\ l < LevelOf(low)
           /\ AllShared[a0] /\ AllShared[b0] => AllShared[low]
      BY <3>16, <3>17, <3>18, <3>19, XorTaskRight
    <3>22. /\ high \in Good /\ Sem(high) = Sym(Sem(a1), Sem(b1)) /\ l < LevelOf(high)
           /\ AllShared[a1] /\ AllShared[b1] => AllShared[high]
      BY <3>16, <3>17, <3>18, <3>20, XorTaskRight
    <3>23. PICK r : r = bdd_makenode(l, low, high)
      OBVIOUS
    <3>24. /\ r \in Good /\ l <= LevelOf(r)
           /\ AllShared[low] /\ AllShared[high] => AllShared[r]
           /\ \A v \in Env : v \in Sem(r) <=> IF v[l] THEN v \in Sem(high) ELSE v \in Sem(low)
      BY <3>21, <3>22, <3>23, GoodMakenode
    <3>25. Sem(r) = Sym(Sem(a), Sem(b))
      <4>1. \A v \in Env : v \in Sem(r) <=> v \in Sym(Sem(a), Sem(b))
        BY <3>16, <3>17, <3>21, <3>22, <3>24 DEF Sym
      <4>2. Sem(r) \subseteq Env /\ Sem(a) \subseteq Env /\ Sem(b) \subseteq Env
        BY DEF Sem
      <4>3. Sym(Sem(a), Sem(b)) \subseteq Env
        BY <4>2 DEF Sym
      <4> QED
        BY <4>1, <4>2, <4>3
    <3>26. AllShared[x] /\ AllShared[y] => AllShared[r]
      BY <3>11, <3>16, <3>17, <3>21, <3>22, <3>24
    <3>27. l = Lower(LevelOf(a), LevelOf(b))
      BY <3>9 DEF Top
    <3>28. Meaning("xor", <<a, b>>, in.chain) = Sym(Sem(a), Sem(b))
      BY DEF Meaning, Sym
    <3>29. CASE Hit(prev, l, "xor", <<a, b>>)
      <4>1. PICK c : c = Cached("xor", <<a, b>>)
        OBVIOUS
      <4>2. o = Answer(c)
        BY <2>2, <2>10, <3>1, <3>2, <3>4, <3>5, <3>27, <3>29, <4>1 DEF XorStep
      <4>3. PICK T \in SUBSET Env : T = Sym(Sem(a), Sem(b))
        BY DEF Sem, Sym
      <4>4. Free(T, l)
        <5>1. Free(Sem(a), l) /\ Free(Sem(b), l)
          BY <3>8, <3>9, FreeBoth
        <5> QED
          BY <4>3, <5>1 DEF Free, Sym
      <4>5. c \in Good /\ AllShared[c] /\ Sem(c) = T /\ l <= LevelOf(c)
        <5>1. PICK op : op = "xor"
          OBVIOUS
        <5>2. PICK g : g = <<a, b>>
          OBVIOUS
        <5>3. op # "satcount" /\ T = Meaning(op, g, in.chain) /\ c = Cached(op, g) /\ l <= NVars
          BY <2>5, <3>8, <3>28, <4>1, <4>3, <5>1, <5>2
        <5> QED
          BY <3>8, <4>4, <5>3, CachedRight
      <4> QED
        BY <2>4, <3>8, <3>10, <4>2, <4>3, <4>5
    <3>30. CASE ~Hit(prev, l, "xor", <<a, b>>)
      <4>1. o = Store(r, prev, l, "xor", <<a, b>>, r)
        BY <2>2, <2>10, <3>1, <3>2, <3>4, <3>5, <3>12, <3>13, <3>14, <3>15, <3>19, <3>20, <3>23, <3>27, <3>30 DEF XorStep
      <4>2. o.res = r /\ \A p \in o.puts : p = [op |-> "xor", args |-> <<a, b>>, res |-> r]
        BY <4>1 DEF Store
      <4>3. IsRight("xor", <<a, b>>, r)
        BY <3>24, <3>25, <3>28, InGood DEF IsRight
      <4> QED
        BY <3>8, <3>10, <3>24, <3>25, <3>26, <4>2, <4>3 DEF Right
    <3> QED
      BY <3>29, <3>30
  <2> QED
    BY <2>7, <2>8, <2>9, <2>10
<1>2. ASSUME NEW x \in Good, NEW y \in Good,
             \A p, q \in Good : Top(x, y) < Top(p, q) => <<p, q>> \in S
      PROVE  <<x, y>> \in S
  <2>1. \A p, q \in Good : Top(x, y) < Top(p, q) => XorRight(p, q)
    BY <1>2
  <2>2. XorRight(x, y)
    BY <1>1, <2>1
  <2> QED
    BY <2>2
<1>3. \A x, y \in Good : <<x, y>> \in S
  <2> HIDE DEF S
  <2> QED
    BY <1>2, PairUpwards
<1> QED
  BY <1>3

-----------------------------------------------------------------------------
(* bdd_ite, as bdd_relnext calls it *)

\* The constants are good, and in the shared table.
LEMMA TrueIs ==
  /\ bdd_true \in Good /\ AllShared[bdd_true] /\ bdd_false \in Good /\ AllShared[bdd_false]
  /\ IsTrue(bdd_true) /\ ~IsFalse(bdd_true) /\ bdd_not(bdd_true) = bdd_false
  /\ IsFalse(bdd_false) /\ ~IsTrue(bdd_false) /\ bdd_true # bdd_false
<1>1. /\ bdd_true \in Good /\ AllShared[bdd_true] /\ bdd_false \in Good /\ AllShared[bdd_false]
  BY GoodDiagrams DEF SharedGood
<1>2. bdd_true.mark /\ ~bdd_false.mark /\ IsConst(bdd_true) /\ IsConst(bdd_false)
  BY DEF bdd_true, bdd_false, IsConst
<1>3. bdd_not(bdd_true) = bdd_false
  <2>1. bdd_not(bdd_true).mark = ~bdd_true.mark /\ IsConst(bdd_not(bdd_true)) = IsConst(bdd_true)
    BY <1>1, InGood, RefOrdered, NotProps
  <2>2. IsFalse(bdd_not(bdd_true)) /\ bdd_not(bdd_true) \in Ref
    BY <1>1, <1>2, <2>1, NotBelow DEF IsFalse
  <2> QED
    BY <2>2, Constant
<1> QED
  BY <1>1, <1>2, <1>3 DEF IsTrue, IsFalse

\* bdd_ite(x, bdd_true, y) is the union, and puts nothing in the cache itself.
LEMMA IteOrRight ==
  ASSUME NEW x \in Good, NEW y \in Good, NEW prev \in Nat, NEW o, o = bdd_ite(x, bdd_true, y, prev)
  PROVE  /\ o.res \in Good /\ Sem(o.res) = Sem(x) \cup Sem(y) /\ Top(x, y) <= LevelOf(o.res)
         /\ AllShared[x] /\ AllShared[y] => AllShared[o.res]
         /\ o.puts = {}
<1>0. /\ x \in Ref /\ y \in Ref /\ Sem(x) \subseteq Env /\ Sem(y) \subseteq Env
      /\ Top(x, y) <= LevelOf(x) /\ Top(x, y) <= LevelOf(y) /\ Top(x, y) <= NVars
  BY InGood, TopIs DEF Sem
<1>1. o = IteStep(IteOf, x, bdd_true, y, prev)
  BY DEF bdd_ite
<1>2. ASSUME NEW r \in Good, o = Answer(r), Sem(r) = Sem(x) \cup Sem(y), Top(x, y) <= LevelOf(r),
             AllShared[x] /\ AllShared[y] => AllShared[r]
      PROVE  /\ o.res \in Good /\ Sem(o.res) = Sem(x) \cup Sem(y) /\ Top(x, y) <= LevelOf(o.res)
             /\ AllShared[x] /\ AllShared[y] => AllShared[o.res]
             /\ o.puts = {}
  <2>1. o.res = r /\ o.puts = {}
    BY <1>2 DEF Answer
  <2> QED
    BY <1>2, <2>1
<1>3. CASE IsTrue(x)
  <2>1. o = Answer(bdd_true)
    BY <1>1, <1>3 DEF IteStep
  <2>2. Sem(x) = Env /\ Sem(bdd_true) = Env /\ LevelOf(bdd_true) = NVars
    BY <1>0, <1>3, Constant
  <2> QED
    BY <1>0, <1>2, <2>1, <2>2, TrueIs
<1>4. CASE ~IsTrue(x) /\ IsFalse(x)
  <2>1. o = Answer(y)
    BY <1>1, <1>4 DEF IteStep
  <2>2. Sem(x) = {}
    BY <1>0, <1>4, Constant
  <2> QED
    BY <1>0, <1>2, <2>1, <2>2
<1>5. CASE ~IsTrue(x) /\ ~IsFalse(x)
  <2>1. x # bdd_true /\ x # bdd_not(bdd_true)
    BY <1>5, TrueIs
  <2>2. bdd_not(x) \in Good /\ Sem(bdd_not(x)) = Env \ Sem(x) /\ bdd_not(y) \in Good /\ Sem(bdd_not(y)) = Env \ Sem(y)
        /\ bdd_not(bdd_not(y)) = y /\ LevelOf(bdd_not(y)) = LevelOf(y)
    BY GoodNot
  <2>3. PICK c : c = IF x = y THEN bdd_false ELSE IF x = bdd_not(y) THEN bdd_true ELSE y
    OBVIOUS
  <2>4. o = IF bdd_true = c THEN Answer(bdd_true)
            ELSE IF IsFalse(c) THEN Answer(x)
            ELSE Answer(bdd_not(bdd_and(bdd_not(x), bdd_not(c), prev).res))
    BY <1>1, <1>5, <2>1, <2>3, TrueIs DEF IteStep
  <2>5. CASE c = bdd_true
    <3>1. Sem(x) \cup Sem(y) = Env
      <4>1. CASE x = y
        BY <2>3, <2>5, <4>1, TrueIs
      <4>2. CASE x # y /\ x = bdd_not(y)
        BY <1>0, <2>2, <4>2
      <4>3. CASE x # y /\ x # bdd_not(y)
        BY <1>0, <2>3, <2>5, <4>3, Constant
      <4> QED
        BY <4>1, <4>2, <4>3
    <3>2. o = Answer(bdd_true)
      BY <2>4, <2>5
    <3>3. Sem(bdd_true) = Env /\ LevelOf(bdd_true) = NVars
      BY Constant
    <3> QED
      BY <1>0, <1>2, <3>1, <3>2, <3>3, TrueIs
  <2>6. CASE IsFalse(c)
    <3>1. Sem(x) \cup Sem(y) = Sem(x)
      <4>1. CASE x = y
        BY <4>1
      <4>2. CASE x # y /\ x = bdd_not(y)
        BY <2>3, <2>6, <4>2, TrueIs
      <4>3. CASE x # y /\ x # bdd_not(y)
        BY <1>0, <2>3, <2>6, <4>3, Constant
      <4> QED
        BY <4>1, <4>2, <4>3
    <3>2. o = Answer(x)
      BY <2>4, <2>6, TrueIs
    <3> QED
      BY <1>0, <1>2, <3>1, <3>2
  <2>7. CASE c # bdd_true /\ ~IsFalse(c)
    <3>1. c = y
      BY <2>3, <2>7, TrueIs
    <3>0. PICK t : t = bdd_and(bdd_not(x), bdd_not(y), prev).res
      OBVIOUS
    <3>2. PICK r : r = bdd_not(t)
      OBVIOUS
    <3>3. o = Answer(r)
      BY <2>4, <2>7, <3>0, <3>1, <3>2
    <3>4. /\ r \in Good /\ Sem(r) = Sem(x) \cup Sem(y) /\ Top(x, y) <= LevelOf(r)
          /\ AllShared[x] /\ AllShared[y] => AllShared[r]
      BY <3>0, <3>2, UnionByAnd
    <3> QED
      BY <1>2, <3>3, <3>4
  <2> QED
    BY <2>5, <2>6, <2>7
<1> QED
  BY <1>3, <1>4, <1>5

-----------------------------------------------------------------------------
(* Chains of variables *)

\* Even and odd numbers.
LEMMA Parity ==
  \A n \in Nat : n % 2 \in {0, 1} /\ (n % 2 = 0 <=> (n + 1) % 2 = 1)
OBVIOUS

\* Min of a set of naturals that is not empty is its least element.
LEMMA MinIs ==
  ASSUME NEW S \in SUBSET Nat, S # {}
  PROVE  Min(S) \in S /\ \A y \in S : Min(S) <= y
<1>1. \E x \in S : \A y \in S : x <= y
  <2> SUFFICES ASSUME \A x \in S : \E y \in S : ~(x <= y) PROVE FALSE
    OBVIOUS
  <2> DEFINE T == {n \in Nat : \A y \in S : n <= y}
  <2>1. 0 \in T
    OBVIOUS
  <2>2. ASSUME NEW n \in Nat, n \in T PROVE n + 1 \in T
    <3>1. n \notin S
      BY <2>2
    <3>2. \A y \in S : n <= y /\ n # y
      BY <2>2, <3>1
    <3> QED
      BY <3>2
  <2>3. \A n \in Nat : n \in T
    <3> HIDE DEF T
    <3> QED
      BY <2>1, <2>2, NatSet
  <2>4. PICK y \in S : y \in Nat
    OBVIOUS
  <2>5. y + 1 \in T
    BY <2>3, <2>4
  <2> QED
    BY <2>4, <2>5
<1> QED
  BY <1>1 DEF Min

\* The variables of a relation: pairs of an even level, the state before, and
\* the next one, the state after, in the order of the levels.
ValidChain(ch) ==
  /\ ch \in Seq(Level) /\ Len(ch) > 0
  /\ \A k, m \in 1 .. Len(ch) : k < m => ch[k] < ch[m]
  /\ \A k \in 1 .. Len(ch) :
       k % 2 = 1 => ch[k] % 2 = 0 /\ k + 1 <= Len(ch) /\ ch[k + 1] = ch[k] + 1

\* The levels of a chain grow.
LEMMA ChainGrows ==
  ASSUME ValidChain(in.chain), NEW k \in 1 .. Len(in.chain), NEW m \in 1 .. Len(in.chain), k < m
  PROVE  in.chain[k] < in.chain[m]
BY DEF ValidChain

\* The level at a position of a chain.
LEMMA ChainAt ==
  ASSUME ValidChain(in.chain), NEW k \in 1 .. Len(in.chain)
  PROVE  /\ in.chain[k] \in Level /\ in.chain[k] \in Nat
         /\ k % 2 = 1 => in.chain[k] % 2 = 0 /\ k + 1 \in 1 .. Len(in.chain) /\ in.chain[k + 1] = in.chain[k] + 1
         /\ k % 2 = 0 => in.chain[k] % 2 = 1 /\ k - 1 \in 1 .. Len(in.chain) /\ in.chain[k] = in.chain[k - 1] + 1
<1>1. PICK ch \in Seq(Level) : ch = in.chain
  BY DEF ValidChain
<1>2. ch[k] \in Level /\ ch[k] \in Nat /\ Len(ch) \in Nat
  BY <1>1, NVarsAssumption DEF Level
<1>3. k % 2 = 1 => ch[k] % 2 = 0 /\ k + 1 \in 1 .. Len(ch) /\ ch[k + 1] = ch[k] + 1
  BY <1>1, <1>2 DEF ValidChain
<1>4. ASSUME k % 2 = 0 PROVE ch[k] % 2 = 1 /\ k - 1 \in 1 .. Len(ch) /\ ch[k] = ch[k - 1] + 1
  <2>1. k - 1 \in 1 .. Len(ch) /\ (k - 1) % 2 = 1
    BY <1>1, <1>2, <1>4
  <2>2. PICK n \in 1 .. Len(ch) : n = k - 1 /\ n % 2 = 1
    BY <2>1
  <2>3. ch[n] % 2 = 0 /\ ch[n + 1] = ch[n] + 1
    BY <1>1, <2>2 DEF ValidChain
  <2>4. n + 1 = k
    BY <2>2
  <2>5. ch[n] \in Nat
    BY <1>1, <2>2, NVarsAssumption DEF Level
  <2> QED
    BY <2>1, <2>2, <2>3, <2>4, <2>5, Parity
<1> QED
  BY <1>1, <1>2, <1>3, <1>4

\* Skipped stops at the pair of the level, before a deeper one, or at the end.
LEMMA SkippedIs ==
  ASSUME ValidChain(in.chain), NEW l \in Level, NEW i \in 0 .. Len(in.chain), i < Len(in.chain),
         NEW j, j = Skipped(l, i)
  PROVE  /\ j \in Nat /\ i <= j /\ j <= Len(in.chain)
         /\ j < Len(in.chain) => InPair(l, j) \/ l < in.chain[j + 1]
         /\ \A k \in i .. j - 1 : ~InPair(l, k) /\ ~(l < in.chain[k + 1])
<1>0. Len(in.chain) \in Nat
  BY DEF ValidChain
<1> DEFINE S == {k \in i .. Len(in.chain) :
                   (k > i /\ k = Len(in.chain)) \/ InPair(l, k) \/ l < in.chain[k + 1]}
<1>1. j = Min(S)
  BY DEF Skipped
<1>2. S \in SUBSET Nat /\ Len(in.chain) \in S
  BY <1>0
<1>3. j \in S /\ \A k \in S : j <= k
  <2> HIDE DEF S
  <2> QED
    BY <1>1, <1>2, MinIs
<1> QED
  BY <1>0, <1>3

-----------------------------------------------------------------------------
(* The successors of a set of states, by the set S of the variables that the
   relation changes *)

Even == {l \in Level : l % 2 = 0}
Mix(u, v, S) == [l \in Level |-> IF l \in S THEN u[l] ELSE IF l - 1 \in S THEN v[l - 1] ELSE v[l]]
Same(u, v, S) == \A l \in Level \ S : u[l] = v[l]
Succ(A, B, S) == {v \in Env : \E u \in A : Same(u, v, S) /\ Mix(u, v, S) \in B}

\* The assignment that a relation sees is an assignment.
LEMMA MixIs ==
  ASSUME NEW u \in Env, NEW v \in Env, NEW S \in SUBSET Even
  PROVE  /\ Mix(u, v, S) \in Env
         /\ \A l \in Level : Mix(u, v, S)[l] = IF l \in S THEN u[l] ELSE IF l - 1 \in S THEN v[l - 1] ELSE v[l]
<1>1. \A l \in Level : (IF l \in S THEN u[l] ELSE IF l - 1 \in S THEN v[l - 1] ELSE v[l]) \in BOOLEAN
  BY DEF Env, Even
<1> QED
  BY <1>1 DEF Mix, Env

\* Image, by the set of the variables that the chain changes.
LEMMA ImageIs ==
  ASSUME NEW A \in SUBSET Env, NEW B \in SUBSET Env, NEW ch, NEW i,
         NEW S \in SUBSET Even, S = Before(ch, i)
  PROVE  Image(A, B, ch, i) = Succ(A, B, S)
<1> DEFINE T == {s + 1 : s \in S}
           Step(u, v) == [l \in Level |-> IF l \in S THEN u[l] ELSE IF l \in T THEN v[l - 1] ELSE v[l]]
<1>1. Image(A, B, ch, i) = {v \in Env : \E u \in A : (\A l \in Level \ S : u[l] = v[l]) /\ Step(u, v) \in B}
  BY DEF Image
<1>2. ASSUME NEW u \in Env, NEW v \in Env PROVE Step(u, v) = Mix(u, v, S)
  <2>1. ASSUME NEW l \in Level PROVE l \in T <=> l - 1 \in S
    <3>1. l \in Int /\ \A s \in S : s \in Int
      BY NVarsAssumption DEF Level, Even
    <3>2. ASSUME l \in T PROVE l - 1 \in S
      BY <3>1, <3>2
    <3>3. ASSUME l - 1 \in S PROVE l \in T
      <4>1. (l - 1) + 1 = l
        BY <3>1
      <4> QED
        BY <3>3, <4>1
    <3> QED
      BY <3>2, <3>3
  <2> HIDE DEF T
  <2> QED
    BY <2>1 DEF Mix
<1> HIDE DEF Step
<1> QED
  BY <1>1, <1>2 DEF Succ, Same

\* It depends on the variables from an even level on only, if both sets do.
LEMMA SuccFree ==
  ASSUME NEW A \in SUBSET Env, NEW B \in SUBSET Env, NEW S \in SUBSET Even,
         NEW e \in Nat, e % 2 = 0, Free(A, e), Free(B, e)
  PROVE  Free(Succ(A, B, S), e)
<1>1. ASSUME NEW v \in Env, NEW w \in Env, Agree(v, w, e), v \in Succ(A, B, S)
      PROVE  w \in Succ(A, B, S)
  <2>1. PICK u \in A : Same(u, v, S) /\ Mix(u, v, S) \in B
    BY <1>1 DEF Succ
  <2>2. PICK x : x = [l \in Level |-> IF l \in S THEN u[l] ELSE w[l]]
    OBVIOUS
  <2>3. x \in Env /\ u \in Env
    BY <2>2 DEF Env
  <2>4. \A l \in Level : x[l] = IF l \in S THEN u[l] ELSE w[l]
    BY <2>2
  <2>5. Agree(u, x, e)
    BY <1>1, <2>1, <2>4 DEF Agree, Same
  <2>6. x \in A
    BY <2>3, <2>5 DEF Free
  <2>7. Same(x, w, S)
    BY <2>4 DEF Same
  <2>8. PICK m \in Env : m = Mix(u, v, S) /\ \A l \in Level : m[l] = IF l \in S THEN u[l] ELSE IF l - 1 \in S THEN v[l - 1] ELSE v[l]
    BY <2>3, MixIs
  <2>9. PICK n \in Env : n = Mix(x, w, S) /\ \A l \in Level : n[l] = IF l \in S THEN x[l] ELSE IF l - 1 \in S THEN w[l - 1] ELSE w[l]
    BY <2>3, MixIs
  <2>10. Agree(m, n, e)
    <3>1. ASSUME NEW l \in Level, e <= l, l - 1 \in S PROVE e <= l - 1 /\ l - 1 \in Level
      <4>1. l \in Nat /\ (l - 1) % 2 = 0 /\ l - 1 \in Level
        BY <3>1, NVarsAssumption DEF Level, Even
      <4>2. l # e
        BY <4>1, Parity
      <4> QED
        BY <3>1, <4>1, <4>2
    <3>2. ASSUME NEW l \in Level, e <= l PROVE m[l] = n[l]
      <4>1. CASE l \in S
        BY <2>4, <2>8, <2>9, <4>1
      <4>2. CASE l \notin S /\ l - 1 \in S
        BY <1>1, <2>8, <2>9, <3>1, <3>2, <4>2 DEF Agree
      <4>3. CASE l \notin S /\ l - 1 \notin S
        BY <1>1, <2>8, <2>9, <3>2, <4>3 DEF Agree
      <4> QED
        BY <4>1, <4>2, <4>3
    <3> QED
      BY <3>2 DEF Agree
  <2>11. n \in B
    BY <2>1, <2>8, <2>10 DEF Free
  <2> QED
    BY <2>6, <2>7, <2>9, <2>11 DEF Succ
<1>2. ASSUME NEW v \in Env, NEW w \in Env, Agree(v, w, e) PROVE Agree(w, v, e)
  BY <1>2 DEF Agree
<1> QED
  BY <1>1, <1>2 DEF Free

\* Variables above both sets do not matter, nor their partners.
LEMMA SuccSkip ==
  ASSUME NEW A \in SUBSET Env, NEW B \in SUBSET Env, NEW S \in SUBSET Even, NEW R \in SUBSET S,
         NEW l \in Nat, \A d \in S \ R : d + 1 < l, Free(A, l), Free(B, l)
  PROVE  Succ(A, B, S) = Succ(A, B, R)
<1>0. R \in SUBSET Even
  OBVIOUS
<1>1. ASSUME NEW P \in SUBSET Even, NEW Q \in SUBSET Even,
             \A d \in P : d \notin Q => d + 1 < l, \A d \in Q : d \notin P => d + 1 < l,
             NEW v \in Succ(A, B, P)
      PROVE  v \in Succ(A, B, Q)
  <2>1. PICK u \in A : Same(u, v, P) /\ Mix(u, v, P) \in B /\ v \in Env
    BY DEF Succ
  <2>2. PICK x : x = [k \in Level |-> IF k \in Q THEN IF k \in P THEN u[k] ELSE v[k] ELSE v[k]]
    OBVIOUS
  <2>3. x \in Env /\ u \in Env
    BY <2>1, <2>2 DEF Env
  <2>4. \A k \in Level : x[k] = IF k \in Q THEN IF k \in P THEN u[k] ELSE v[k] ELSE v[k]
    BY <2>2
  <2>0. ASSUME NEW k \in Level, l <= k
        PROVE  /\ k \in Nat /\ (k \in P <=> k \in Q) /\ (k - 1 \in P <=> k - 1 \in Q)
               /\ k - 1 \in P => k - 1 \in Level
    <3>1. k \in Nat
      BY NVarsAssumption DEF Level
    <3>2. ~(k + 1 < l) /\ ~((k - 1) + 1 < l)
      BY <2>0, <3>1
    <3>3. k - 1 \in P => k - 1 \in Level
      BY DEF Even
    <3> QED
      BY <1>1, <3>1, <3>2, <3>3
  <2>5. Agree(u, x, l)
    <3>1. ASSUME NEW k \in Level, l <= k PROVE u[k] = x[k]
      BY <2>0, <2>1, <2>4, <3>1 DEF Same
    <3> QED
      BY <3>1 DEF Agree
  <2>6. x \in A
    BY <2>3, <2>5 DEF Free
  <2>7. Same(x, v, Q)
    BY <2>4 DEF Same
  <2>8. PICK m \in Env : m = Mix(u, v, P) /\ \A k \in Level : m[k] = IF k \in P THEN u[k] ELSE IF k - 1 \in P THEN v[k - 1] ELSE v[k]
    BY <2>1, <2>3, MixIs
  <2>9. PICK n \in Env : n = Mix(x, v, Q) /\ \A k \in Level : n[k] = IF k \in Q THEN x[k] ELSE IF k - 1 \in Q THEN v[k - 1] ELSE v[k]
    BY <2>1, <2>3, MixIs
  <2>10. Agree(m, n, l)
    <3>1. ASSUME NEW k \in Level, l <= k PROVE m[k] = n[k]
      <4>1. CASE k \in P
        BY <2>0, <2>4, <2>8, <2>9, <3>1, <4>1
      <4>2. CASE k \notin P
        BY <2>0, <2>8, <2>9, <3>1, <4>2
      <4> QED
        BY <4>1, <4>2
    <3> QED
      BY <3>1 DEF Agree
  <2>11. n \in B
    BY <2>1, <2>8, <2>10 DEF Free
  <2> QED
    BY <2>1, <2>6, <2>7, <2>9, <2>11 DEF Succ
<1>2. \A v \in Succ(A, B, S) : v \in Succ(A, B, R)
  BY <1>0, <1>1
<1>3. \A v \in Succ(A, B, R) : v \in Succ(A, B, S)
  BY <1>0, <1>1
<1> QED
  BY <1>2, <1>3

\* The relation that allows everything and changes nothing.
LEMMA SuccEnds ==
  ASSUME NEW A \in SUBSET Env, NEW B \in SUBSET Env, NEW S \in SUBSET Even
  PROVE  /\ A = {} \/ B = {} => Succ(A, B, S) = {}
         /\ A = Env /\ B = Env => Succ(A, B, S) = Env
         /\ B = Env /\ S = {} => Succ(A, B, S) = A
<1>1. A = {} \/ B = {} => Succ(A, B, S) = {}
  BY DEF Succ
<1>2. ASSUME A = Env, B = Env PROVE Succ(A, B, S) = Env
  <2>1. ASSUME NEW v \in Env PROVE v \in Succ(A, B, S)
    <3>1. Same(v, v, S) /\ Mix(v, v, S) \in Env
      BY MixIs DEF Same
    <3> QED
      BY <1>2, <3>1 DEF Succ
  <2> QED
    BY <2>1 DEF Succ
<1>3. ASSUME B = Env, S = {} PROVE Succ(A, B, S) = A
  <2>1. ASSUME NEW v \in Env, NEW u \in Env, Same(u, v, S) PROVE u = v
    BY <1>3, <2>1 DEF Same, Env
  <2>2. ASSUME NEW v \in A PROVE v \in Succ(A, B, S)
    <3>1. Same(v, v, S) /\ Mix(v, v, S) \in Env
      BY MixIs DEF Same
    <3> QED
      BY <1>3, <3>1 DEF Succ
  <2> QED
    BY <2>1, <2>2 DEF Succ
<1> QED
  BY <1>1, <1>2, <1>3

\* P is the set A where s is x; Q is B where s is x and t is y.
Where(A, P, s, x) == \A u \in Env : u[s] = x => (u \in A <=> u \in P)
WhereBoth(B, Q, s, t, x, y) == \A w \in Env : w[s] = x /\ w[t] = y => (w \in B <=> w \in Q)

\* The states that lead to v and have the value x for the variable s, when the
\* relation changes s: the value of s in v is that of the variable after.
LEMMA SuccHalf ==
  ASSUME NEW A \in SUBSET Env, NEW B \in SUBSET Env, NEW P \in SUBSET Env, NEW Q \in SUBSET Env,
         NEW S \in SUBSET Even, NEW s \in S, NEW t \in Level, t = s + 1, NEW R, R = S \ {s},
         NEW e \in Nat, e = s + 2, Free(P, e), Free(Q, e), NEW x, NEW v \in Env,
         x \in BOOLEAN, Where(A, P, s, x), WhereBoth(B, Q, s, t, x, v[s])
  PROVE  v \in Succ(P, Q, R) <=> \E u \in A : u[s] = x /\ Same(u, v, S) /\ Mix(u, v, S) \in B
<1>0. /\ s \in Nat /\ s \in Level /\ R \in SUBSET Even /\ t \notin S /\ t - 1 = s
      /\ t # s
  <2>1. s \in Nat /\ s % 2 = 0 /\ s \in Level
    BY NVarsAssumption DEF Even, Level
  <2>2. (s + 1) % 2 = 1
    BY <2>1, Parity
  <2> QED
    BY <2>1, <2>2 DEF Even
<1>1. ASSUME NEW k \in Level, e <= k
      PROVE  k \notin {s, t} /\ (k \in S <=> k \in R) /\ (k - 1 \in S <=> k - 1 \in R)
  <2>1. k \in Nat
    BY NVarsAssumption DEF Level
  <2> QED
    BY <1>0, <1>1, <2>1
\* Two states that differ in s only look the same to the cofactors.
<1>2. ASSUME NEW u \in Env, NEW w \in Env, \A k \in Level : k # s => u[k] = w[k]
      PROVE  /\ u \in P <=> w \in P
             /\ Mix(u, v, S) \in Q <=> Mix(w, v, R) \in Q
  <2>1. Agree(u, w, e)
    BY <1>1, <1>2 DEF Agree
  <2>2. PICK m \in Env : m = Mix(u, v, S) /\ \A k \in Level : m[k] = IF k \in S THEN u[k] ELSE IF k - 1 \in S THEN v[k - 1] ELSE v[k]
    BY MixIs
  <2>3. PICK n \in Env : n = Mix(w, v, R) /\ \A k \in Level : n[k] = IF k \in R THEN w[k] ELSE IF k - 1 \in R THEN v[k - 1] ELSE v[k]
    BY <1>0, MixIs
  <2>4. Agree(m, n, e)
    <3>1. ASSUME NEW k \in Level, e <= k PROVE m[k] = n[k]
      BY <1>1, <1>2, <2>2, <2>3, <3>1
    <3> QED
      BY <3>1 DEF Agree
  <2> QED
    BY <2>1, <2>2, <2>3, <2>4 DEF Free
<1>3. ASSUME NEW u \in Env, u[s] = x PROVE Mix(u, v, S) \in B <=> Mix(u, v, S) \in Q
  <2>1. PICK m \in Env : m = Mix(u, v, S) /\ \A k \in Level : m[k] = IF k \in S THEN u[k] ELSE IF k - 1 \in S THEN v[k - 1] ELSE v[k]
    BY MixIs
  <2>2. m[s] = x /\ m[t] = v[s]
    BY <1>0, <1>3, <2>1
  <2> QED
    BY <2>1, <2>2 DEF WhereBoth
<1>4. ASSUME NEW u \in A, u[s] = x, Same(u, v, S), Mix(u, v, S) \in B
      PROVE  v \in Succ(P, Q, R)
  <2>1. PICK w : w = [k \in Level |-> IF k = s THEN v[s] ELSE u[k]]
    OBVIOUS
  <2>2. w \in Env /\ u \in Env
    BY <1>0, <2>1 DEF Env
  <2>3. \A k \in Level : w[k] = IF k = s THEN v[s] ELSE u[k]
    BY <2>1
  <2>4. u \in P /\ Mix(u, v, S) \in Q
    BY <1>3, <1>4, <2>2 DEF Where
  <2>5. w \in P /\ Mix(w, v, R) \in Q
    BY <1>2, <2>2, <2>3, <2>4
  <2>6. Same(w, v, R)
    BY <1>4, <2>3 DEF Same
  <2> QED
    BY <2>5, <2>6 DEF Succ
<1>5. ASSUME v \in Succ(P, Q, R)
      PROVE  \E u \in A : u[s] = x /\ Same(u, v, S) /\ Mix(u, v, S) \in B
  <2>1. PICK w \in P : Same(w, v, R) /\ Mix(w, v, R) \in Q
    BY <1>5 DEF Succ
  <2>2. PICK u : u = [k \in Level |-> IF k = s THEN x ELSE w[k]]
    OBVIOUS
  <2>3. u \in Env /\ w \in Env
    BY <2>2 DEF Env
  <2>4. (\A k \in Level : k # s => u[k] = w[k]) /\ u[s] = x
    BY <1>0, <2>2
  <2>5. u \in P /\ Mix(u, v, S) \in Q
    BY <1>2, <2>1, <2>3, <2>4
  <2>6. u \in A /\ Mix(u, v, S) \in B
    BY <1>3, <2>3, <2>4, <2>5 DEF Where
  <2>7. Same(u, v, S)
    BY <1>0, <2>1, <2>4 DEF Same
  <2> QED
    BY <2>4, <2>6, <2>7
<1> QED
  BY <1>4, <1>5

\* The parts of A for the two values of s.
Split(A, A0, A1, s) == \A u \in Env : u \in A <=> IF u[s] THEN u \in A1 ELSE u \in A0

Without(R, S, s) == s \in S /\ R = S \ {s}

\* The assignments of T by the value of s.
Pairs(T, C, D, E, F, s) == \A v \in Env : v \in T <=> IF v[s] THEN v \in E \cup F ELSE v \in C \cup D

\* A variable s that the relation changes, and its partner t.
LEMMA SuccPair ==
  ASSUME NEW A \in SUBSET Env, NEW A0 \in SUBSET Env, NEW A1 \in SUBSET Env,
         NEW B \in SUBSET Env, NEW B0, NEW B1, NEW B00 \in SUBSET Env, NEW B01 \in SUBSET Env,
         NEW B10 \in SUBSET Env, NEW B11 \in SUBSET Env,
         NEW S \in SUBSET Even, NEW s, NEW R, Without(R, S, s), NEW t \in Level, t = s + 1,
         NEW e \in Nat, e = s + 2, Free(A0, e), Free(A1, e),
         Free(B00, e), Free(B01, e), Free(B10, e), Free(B11, e),
         Split(A, A0, A1, s), Split(B, B0, B1, s), Split(B0, B00, B01, t), Split(B1, B10, B11, t)
  PROVE  Pairs(Succ(A, B, S), Succ(A0, B00, R), Succ(A1, B10, R), Succ(A0, B01, R), Succ(A1, B11, R), s)
<1> s \in S /\ R = S \ {s}
  BY DEF Without
<1> SUFFICES ASSUME NEW v \in Env
             PROVE  v \in Succ(A, B, S) <=>
                      IF v[s] THEN v \in Succ(A0, B01, R) \cup Succ(A1, B11, R)
                              ELSE v \in Succ(A0, B00, R) \cup Succ(A1, B10, R)
  BY DEF Pairs
<1>0. s \in Level /\ \A u \in Env : u[s] \in BOOLEAN /\ u[t] \in BOOLEAN
  BY DEF Even, Env
<1> DEFINE Leads(u) == Same(u, v, S) /\ Mix(u, v, S) \in B
<1>1. v \in Succ(A, B, S) <=> (\E u \in A : u[s] = FALSE /\ Leads(u)) \/ (\E u \in A : u[s] = TRUE /\ Leads(u))
  BY <1>0 DEF Succ
<1>2. ASSUME NEW P \in SUBSET Env, NEW Q \in SUBSET Env, Free(P, e), Free(Q, e), NEW x \in BOOLEAN,
             Where(A, P, s, x), WhereBoth(B, Q, s, t, x, v[s])
      PROVE  v \in Succ(P, Q, R) <=> \E u \in A : u[s] = x /\ Leads(u)
  BY <1>2, SuccHalf
<1>3. /\ Where(A, A0, s, FALSE) /\ Where(A, A1, s, TRUE)
      /\ v[s] => WhereBoth(B, B01, s, t, FALSE, v[s]) /\ WhereBoth(B, B11, s, t, TRUE, v[s])
      /\ ~v[s] => WhereBoth(B, B00, s, t, FALSE, v[s]) /\ WhereBoth(B, B10, s, t, TRUE, v[s])
  BY <1>0 DEF Where, WhereBoth, Split
<1> HIDE DEF Leads
<1>4. CASE v[s]
  <2>1. v \in Succ(A0, B01, R) <=> \E u \in A : u[s] = FALSE /\ Leads(u)
    BY <1>2, <1>3, <1>4
  <2>2. v \in Succ(A1, B11, R) <=> \E u \in A : u[s] = TRUE /\ Leads(u)
    BY <1>2, <1>3, <1>4
  <2> QED
    BY <1>1, <1>4, <2>1, <2>2
<1>5. CASE ~v[s]
  <2>1. v \in Succ(A0, B00, R) <=> \E u \in A : u[s] = FALSE /\ Leads(u)
    BY <1>2, <1>3, <1>5
  <2>2. v \in Succ(A1, B10, R) <=> \E u \in A : u[s] = TRUE /\ Leads(u)
    BY <1>2, <1>3, <1>5
  <2> QED
    BY <1>1, <1>5, <2>1, <2>2
<1> QED
  BY <1>0, <1>4, <1>5

\* Any other variable keeps its value.
LEMMA SuccOther ==
  ASSUME NEW A \in SUBSET Env, NEW A0 \in SUBSET Env, NEW A1 \in SUBSET Env, NEW B \in SUBSET Env,
         NEW S \in SUBSET Even, NEW l \in Level, l \notin S,
         Split(A, A0, A1, l)
  PROVE  \A v \in Env : v \in Succ(A, B, S) <=> IF v[l] THEN v \in Succ(A1, B, S) ELSE v \in Succ(A0, B, S)
BY DEF Succ, Same, Split

-----------------------------------------------------------------------------
(* Diagrams of which all nodes are at given levels *)

OnLevels(X, L) ==
  \A x \in X : IsConst(x) \/ (LevelOf(x) \in L /\ x.node.low \in X /\ x.node.high \in X)
DiagramsOver(L) == {a \in Good : \E X \in SUBSET Good : a \in X /\ OnLevels(X, L)}

\* Cofactors and complements stay over the levels.
LEMMA OverCofactors ==
  ASSUME NEW L, NEW a \in DiagramsOver(L), NEW l \in Level, l <= LevelOf(a)
  PROVE  /\ a \in Good /\ (IsConst(a) \/ LevelOf(a) \in L)
         /\ LowAt(a, l) \in DiagramsOver(L) /\ HighAt(a, l) \in DiagramsOver(L)
<1>1. PICK X \in SUBSET Good : a \in X /\ OnLevels(X, L)
  BY DEF DiagramsOver
<1>2. a \in Good /\ (IsConst(a) \/ LevelOf(a) \in L)
  BY <1>1 DEF DiagramsOver, OnLevels
<1>3. ASSUME NEW b \in X PROVE b \in DiagramsOver(L) /\ bdd_not(b) \in DiagramsOver(L)
  <2>1. PICK c \in Good : c = bdd_not(b) /\ c.node = b.node /\ (IsConst(c) <=> IsConst(b)) /\ LevelOf(c) = LevelOf(b)
    <3>1. b \in Ref /\ bdd_not(b) \in Good
      BY GoodNot, InGood
    <3>2. bdd_not(b).node = b.node
      BY <3>1, RefOrdered, NotProps
    <3> QED
      BY <3>1, <3>2 DEF IsConst, LevelOf
  <2>2. PICK Y \in SUBSET Good : Y = X \cup {c}
    BY <2>1
  <2>3. OnLevels(Y, L)
    <3>1. \A x \in Y : x \in X \/ x = c
      BY <2>2
    <3>2. IsConst(b) \/ (LevelOf(b) \in L /\ b.node.low \in X /\ b.node.high \in X)
      BY <1>1 DEF OnLevels
    <3> QED
      BY <1>1, <2>1, <2>2, <3>1, <3>2 DEF OnLevels
  <2> QED
    BY <1>1, <2>1, <2>2, <2>3 DEF DiagramsOver
<1>4. CASE LevelOf(a) # l
  BY <1>2, <1>4 DEF LowAt, HighAt
<1>5. CASE LevelOf(a) = l
  <2>1. a \in Ref /\ ~IsConst(a)
    BY <1>2, <1>5, InGood, RefLevel, NVarsAssumption DEF Level
  <2>2. a.node.low \in X /\ a.node.high \in X
    BY <1>1, <2>1 DEF OnLevels
  <2>3. /\ node_low(a) = a.node.low \/ node_low(a) = bdd_not(a.node.low)
        /\ node_high(a) = a.node.high \/ node_high(a) = bdd_not(a.node.high)
    <3>1. IsReference(a) /\ IsReference(a.node.low) /\ IsReference(a.node.high)
      BY <1>1, <2>1, <2>2, InGood, RefOrdered, Below
    <3> QED
      BY <3>1, Marks DEF node_low, node_high
  <2> QED
    BY <1>2, <1>3, <1>5, <2>2, <2>3 DEF LowAt, HighAt
<1> QED
  BY <1>2, <1>4, <1>5

-----------------------------------------------------------------------------
(* The pair of levels of a call *)

\* What the operation says of the pair of level l, when the chain has it at j.
LEMMA PairAt ==
  ASSUME ValidChain(in.chain), NEW l \in Level, NEW j \in Nat, j < Len(in.chain), InPair(l, j),
         NEW s, s = l - (l % 2)
  PROVE  /\ s \in Level /\ s + 1 \in Level /\ s \in Nat /\ s % 2 = 0
         /\ s <= l /\ l <= s + 1
         /\ j % 2 = 0 => in.chain[j + 1] = s /\ j + 1 < Len(in.chain) /\ in.chain[j + 2] = s + 1
         /\ j % 2 = 1 => in.chain[j + 1] = s + 1
<1>1. PICK k \in 1 .. Len(in.chain) : k = j + 1 /\ k - 1 = j /\ k + 1 = j + 2
  <2>1. Len(in.chain) \in Nat
    BY DEF ValidChain
  <2> QED
    BY <2>1
<1>2. /\ l \in Nat /\ l % 2 \in {0, 1} /\ NVars \in Nat
      /\ l % 2 = 0 => (l + 1) % 2 = 1
      /\ l % 2 = 1 => l # 0 /\ (l - 1) % 2 = 0
  BY NVarsAssumption, Parity DEF Level
<1>3. PICK c \in Level : c = in.chain[k] /\ c \in Nat /\ c \in {l, Partner(l)}
  BY <1>1, ChainAt DEF InPair
<1>4. /\ k % 2 = 1 => c % 2 = 0 /\ k + 1 <= Len(in.chain) /\ in.chain[k + 1] = c + 1 /\ c + 1 \in Level
      /\ k % 2 = 0 => c % 2 = 1 /\ c - 1 \in Level
  <2>1. /\ k % 2 = 1 => c % 2 = 0 /\ k + 1 \in 1 .. Len(in.chain) /\ in.chain[k + 1] = c + 1
        /\ k % 2 = 0 => c % 2 = 1 /\ k - 1 \in 1 .. Len(in.chain) /\ c = in.chain[k - 1] + 1
    BY <1>3, ChainAt
  <2>2. \A m \in 1 .. Len(in.chain) : in.chain[m] \in Level /\ in.chain[m] \in Nat
    BY ChainAt
  <2>3. ASSUME k % 2 = 0 PROVE c - 1 \in Level
    <3>1. PICK m \in 1 .. Len(in.chain) : m = k - 1 /\ c = in.chain[m] + 1
      BY <2>1, <2>3
    <3>2. PICK d \in Level : d = in.chain[m] /\ d \in Nat
      BY <2>2
    <3> QED
      BY <3>1, <3>2
  <2> QED
    BY <2>1, <2>2, <2>3
<1>5. k % 2 = 1 <=> j % 2 = 0
  BY <1>1, Parity
<1>6. (j % 2 = 0 \/ j % 2 = 1) /\ (k % 2 = 0 \/ k % 2 = 1)
  BY <1>1, Parity
<1>7. CASE l % 2 = 0
  <2>1. s = l /\ c \in {l, l + 1}
    BY <1>2, <1>3, <1>7 DEF Partner
  <2>2. k % 2 = 1 => c = l
    BY <1>2, <1>4, <1>7, <2>1
  <2>3. k % 2 = 0 => c = l + 1
    BY <1>2, <1>4, <1>7, <2>1
  <2>4. l + 1 \in Level
    BY <1>3, <1>4, <1>6, <2>2, <2>3
  <2> QED
    BY <1>1, <1>2, <1>3, <1>4, <1>5, <1>6, <1>7, <2>1, <2>2, <2>3, <2>4
<1>8. CASE l % 2 = 1
  <2>1. s = l - 1 /\ c \in {l, l - 1} /\ s + 1 = l
    BY <1>2, <1>3, <1>8 DEF Partner
  <2>2. k % 2 = 1 => c = l - 1
    BY <1>2, <1>4, <1>8, <2>1
  <2>3. k % 2 = 0 => c = l
    BY <1>2, <1>4, <1>8, <2>1
  <2>4. l - 1 \in Level
    BY <1>2, NVarsAssumption, <1>8 DEF Level
  <2> QED
    BY <1>1, <1>2, <1>3, <1>4, <1>5, <1>6, <1>8, <2>1, <2>2, <2>3, <2>4
<1> QED
  BY <1>2, <1>7, <1>8

-----------------------------------------------------------------------------
(* bdd_relnext is defined: every call goes on in the chain, or deeper *)

RelDom == Ref \X Ref \X Nat \X (0 .. Len(in.chain))
Rank(c) == (Len(in.chain) - c[4]) + (NVars - Top(c[1], c[2]))

\* The operands of a call in its tuple, and their rank.
LEMMA RelDomIs ==
  ASSUME ValidChain(in.chain), NEW c \in RelDom
  PROVE  /\ c[1] \in Ref /\ c[2] \in Ref /\ c[3] \in Nat /\ c[4] \in 0 .. Len(in.chain)
         /\ Len(in.chain) \in Nat /\ Rank(c) \in Nat /\ Rank(c) <= Len(in.chain) + NVars
<1>1. c[1] \in Ref /\ c[2] \in Ref /\ c[3] \in Nat /\ c[4] \in 0 .. Len(in.chain)
  BY DEF RelDom
<1>2. Len(in.chain) \in Nat
  BY DEF ValidChain
<1>3. Top(c[1], c[2]) \in Nat /\ Top(c[1], c[2]) <= NVars
  BY <1>1, TopIs
<1> QED
  BY <1>1, <1>2, <1>3, NVarsAssumption DEF Rank

\* The cofactors for a pair of levels.
LEMMA PairCofactors ==
  ASSUME NEW D, Ordered(D), NEW x \in D, NEW s \in Level, s + 1 \in Level, NEW l \in Level, s <= l, l <= s + 1,
         l <= LevelOf(x), NEW p, p \in {LowAt(x, s), HighAt(x, s)}
  PROVE  /\ p \in D /\ s < LevelOf(p) /\ l <= LevelOf(p)
         /\ LowAt(p, s + 1) \in D /\ HighAt(p, s + 1) \in D
         /\ s + 1 < LevelOf(LowAt(p, s + 1)) /\ s + 1 < LevelOf(HighAt(p, s + 1))
         /\ l <= LevelOf(LowAt(p, s + 1)) /\ l <= LevelOf(HighAt(p, s + 1))
<1>1. \A y \in D : LevelOf(y) \in Nat
  BY Levels
<1>2. s \in Nat /\ l \in Nat
  BY NVarsAssumption DEF Level
<1>3. s <= LevelOf(x)
  BY <1>1, <1>2
<1>4. p \in D /\ s < LevelOf(p)
  BY <1>3, Cofactors
<1>5. PICK t \in Level : t = s + 1
  OBVIOUS
<1>6. t <= LevelOf(p)
  BY <1>1, <1>2, <1>4, <1>5
<1>7. LowAt(p, t) \in D /\ HighAt(p, t) \in D /\ t < LevelOf(LowAt(p, t)) /\ t < LevelOf(HighAt(p, t))
  BY <1>4, <1>6, Cofactors
<1> QED
  BY <1>1, <1>2, <1>4, <1>5, <1>6, <1>7

\* Two functions answer alike for the calls of a lower rank.
Alike(f, g, n) == \A c \in RelDom : Rank(c) < n => f[c] = g[c]

\* A call asks for calls of a lower rank only.
LEMMA RelLocal ==
  ASSUME ValidChain(in.chain), NEW f, NEW g, NEW a \in Ref, NEW b \in Ref, NEW prev \in Nat,
         NEW i \in 0 .. Len(in.chain), NEW n, n = Rank(<<a, b, prev, i>>), Alike(f, g, n)
  PROVE  RelStep(f, a, b, prev, i) = RelStep(g, a, b, prev, i)
<1> DEFINE Ends == (IsTrue(a) /\ IsTrue(b)) \/ IsFalse(a) \/ IsFalse(b) \/ i = Len(in.chain)
<1>0. Len(in.chain) \in Nat
  BY DEF ValidChain
<1>1. CASE Ends
  BY <1>1 DEF RelStep
<1>2. CASE ~Ends
  <2>1. PICK l \in Level : l = Top(a, b) /\ l = Lower(LevelOf(a), LevelOf(b)) /\ l <= LevelOf(a) /\ l <= LevelOf(b)
    <3>1. ~IsConst(a) \/ ~IsConst(b)
      BY <1>2 DEF IsTrue, IsFalse
    <3> QED
      BY <3>1, TopIs DEF Top
  <2>2. PICK j : j = Skipped(l, i)
    OBVIOUS
  <2>3. /\ j \in Nat /\ i <= j /\ j <= Len(in.chain)
        /\ j < Len(in.chain) => InPair(l, j) \/ l < in.chain[j + 1]
    <3>1. i < Len(in.chain)
      BY <1>0, <1>2
    <3> QED
      BY <2>2, <3>1, SkippedIs
  <2>4. ASSUME NEW p \in Ref, NEW q \in Ref, NEW k \in Nat, i <= k, k <= Len(in.chain), l <= Top(p, q),
               l < Top(p, q) \/ i < k
        PROVE  RelTask(f, p, q, l, k) = RelTask(g, p, q, l, k)
    <3>1. PICK c : c = <<p, q, l, k>>
      OBVIOUS
    <3>2. c \in RelDom
      BY <1>0, <2>4, <3>1, NVarsAssumption DEF RelDom, Level
    <3>3. Rank(c) = (Len(in.chain) - k) + (NVars - Top(p, q))
      BY <3>1 DEF Rank
    <3>4. n = (Len(in.chain) - i) + (NVars - l)
      BY <2>1 DEF Rank
    <3>5. Rank(c) < n
      <4>1. Top(p, q) \in Nat /\ l \in Nat /\ NVars \in Nat /\ i \in Nat
        BY <1>0, <2>4, TopIs, NVarsAssumption DEF Level
      <4>2. PICK m \in Nat : m = Top(p, q) /\ l <= m
        BY <2>4, <4>1
      <4>3. (Len(in.chain) - k) + (NVars - m) < (Len(in.chain) - i) + (NVars - l)
        <5>1. l < m \/ i < k
          BY <2>4, <4>2
        <5> QED
          BY <1>0, <2>4, <4>1, <4>2, <5>1
      <4> QED
        BY <3>3, <3>4, <4>2, <4>3
    <3> QED
      BY <3>1, <3>2, <3>5 DEF Alike, RelTask
  <2>5. CASE j = Len(in.chain)
    BY <1>2, <2>1, <2>2, <2>5 DEF RelStep
  <2>6. CASE j # Len(in.chain) /\ InPair(l, j)
    <3>0. j < Len(in.chain)
      BY <1>0, <2>3, <2>6
    <3>1. PICK s : s = l - (l % 2)
      OBVIOUS
    <3>2. s \in Level /\ s + 1 \in Level /\ s <= l /\ l <= s + 1
      BY <2>3, <2>6, <3>0, <3>1, PairAt
    <3>3. ASSUME NEW p \in {LowAt(a, s), HighAt(a, s)}, NEW q \in {LowAt(b, s), HighAt(b, s)}
          PROVE  /\ RelTask(f, p, LowAt(q, s + 1), l, j + 1) = RelTask(g, p, LowAt(q, s + 1), l, j + 1)
                 /\ RelTask(f, p, HighAt(q, s + 1), l, j + 1) = RelTask(g, p, HighAt(q, s + 1), l, j + 1)
      <4>0. PICK D : D = Ref /\ Ordered(D) /\ a \in D /\ b \in D
        BY RefOrdered
      <4>1. p \in D /\ l <= LevelOf(p)
        BY <2>1, <3>2, <4>0, PairCofactors
      <4>2. /\ LowAt(q, s + 1) \in D /\ HighAt(q, s + 1) \in D
            /\ l <= LevelOf(LowAt(q, s + 1)) /\ l <= LevelOf(HighAt(q, s + 1))
        BY <2>1, <3>2, <4>0, PairCofactors
      <4>3. l <= Top(p, LowAt(q, s + 1)) /\ l <= Top(p, HighAt(q, s + 1))
        BY <4>0, <4>1, <4>2, TopIs
      <4>4. j + 1 \in Nat /\ i <= j + 1 /\ j + 1 <= Len(in.chain) /\ i < j + 1
        BY <1>0, <2>3, <3>0
      <4> QED
        BY <2>4, <4>0, <4>1, <4>2, <4>3, <4>4
    <3>4. RelPair(f, a, b, l, j) = RelPair(g, a, b, l, j)
      BY <3>1, <3>3 DEF RelPair
    <3> QED
      BY <1>2, <2>1, <2>2, <2>6, <3>4 DEF RelStep
  <2>7. CASE j # Len(in.chain) /\ ~InPair(l, j)
    <3>1. /\ RelTask(f, LowAt(a, l), LowAt(b, l), l, j) = RelTask(g, LowAt(a, l), LowAt(b, l), l, j)
          /\ RelTask(f, HighAt(a, l), HighAt(b, l), l, j) = RelTask(g, HighAt(a, l), HighAt(b, l), l, j)
      <4>1. /\ LowAt(a, l) \in Ref /\ LowAt(b, l) \in Ref /\ l < Top(LowAt(a, l), LowAt(b, l))
            /\ HighAt(a, l) \in Ref /\ HighAt(b, l) \in Ref /\ l < Top(HighAt(a, l), HighAt(b, l))
        BY <2>1, TopCofactors
      <4>2. l <= Top(LowAt(a, l), LowAt(b, l)) /\ l <= Top(HighAt(a, l), HighAt(b, l))
        <5>1. l \in Nat /\ Top(LowAt(a, l), LowAt(b, l)) \in Nat /\ Top(HighAt(a, l), HighAt(b, l)) \in Nat
          BY <4>1, TopIs, NVarsAssumption DEF Level
        <5> QED
          BY <4>1, <5>1
      <4> QED
        BY <2>3, <2>4, <4>1, <4>2
    <3>2. RelOther(f, a, b, l, j) = RelOther(g, a, b, l, j)
      BY <3>1 DEF RelOther
    <3> QED
      BY <1>2, <2>1, <2>2, <2>7, <3>2 DEF RelStep
  <2> QED
    BY <2>5, <2>6, <2>7
<1> QED
  BY <1>1, <1>2

RelUpto(f, n) ==
  /\ f = [c \in RelDom |-> f[c]]
  /\ \A c \in RelDom : Rank(c) <= n => f[c] = RelStep(f, c[1], c[2], c[3], c[4])

\* The recursive definition of RelOf has a function.
LEMMA RelExists ==
  ASSUME ValidChain(in.chain)
  PROVE  \E f : f = [c \in RelDom |-> RelStep(f, c[1], c[2], c[3], c[4])]
<1> DEFINE S == {n \in Nat : \E f : RelUpto(f, n)}
<1>1. ASSUME NEW f, NEW n \in Nat, NEW g, g = [c \in RelDom |-> RelStep(f, c[1], c[2], c[3], c[4])],
             n = 0 \/ RelUpto(f, n - 1)
      PROVE  RelUpto(g, n)
  <2>1. ASSUME NEW c \in RelDom, Rank(c) <= n
        PROVE  g[c] = RelStep(g, c[1], c[2], c[3], c[4])
    <3>1. PICK x \in Ref, y \in Ref, prev \in Nat, i \in 0 .. Len(in.chain) : x = c[1] /\ y = c[2] /\ prev = c[3] /\ i = c[4]
      BY RelDomIs
    <3>2. ASSUME NEW d \in RelDom, Rank(d) < Rank(c) PROVE f[d] = g[d]
      <4>1. n # 0 /\ Rank(d) <= n - 1
        BY <2>1, <3>2, RelDomIs
      <4> QED
        BY <1>1, <4>1 DEF RelUpto
    <3>3. PICK r : r = Rank(<<x, y, prev, i>>)
      OBVIOUS
    <3>4. r = Rank(c)
      BY <3>1, <3>3 DEF Rank
    <3>5. RelStep(f, x, y, prev, i) = RelStep(g, x, y, prev, i)
      <4>1. Alike(f, g, r)
        BY <3>2, <3>4 DEF Alike
      <4> QED
        BY <3>3, <4>1, RelLocal
    <3> QED
      BY <1>1, <3>1, <3>5
  <2>2. g = [c \in RelDom |-> g[c]]
    BY <1>1
  <2> QED
    BY <2>1, <2>2 DEF RelUpto
<1>2. 0 \in S
  <2>1. PICK f : f = << >>
    OBVIOUS
  <2>2. PICK g : g = [c \in RelDom |-> RelStep(f, c[1], c[2], c[3], c[4])]
    OBVIOUS
  <2>3. RelUpto(g, 0)
    BY <1>1, <2>2
  <2> QED
    BY <2>3
<1>3. ASSUME NEW n \in Nat, n \in S PROVE n + 1 \in S
  <2>1. PICK f : RelUpto(f, n)
    BY <1>3
  <2>2. PICK g : g = [c \in RelDom |-> RelStep(f, c[1], c[2], c[3], c[4])]
    OBVIOUS
  <2>3. n + 1 \in Nat /\ (n + 1) - 1 = n
    OBVIOUS
  <2>4. RelUpto(g, n + 1)
    BY <1>1, <2>1, <2>2, <2>3
  <2> QED
    BY <2>3, <2>4
<1>4. PICK m \in Nat : m = Len(in.chain) + NVars
  BY NVarsAssumption DEF ValidChain
<1>5. m \in S
  <2> HIDE DEF S
  <2> QED
    BY <1>2, <1>3, NatSet
<1>6. PICK f : RelUpto(f, m)
  BY <1>5
<1>7. \A c \in RelDom : f[c] = RelStep(f, c[1], c[2], c[3], c[4])
  BY <1>4, <1>6, RelDomIs DEF RelUpto
<1>8. f = [c \in RelDom |-> RelStep(f, c[1], c[2], c[3], c[4])]
  BY <1>6, <1>7 DEF RelUpto
<1> QED
  BY <1>8

\* RelOf satisfies its equation.
LEMMA RelIs ==
  ASSUME ValidChain(in.chain)
  PROVE  \A x \in Ref, y \in Ref, prev \in Nat, i \in 0 .. Len(in.chain) :
           RelOf[<<x, y, prev, i>>] = RelStep(RelOf, x, y, prev, i)
<1> DEFINE Is(f) == f = [c \in RelDom |-> RelStep(f, c[1], c[2], c[3], c[4])]
<1>1. RelOf = CHOOSE f : Is(f)
  BY DEF RelOf, RelDom
<1>2. \E f : Is(f)
  BY RelExists
<1>3. Is(RelOf)
  <2> HIDE DEF Is
  <2> QED
    BY <1>1, <1>2
<1> TAKE x \in Ref, y \in Ref, prev \in Nat, i \in 0 .. Len(in.chain)
<1>4. <<x, y, prev, i>> \in RelDom
  BY DEF RelDom
<1>5. PICK c : c = <<x, y, prev, i>>
  OBVIOUS
<1>6. RelOf[c] = RelStep(RelOf, c[1], c[2], c[3], c[4]) /\ c[1] = x /\ c[2] = y /\ c[3] = prev /\ c[4] = i
  BY <1>3, <1>4, <1>5
<1> QED
  BY <1>5, <1>6

-----------------------------------------------------------------------------
(* The calls of bdd_relnext *)

Chained == {in.chain[k] : k \in 1 .. Len(in.chain)}

\* The states are over the variables of the states, the relation over those of
\* its chain, of which no more than the ones from position i on are left.  After
\* a pair, the position is in the middle of it, and both operands are below.
Past(b, i) == \A k \in 1 .. i : in.chain[k] < LevelOf(b)
Ready(a, b, i) ==
  /\ a \in DiagramsOver(Even) /\ b \in DiagramsOver(Chained)
  /\ i \in Nat /\ i < Len(in.chain)
  /\ Past(b, i)
  /\ i % 2 = 1 => in.chain[i + 1] < Top(a, b)

\* The level above the result: the result of a pair starts at its first level.
Base(a, b) == IF Top(a, b) \in Level THEN Top(a, b) - (Top(a, b) % 2) ELSE NVars

\* The base is the top level of the operands, or the level before it if that is odd.
LEMMA BaseIs ==
  ASSUME NEW a \in Ref, NEW b \in Ref
  PROVE  /\ Base(a, b) \in Nat /\ Base(a, b) <= Top(a, b) /\ Base(a, b) <= NVars
         /\ Top(a, b) \in Level => Base(a, b) = Top(a, b) - (Top(a, b) % 2) /\ Base(a, b) % 2 = 0
         /\ \A e \in Nat : e % 2 = 0 /\ e <= Top(a, b) => e <= Base(a, b)
         /\ \A e \in Level : e % 2 = 0 /\ e < Top(a, b) /\ (Top(a, b) \in Level => Top(a, b) # e + 1) => e < Base(a, b)
<1>1. PICK n \in Nat : n = Top(a, b) /\ n <= NVars
  BY TopIs
<1>2. /\ n % 2 \in {0, 1}
      /\ n % 2 = 1 => n # 0 /\ (n - 1) % 2 = 0
  BY <1>1, Parity
<1>3. n \notin Level => n = NVars
  BY <1>1, NVarsAssumption DEF Level
<1>4. \A e \in Level : e \in Nat /\ e < NVars
  BY NVarsAssumption DEF Level
<1>5. CASE n \in Level
  <2>1. Base(a, b) = n - (n % 2)
    BY <1>1, <1>5 DEF Base
  <2>2. Base(a, b) \in Nat /\ Base(a, b) <= n /\ Base(a, b) <= NVars /\ Base(a, b) % 2 = 0
    BY <1>1, <1>2, <2>1, NVarsAssumption
  <2>3. ASSUME NEW e \in Nat, e % 2 = 0, e <= n PROVE e <= Base(a, b)
    <3>1. n % 2 = 1 => e # n
      BY <2>3
    <3> QED
      BY <1>2, <2>1, <2>3, <3>1
  <2>4. ASSUME NEW e \in Level, e % 2 = 0, e < n, n # e + 1 PROVE e < Base(a, b)
    <3>1. e + 2 \in Nat /\ (e + 2) % 2 = 0 /\ e + 2 <= n /\ e \in Nat
      BY <1>4, <2>4
    <3>2. e + 2 <= Base(a, b)
      BY <2>3, <3>1
    <3> QED
      BY <2>2, <3>1, <3>2
  <2> QED
    BY <1>1, <1>5, <2>1, <2>2, <2>3, <2>4
<1>6. CASE n \notin Level
  <2>1. Base(a, b) = NVars
    BY <1>1, <1>6 DEF Base
  <2> QED
    BY <1>1, <1>3, <1>4, <1>6, <2>1, NVarsAssumption
<1> QED
  BY <1>5, <1>6

\* The variables of the chain from a position on, by their positions.
LEMMA BeforeIs ==
  ASSUME ValidChain(in.chain), NEW i \in Nat, i <= Len(in.chain)
  PROVE  /\ Before(in.chain, i) \in SUBSET Even
         /\ \A k \in 1 .. Len(in.chain) : i < k /\ in.chain[k] % 2 = 0 => in.chain[k] \in Before(in.chain, i)
         /\ \A s \in Before(in.chain, i) : \E k \in 1 .. Len(in.chain) : i < k /\ in.chain[k] % 2 = 0 /\ s = in.chain[k]
<1>1. Len(in.chain) \in Nat
  BY DEF ValidChain
<1>2. \A k \in 1 .. Len(in.chain) : in.chain[k] \in Level
  BY ChainAt
<1>3. \A k : k \in i + 1 .. Len(in.chain) <=> k \in 1 .. Len(in.chain) /\ i < k
  BY <1>1
<1> QED
  BY <1>2, <1>3 DEF Before, Even

\* A step in the chain leaves its variable behind.
LEMMA BeforePair ==
  ASSUME ValidChain(in.chain), NEW i \in Nat, i + 1 <= Len(in.chain), in.chain[i + 1] % 2 = 0
  PROVE  Without(Before(in.chain, i + 1), Before(in.chain, i), in.chain[i + 1])
<1>0. PICK s, S, R : s = in.chain[i + 1] /\ S = Before(in.chain, i) /\ R = Before(in.chain, i + 1)
  OBVIOUS
<1>1. PICK k \in 1 .. Len(in.chain) : k = i + 1 /\ i < k /\ k \in Nat /\ k <= Len(in.chain) /\ in.chain[k] = s
  BY <1>0
<1>2. i <= Len(in.chain)
  BY <1>1 DEF ValidChain
<1>3. s \in S
  BY <1>0, <1>1, <1>2, BeforeIs
<1>4. ASSUME NEW x \in R PROVE x \in S /\ x # s
  <2>1. PICK m \in 1 .. Len(in.chain) : k < m /\ in.chain[m] % 2 = 0 /\ x = in.chain[m]
    BY <1>0, <1>1, BeforeIs
  <2>2. in.chain[k] < in.chain[m] /\ in.chain[m] \in Nat
    BY <2>1, ChainAt, ChainGrows
  <2>3. i < m
    BY <1>1, <2>1
  <2>4. in.chain[m] \in S
    BY <1>0, <1>2, <2>1, <2>3, BeforeIs
  <2> QED
    BY <1>1, <2>1, <2>2, <2>4
<1>5. ASSUME NEW x \in S, x # s PROVE x \in R
  <2>1. PICK m \in 1 .. Len(in.chain) : i < m /\ in.chain[m] % 2 = 0 /\ x = in.chain[m]
    BY <1>0, <1>2, BeforeIs
  <2>2. k < m
    BY <1>1, <1>5, <2>1
  <2>3. in.chain[m] \in Before(in.chain, k)
    BY <1>1, <2>1, <2>2, BeforeIs
  <2> QED
    BY <1>0, <1>1, <2>1, <2>3
<1> QED
  BY <1>0, <1>3, <1>4, <1>5 DEF Without

\* What is left when the variables above the operands are skipped.
LEMMA Skip ==
  ASSUME ValidChain(in.chain), NEW a, NEW b, NEW i, Ready(a, b, i),
         NEW l \in Level, l = Top(a, b), NEW j, j = Skipped(l, i)
  PROVE  /\ j \in Nat /\ i <= j /\ j <= Len(in.chain)
         /\ Past(b, j)
         /\ j < Len(in.chain) => j % 2 = 0 /\ (InPair(l, j) \/ l < in.chain[j + 1])
         /\ Image(Sem(a), Sem(b), in.chain, i) = Image(Sem(a), Sem(b), in.chain, j)
<1>1. /\ a \in Good /\ b \in Good /\ a \in Ref /\ b \in Ref
      /\ i \in Nat /\ i < Len(in.chain) /\ Len(in.chain) \in Nat /\ i \in 0 .. Len(in.chain)
  <2>1. a \in Good /\ b \in Good
    BY DEF Ready, DiagramsOver
  <2>2. Len(in.chain) \in Nat
    BY DEF ValidChain
  <2> QED
    BY <2>1, <2>2, InGood DEF Ready
<1>2. /\ j \in Nat /\ i <= j /\ j <= Len(in.chain)
      /\ j < Len(in.chain) => InPair(l, j) \/ l < in.chain[j + 1]
      /\ \A k \in i .. j - 1 : ~InPair(l, k) /\ ~(l < in.chain[k + 1])
  BY <1>1, SkippedIs
<1>3. l \in Nat /\ l <= LevelOf(a) /\ l <= LevelOf(b) /\ LevelOf(a) \in Nat /\ LevelOf(b) \in Nat
  BY <1>1, TopIs, RefLevel, NVarsAssumption DEF Level
<1>4. ASSUME NEW k \in 1 .. Len(in.chain), i < k, k <= j
      PROVE  /\ in.chain[k] < l
             /\ in.chain[k] % 2 = 0 => in.chain[k] + 1 < l
  <2>1. PICK m \in i .. j - 1 : m + 1 = k
    <3>1. k - 1 \in i .. j - 1 /\ (k - 1) + 1 = k
      BY <1>1, <1>2, <1>4
    <3> QED
      BY <3>1
  <2>2. ~InPair(l, m) /\ ~(l < in.chain[k])
    BY <1>2, <2>1
  <2>3. PICK c \in Nat : c = in.chain[k]
    BY ChainAt
  <2>4. c # l /\ c # Partner(l)
    BY <2>1, <2>2, <2>3 DEF InPair
  <2>5. c < l
    BY <1>3, <2>2, <2>3, <2>4
  <2>6. ASSUME c % 2 = 0 PROVE c + 1 # l
    <3>1. (c + 1) % 2 = 1 /\ (c + 1) - 1 = c
      BY <2>6, Parity
    <3> QED
      BY <2>4, <3>1 DEF Partner
  <2> QED
    BY <1>3, <2>3, <2>5, <2>6
<1>5. ASSUME NEW k \in 1 .. j PROVE in.chain[k] < LevelOf(b)
  <2>1. k \in 1 .. Len(in.chain) /\ (k \in 1 .. i \/ i < k) /\ k <= j
    BY <1>1, <1>2
  <2>2. in.chain[k] \in Nat
    BY <2>1, ChainAt
  <2> QED
    BY <1>3, <1>4, <2>1, <2>2 DEF Ready, Past
<1>6. ASSUME j < Len(in.chain), j % 2 # 0 PROVE FALSE
  <2>1. j % 2 = 1 /\ j # 0
    BY <1>2, <1>6, Parity
  <2>2. PICK k \in 1 .. Len(in.chain) : k = j /\ k + 1 = j + 1 /\ k % 2 = 1
    BY <1>1, <1>2, <1>6, <2>1
  <2>3. PICK c \in Nat : c = in.chain[k] /\ c % 2 = 0 /\ in.chain[j + 1] = c + 1
    BY <2>2, ChainAt
  <2>4. c + 1 < l
    <3>1. CASE j = i
      BY <2>1, <2>3, <3>1 DEF Ready
    <3>2. CASE j # i
      <4>1. i < k /\ k <= j
        BY <1>1, <1>2, <2>2, <3>2
      <4> QED
        BY <1>4, <2>3, <4>1
    <3> QED
      BY <3>1, <3>2
  <2>5. InPair(l, j)
    BY <1>2, <1>3, <1>6, <2>3, <2>4
  <2>6. c + 1 = Partner(l)
    BY <1>3, <2>3, <2>4, <2>5 DEF InPair
  <2>7. l = c + 2
    BY <1>3, <2>4, <2>6 DEF Partner
  <2>8. l % 2 = 0
    BY <2>3, <2>7
  <2> QED
    BY <1>3, <2>3, <2>4, <2>6, <2>8 DEF Partner
<1>7. Image(Sem(a), Sem(b), in.chain, i) = Image(Sem(a), Sem(b), in.chain, j)
  <2>1. PICK A \in SUBSET Env : A = Sem(a)
    BY DEF Sem
  <2>2. PICK B \in SUBSET Env : B = Sem(b)
    BY DEF Sem
  <2>3. PICK S \in SUBSET Even : S = Before(in.chain, i)
    BY <1>1, BeforeIs
  <2>4. PICK R \in SUBSET Even : R = Before(in.chain, j)
    BY <1>2, BeforeIs
  <2>5. Image(A, B, in.chain, i) = Succ(A, B, S) /\ Image(A, B, in.chain, j) = Succ(A, B, R)
    BY <2>3, <2>4, ImageIs
  <2>6. R \in SUBSET S
    <3>1. ASSUME NEW s \in R PROVE s \in S
      <4>1. PICK k \in 1 .. Len(in.chain) : j < k /\ in.chain[k] % 2 = 0 /\ s = in.chain[k]
        BY <1>2, <2>4, BeforeIs
      <4>2. i < k
        BY <1>1, <1>2, <4>1
      <4> QED
        BY <1>1, <2>3, <4>1, <4>2, BeforeIs
    <3> QED
      BY <3>1
  <2>7. ASSUME NEW d \in S \ R PROVE d + 1 < l
    <3>1. PICK k \in 1 .. Len(in.chain) : i < k /\ in.chain[k] % 2 = 0 /\ d = in.chain[k]
      BY <1>1, <2>3, <2>7, BeforeIs
    <3>2. ~(j < k)
      BY <1>2, <2>4, <2>7, <3>1, BeforeIs
    <3>3. k <= j
      BY <1>2, <3>2
    <3> QED
      BY <1>4, <3>1, <3>3
  <2>8. Free(A, l) /\ Free(B, l)
    BY <1>1, <1>3, <2>1, <2>2, FreeBoth
  <2>9. Succ(A, B, S) = Succ(A, B, R)
    BY <1>3, <2>6, <2>7, <2>8, SuccSkip
  <2> QED
    BY <2>1, <2>2, <2>5, <2>9
<1> QED
  BY <1>2, <1>5, <1>6, <1>7 DEF Past

RelRight(a, b, i) ==
  \A prev \in Nat :
    Right(RelOf[<<a, b, prev, i>>], Image(Sem(a), Sem(b), in.chain, i), Base(a, b), AllShared[a])

\* Below a call of level l, calls of the rest of the chain are right.
BelowRight(l) == \A p, q \in Good : l < Top(p, q) => \A i \in Nat : Ready(p, q, i) => RelRight(p, q, i)

\* A call on operands that lie deeper.
LEMMA RelTaskRight ==
  ASSUME NEW m \in Nat, BelowRight(m), NEW p \in Good, NEW q \in Good, m < Top(p, q), NEW i \in Nat, Ready(p, q, i),
         NEW l \in Level, NEW r, r = RelTask(RelOf, p, q, l, i)
  PROVE  /\ r \in Good /\ Sem(r) = Image(Sem(p), Sem(q), in.chain, i) /\ Base(p, q) <= LevelOf(r)
         /\ AllShared[p] => AllShared[r]
<1>1. l \in Nat
  BY NVarsAssumption DEF Level
<1>2. RelRight(p, q, i)
  BY DEF BelowRight
<1>3. Right(RelOf[<<p, q, l, i>>], Image(Sem(p), Sem(q), in.chain, i), Base(p, q), AllShared[p])
  BY <1>1, <1>2 DEF RelRight
<1> QED
  BY <1>3 DEF RelTask, Right

\* The cofactors of a diagram over the levels of states, or of the chain.
LEMMA OverPair ==
  ASSUME NEW L, NEW b \in DiagramsOver(L), NEW s \in Level, s <= LevelOf(b), NEW t \in Level, t = s + 1,
         NEW p \in {LowAt(b, s), HighAt(b, s)}
  PROVE  /\ p \in DiagramsOver(L) /\ p \in Good /\ s < LevelOf(p) /\ t <= LevelOf(p)
         /\ LowAt(p, t) \in DiagramsOver(L) /\ LowAt(p, t) \in Good /\ t < LevelOf(LowAt(p, t))
         /\ HighAt(p, t) \in DiagramsOver(L) /\ HighAt(p, t) \in Good /\ t < LevelOf(HighAt(p, t))
<1>1. b \in Good
  BY DEF DiagramsOver
<1>2. p \in DiagramsOver(L) /\ p \in Good
  BY OverCofactors DEF DiagramsOver
<1>3. s < LevelOf(p)
  BY <1>1, GoodCofactors
<1>4. t <= LevelOf(p)
  BY <1>2, <1>3, InGood, RefLevel, NVarsAssumption DEF Level
<1>5. LowAt(p, t) \in DiagramsOver(L) /\ HighAt(p, t) \in DiagramsOver(L)
  BY <1>2, <1>4, OverCofactors
<1>6. t < LevelOf(LowAt(p, t)) /\ t < LevelOf(HighAt(p, t))
  BY <1>2, <1>4, GoodCofactors
<1> QED
  BY <1>2, <1>3, <1>4, <1>5, <1>6 DEF DiagramsOver

\* The variables of states skip the one after s.
LEMMA OverEven ==
  ASSUME NEW p \in DiagramsOver(Even), NEW s \in Level, s % 2 = 0, s < LevelOf(p), NEW t \in Level, t = s + 1
  PROVE  t < LevelOf(p)
<1>1. p \in Good /\ p \in Ref
  BY InGood DEF DiagramsOver
<1>2. t \in Nat /\ s \in Nat /\ t % 2 = 1 /\ t < NVars /\ NVars \in Nat
  BY NVarsAssumption, Parity DEF Level
<1>3. LevelOf(p) \in Nat /\ (IsConst(p) <=> LevelOf(p) = NVars)
  BY <1>1, RefLevel
<1>4. IsConst(p) \/ LevelOf(p) % 2 = 0
  <2>1. PICK X \in SUBSET Good : p \in X /\ OnLevels(X, Even)
    BY DEF DiagramsOver
  <2> QED
    BY <2>1 DEF OnLevels, Even
<1> QED
  BY <1>2, <1>3, <1>4

\* Two results that start below t: their union does so.
LEMMA UnionBelow ==
  ASSUME NEW x \in Good, NEW y \in Good, NEW t \in Nat, t < LevelOf(x), t < LevelOf(y),
         NEW r, r = bdd_ite(x, bdd_true, y, 0).res
  PROVE  /\ r \in Good /\ Sem(r) = Sem(x) \cup Sem(y) /\ t < LevelOf(r)
         /\ AllShared[x] /\ AllShared[y] => AllShared[r]
<1>1. PICK n \in Nat : n = 0
  OBVIOUS
<1>2. PICK o : o = bdd_ite(x, bdd_true, y, n)
  OBVIOUS
<1>3. /\ o.res \in Good /\ Sem(o.res) = Sem(x) \cup Sem(y) /\ Top(x, y) <= LevelOf(o.res)
      /\ AllShared[x] /\ AllShared[y] => AllShared[o.res]
  BY <1>2, IteOrRight
<1>4. r = o.res
  BY <1>1, <1>2
<1>5. t < LevelOf(r)
  <2>1. Top(x, y) = LevelOf(x) \/ Top(x, y) = LevelOf(y)
    BY InGood, TopIs
  <2>2. LevelOf(r) \in Nat /\ LevelOf(x) \in Nat /\ LevelOf(y) \in Nat
    BY <1>3, <1>4, InGood, RefLevel
  <2> QED
    BY <1>3, <1>4, <2>1, <2>2
<1> QED
  BY <1>3, <1>4, <1>5

\* The branch of bdd_relnext for a variable of the chain: four calls, two unions
\* and one node make the image.
LEMMA PairRight ==
  ASSUME ValidChain(in.chain), NEW a \in DiagramsOver(Even), NEW b \in DiagramsOver(Chained),
         NEW l \in Level, l = Top(a, b), BelowRight(l), NEW j \in Nat, j < Len(in.chain), j % 2 = 0, InPair(l, j),
         NEW r, r = RelPair(RelOf, a, b, l, j)
  PROVE  /\ r \in Good /\ Sem(r) = Image(Sem(a), Sem(b), in.chain, j) /\ Base(a, b) <= LevelOf(r)
         /\ AllShared[a] => AllShared[r]
<1>0. /\ a \in Good /\ b \in Good /\ a \in Ref /\ b \in Ref /\ l \in Nat /\ l <= LevelOf(a) /\ l <= LevelOf(b)
      /\ LevelOf(a) \in Nat /\ LevelOf(b) \in Nat /\ Len(in.chain) \in Nat
  <2>1. a \in Good /\ b \in Good
    BY DEF DiagramsOver
  <2> QED
    BY <2>1, InGood, TopIs, RefLevel, NVarsAssumption DEF Level, ValidChain
<1>1. PICK s : s = l - (l % 2)
  OBVIOUS
<1>2. /\ s \in Level /\ s + 1 \in Level /\ s \in Nat /\ s % 2 = 0 /\ s <= l /\ l <= s + 1
      /\ in.chain[j + 1] = s /\ j + 1 < Len(in.chain) /\ in.chain[j + 2] = s + 1
  <2>1. /\ s \in Level /\ s + 1 \in Level /\ s \in Nat /\ s % 2 = 0
        /\ s <= l /\ l <= s + 1
        /\ j % 2 = 0 => in.chain[j + 1] = s /\ j + 1 < Len(in.chain) /\ in.chain[j + 2] = s + 1
    BY <1>1, PairAt
  <2> QED
    BY <2>1
<1>3. PICK t \in Level : t = s + 1 /\ t \in Nat
  BY <1>2
<1>4. s <= LevelOf(a) /\ s <= LevelOf(b)
  BY <1>0, <1>2
<1>5. PICK a0 : a0 = LowAt(a, s)
  OBVIOUS
<1>6. PICK a1 : a1 = HighAt(a, s)
  OBVIOUS
<1>7. PICK b0 : b0 = LowAt(b, s)
  OBVIOUS
<1>8. PICK b1 : b1 = HighAt(b, s)
  OBVIOUS
<1>9. PICK b00 : b00 = LowAt(b0, t)
  OBVIOUS
<1>10. PICK b01 : b01 = HighAt(b0, t)
  OBVIOUS
<1>11. PICK b10 : b10 = LowAt(b1, t)
  OBVIOUS
<1>12. PICK b11 : b11 = HighAt(b1, t)
  OBVIOUS
<1>13. /\ a0 \in DiagramsOver(Even) /\ a0 \in Good /\ t < LevelOf(a0)
       /\ a1 \in DiagramsOver(Even) /\ a1 \in Good /\ t < LevelOf(a1)
  <2>1. /\ a0 \in DiagramsOver(Even) /\ a0 \in Good /\ s < LevelOf(a0)
        /\ a1 \in DiagramsOver(Even) /\ a1 \in Good /\ s < LevelOf(a1)
    BY <1>2, <1>3, <1>4, <1>5, <1>6, OverPair
  <2> QED
    BY <1>2, <1>3, <2>1, OverEven
<1>14. /\ b0 \in Good /\ s < LevelOf(b0) /\ t <= LevelOf(b0)
       /\ b1 \in Good /\ s < LevelOf(b1) /\ t <= LevelOf(b1)
       /\ b00 \in DiagramsOver(Chained) /\ b00 \in Good /\ t < LevelOf(b00)
       /\ b01 \in DiagramsOver(Chained) /\ b01 \in Good /\ t < LevelOf(b01)
       /\ b10 \in DiagramsOver(Chained) /\ b10 \in Good /\ t < LevelOf(b10)
       /\ b11 \in DiagramsOver(Chained) /\ b11 \in Good /\ t < LevelOf(b11)
  BY <1>2, <1>3, <1>4, <1>7, <1>8, <1>9, <1>10, <1>11, <1>12, OverPair
\* The calls are those of the next position, below t.
<1>15. ASSUME NEW p \in DiagramsOver(Even), p \in Good, t < LevelOf(p),
              NEW q \in DiagramsOver(Chained), q \in Good, t < LevelOf(q),
              NEW x, x = RelTask(RelOf, p, q, l, j + 1)
       PROVE  /\ x \in Good /\ Sem(x) = Image(Sem(p), Sem(q), in.chain, j + 1) /\ t < LevelOf(x)
              /\ AllShared[p] => AllShared[x]
  <2>1. p \in Ref /\ q \in Ref /\ LevelOf(p) \in Nat /\ LevelOf(q) \in Nat
    BY <1>15, InGood, RefLevel
  <2>2. t < Top(p, q) /\ l < Top(p, q) /\ Top(p, q) \in Nat
    <3>1. Top(p, q) \in Nat /\ (Top(p, q) = LevelOf(p) \/ Top(p, q) = LevelOf(q))
      BY <2>1, TopIs
    <3>2. t < Top(p, q)
      BY <1>15, <3>1
    <3>3. \A n \in Nat : t < n => l < n
      BY <1>0, <1>2, <1>3
    <3> QED
      BY <3>1, <3>2, <3>3
  <2>3. Ready(p, q, j + 1)
    <3>1. j + 1 \in Nat /\ (j + 1) + 1 = j + 2
      OBVIOUS
    <3>2. ASSUME NEW k \in 1 .. j + 1 PROVE in.chain[k] < LevelOf(q)
      <4>2. PICK m \in 1 .. Len(in.chain) : m = j + 1 /\ in.chain[m] = s
        BY <1>0, <1>2
      <4>3. k \in 1 .. Len(in.chain) /\ (k = m \/ k < m)
        BY <1>0, <1>2, <4>2
      <4>4. PICK h \in Nat : h = in.chain[k]
        BY <4>3, ChainAt
      <4>5. h <= s
        <5>1. k < m => h < s
          BY <4>2, <4>3, <4>4, ChainGrows
        <5>2. k = m => h = s
          BY <4>2, <4>4
        <5> QED
          BY <1>2, <4>3, <5>1, <5>2
      <4>6. h < LevelOf(q)
        <5>1. \A n \in Nat : t < n => h < n
          BY <1>2, <1>3, <4>4, <4>5
        <5> QED
          BY <1>15, <2>1, <5>1
      <4> QED
        BY <4>4, <4>6
    <3> QED
      BY <1>2, <1>3, <2>2, <3>1, <3>2 DEF Ready, Past
  <2>4. /\ x \in Good /\ Sem(x) = Image(Sem(p), Sem(q), in.chain, j + 1) /\ Base(p, q) <= LevelOf(x)
        /\ AllShared[p] => AllShared[x]
    <3>1. PICK i \in Nat : i = j + 1
      OBVIOUS
    <3> QED
      BY <1>0, <1>15, <2>2, <2>3, <3>1, RelTaskRight
  <2>5. t < Base(p, q)
    <3>1. t + 1 \in Nat /\ (t + 1) % 2 = 0 /\ t + 1 <= Top(p, q)
      <4>1. \A n \in Nat : t < n => t + 1 <= n
        BY <1>3
      <4>2. t + 1 \in Nat /\ (t + 1) % 2 = 0
        BY <1>2, <1>3, Parity
      <4> QED
        BY <2>2, <4>1, <4>2
    <3> QED
      BY <1>3, <2>1, <3>1, BaseIs
  <2>6. LevelOf(x) \in Nat /\ Base(p, q) \in Nat
    BY <2>1, <2>4, InGood, RefLevel, BaseIs
  <2> QED
    BY <1>3, <2>4, <2>5, <2>6
<1>16. PICK c : c = RelTask(RelOf, a0, b00, l, j + 1)
  OBVIOUS
<1>17. PICK d : d = RelTask(RelOf, a1, b10, l, j + 1)
  OBVIOUS
<1>18. PICK e : e = RelTask(RelOf, a0, b01, l, j + 1)
  OBVIOUS
<1>19. PICK f : f = RelTask(RelOf, a1, b11, l, j + 1)
  OBVIOUS
<1>20. /\ c \in Good /\ Sem(c) = Image(Sem(a0), Sem(b00), in.chain, j + 1) /\ t < LevelOf(c)
       /\ AllShared[a0] => AllShared[c]
  BY <1>13, <1>14, <1>15, <1>16
<1>21. /\ d \in Good /\ Sem(d) = Image(Sem(a1), Sem(b10), in.chain, j + 1) /\ t < LevelOf(d)
       /\ AllShared[a1] => AllShared[d]
  BY <1>13, <1>14, <1>15, <1>17
<1>22. /\ e \in Good /\ Sem(e) = Image(Sem(a0), Sem(b01), in.chain, j + 1) /\ t < LevelOf(e)
       /\ AllShared[a0] => AllShared[e]
  BY <1>13, <1>14, <1>15, <1>18
<1>23. /\ f \in Good /\ Sem(f) = Image(Sem(a1), Sem(b11), in.chain, j + 1) /\ t < LevelOf(f)
       /\ AllShared[a1] => AllShared[f]
  BY <1>13, <1>14, <1>15, <1>19
<1>24. PICK low : low = bdd_ite(c, bdd_true, d, 0).res
  OBVIOUS
<1>25. PICK high : high = bdd_ite(e, bdd_true, f, 0).res
  OBVIOUS
<1>26. /\ low \in Good /\ Sem(low) = Sem(c) \cup Sem(d) /\ t < LevelOf(low)
       /\ AllShared[c] /\ AllShared[d] => AllShared[low]
  BY <1>3, <1>20, <1>21, <1>24, UnionBelow
<1>27. /\ high \in Good /\ Sem(high) = Sem(e) \cup Sem(f) /\ t < LevelOf(high)
       /\ AllShared[e] /\ AllShared[f] => AllShared[high]
  BY <1>3, <1>22, <1>23, <1>25, UnionBelow
<1>28. r = bdd_makenode(s, low, high)
  BY <1>1, <1>3, <1>5, <1>6, <1>7, <1>8, <1>9, <1>10, <1>11, <1>12, <1>16, <1>17, <1>18, <1>19, <1>24, <1>25 DEF RelPair
<1>29. /\ r \in Good /\ s <= LevelOf(r)
       /\ AllShared[low] /\ AllShared[high] => AllShared[r]
       /\ \A v \in Env : v \in Sem(r) <=> IF v[s] THEN v \in Sem(high) ELSE v \in Sem(low)
  <2>1. s < LevelOf(low) /\ s < LevelOf(high)
    <3>1. LevelOf(low) \in Nat /\ LevelOf(high) \in Nat
      BY <1>26, <1>27, InGood, RefLevel
    <3> QED
      BY <1>2, <1>3, <1>26, <1>27, <3>1
  <2> QED
    BY <1>2, <1>26, <1>27, <1>28, <2>1, GoodMakenode
<1>30. AllShared[a] => AllShared[a0] /\ AllShared[a1]
  BY <1>0, <1>2, <1>4, <1>5, <1>6, GoodCofactors
<1>31. \A u \in Env : u \in Sem(a) <=> IF u[s] THEN u \in Sem(a1) ELSE u \in Sem(a0)
  BY <1>0, <1>2, <1>4, <1>5, <1>6, GoodCofactors
<1>32. \A u \in Env : u \in Sem(b) <=> IF u[s] THEN u \in Sem(b1) ELSE u \in Sem(b0)
  BY <1>0, <1>2, <1>4, <1>7, <1>8, GoodCofactors
<1>33. \A u \in Env : u \in Sem(b0) <=> IF u[t] THEN u \in Sem(b01) ELSE u \in Sem(b00)
  BY <1>3, <1>9, <1>10, <1>14, GoodCofactors
<1>34. \A u \in Env : u \in Sem(b1) <=> IF u[t] THEN u \in Sem(b11) ELSE u \in Sem(b10)
  BY <1>3, <1>11, <1>12, <1>14, GoodCofactors
<1>35. Sem(r) = Image(Sem(a), Sem(b), in.chain, j)
  <2>1. PICK S \in SUBSET Even : S = Before(in.chain, j)
    BY BeforeIs
  <2>2. PICK R \in SUBSET Even : R = Before(in.chain, j + 1)
    <3>1. j + 1 \in Nat /\ j + 1 <= Len(in.chain)
      BY <1>0
    <3> QED
      BY <3>1, BeforeIs
  <2>3. Without(R, S, s)
    <3>1. in.chain[j + 1] % 2 = 0 /\ j + 1 <= Len(in.chain)
      BY <1>0, <1>2
    <3>2. Without(Before(in.chain, j + 1), Before(in.chain, j), in.chain[j + 1])
      BY <3>1, BeforePair
    <3> QED
      BY <1>2, <2>1, <2>2, <3>2
  <2>4. PICK A \in SUBSET Env : A = Sem(a)
    BY DEF Sem
  <2>5. PICK A0 \in SUBSET Env : A0 = Sem(a0)
    BY DEF Sem
  <2>6. PICK A1 \in SUBSET Env : A1 = Sem(a1)
    BY DEF Sem
  <2>7. PICK B \in SUBSET Env : B = Sem(b)
    BY DEF Sem
  <2>0. PICK B0, B1 : B0 = Sem(b0) /\ B1 = Sem(b1)
    OBVIOUS
  <2>8. PICK B00 \in SUBSET Env : B00 = Sem(b00)
    BY DEF Sem
  <2>9. PICK B01 \in SUBSET Env : B01 = Sem(b01)
    BY DEF Sem
  <2>10. PICK B10 \in SUBSET Env : B10 = Sem(b10)
    BY DEF Sem
  <2>11. PICK B11 \in SUBSET Env : B11 = Sem(b11)
    BY DEF Sem
  <2>12. PICK n \in Nat : n = s + 2 /\ n = t + 1
    BY <1>2, <1>3
  <2>13. ASSUME NEW x \in Good, t < LevelOf(x) PROVE Free(Sem(x), n)
    <3>1. n <= LevelOf(x) /\ LevelOf(x) \in Nat /\ x \in Ref
      BY <1>3, <2>12, <2>13, InGood, RefLevel
    <3> QED
      BY <3>1, FreeBoth
  <2>14. Free(A0, n) /\ Free(A1, n) /\ Free(B00, n) /\ Free(B01, n) /\ Free(B10, n) /\ Free(B11, n)
    BY <1>13, <1>14, <2>5, <2>6, <2>8, <2>9, <2>10, <2>11, <2>13
  <2>15. Split(A, A0, A1, s)
    BY <1>31, <2>4, <2>5, <2>6 DEF Split
  <2>16. Split(B, B0, B1, s) /\ Split(B0, B00, B01, t) /\ Split(B1, B10, B11, t)
    BY <1>32, <1>33, <1>34, <2>0, <2>7, <2>8, <2>9, <2>10, <2>11 DEF Split
  <2>17. Pairs(Succ(A, B, S), Succ(A0, B00, R), Succ(A1, B10, R), Succ(A0, B01, R), Succ(A1, B11, R), s)
    BY <1>3, <2>3, <2>12, <2>14, <2>15, <2>16, SuccPair
  <2>18. /\ Sem(c) = Succ(A0, B00, R) /\ Sem(d) = Succ(A1, B10, R)
         /\ Sem(e) = Succ(A0, B01, R) /\ Sem(f) = Succ(A1, B11, R)
    <3>1. \A X, Y \in SUBSET Env : Image(X, Y, in.chain, j + 1) = Succ(X, Y, R)
      BY <2>2, ImageIs
    <3> QED
      BY <1>20, <1>21, <1>22, <1>23, <2>5, <2>6, <2>8, <2>9, <2>10, <2>11, <3>1
  <2>19. \A v \in Env : v \in Sem(r) <=> v \in Succ(A, B, S)
    BY <1>26, <1>27, <1>29, <2>17, <2>18 DEF Pairs
  <2>20. Sem(r) \subseteq Env /\ Succ(A, B, S) \subseteq Env
    BY DEF Sem, Succ
  <2>21. Image(A, B, in.chain, j) = Succ(A, B, S)
    BY <2>1, ImageIs
  <2> QED
    BY <2>4, <2>7, <2>19, <2>20, <2>21
<1>36. Base(a, b) = s
  BY <1>0, <1>1, BaseIs
<1> QED
  BY <1>20, <1>21, <1>22, <1>23, <1>26, <1>27, <1>29, <1>30, <1>35, <1>36

\* The branch for a variable that the chain lacks: the relation does not depend on
\* it, so that two calls and one node make the image.
LEMMA OtherRight ==
  ASSUME ValidChain(in.chain), NEW a \in DiagramsOver(Even), NEW b \in DiagramsOver(Chained),
         NEW l \in Level, l = Top(a, b), BelowRight(l), NEW j \in Nat, j < Len(in.chain), j % 2 = 0,
         ~InPair(l, j), l < in.chain[j + 1], Past(b, j),
         NEW r, r = RelOther(RelOf, a, b, l, j)
  PROVE  /\ r \in Good /\ Sem(r) = Image(Sem(a), Sem(b), in.chain, j) /\ Base(a, b) <= LevelOf(r)
         /\ AllShared[a] => AllShared[r]
<1>0. /\ a \in Good /\ b \in Good /\ a \in Ref /\ b \in Ref /\ l \in Nat /\ l <= LevelOf(a) /\ l <= LevelOf(b)
      /\ LevelOf(a) \in Nat /\ LevelOf(b) \in Nat /\ Len(in.chain) \in Nat
      /\ l = LevelOf(a) \/ l = LevelOf(b)
  <2>1. a \in Good /\ b \in Good
    BY DEF DiagramsOver
  <2> QED
    BY <2>1, InGood, TopIs, RefLevel, NVarsAssumption DEF Level, ValidChain
<1>1. PICK k \in 1 .. Len(in.chain) : k = j + 1 /\ k \in Nat
  BY <1>0
<1>2. PICK c \in Level : c = in.chain[k] /\ l < c /\ c # l /\ c # Partner(l) /\ c \in Nat /\ c < NVars
  BY <1>1, ChainAt, NVarsAssumption DEF InPair, Level
<1>3. ASSUME NEW m \in 1 .. Len(in.chain), j < m PROVE c <= in.chain[m] /\ in.chain[m] \in Nat
  <2>1. PICK d \in Nat : d = in.chain[m]
    BY ChainAt
  <2>2. k < m => c < d
    BY <1>2, <2>1, ChainGrows
  <2>3. k = m \/ k < m
    BY <1>1, <1>3
  <2> QED
    BY <1>2, <2>1, <2>2, <2>3
<1>4. c <= LevelOf(b)
  <2>1. CASE IsConst(b)
    <3>1. LevelOf(b) = NVars
      BY <1>0, <2>1, RefLevel
    <3> QED
      BY <1>2, <3>1, NVarsAssumption
  <2>2. CASE ~IsConst(b)
    <3>1. LevelOf(b) \in Chained
      <4>1. PICK X \in SUBSET Good : b \in X /\ OnLevels(X, Chained)
        BY DEF DiagramsOver
      <4> QED
        BY <2>2, <4>1 DEF OnLevels
    <3>2. PICK m \in 1 .. Len(in.chain) : LevelOf(b) = in.chain[m]
      BY <3>1 DEF Chained
    <3>3. ~(in.chain[m] < LevelOf(b))
      BY <1>0, <3>2
    <3>4. j < m
      BY <1>0, <3>2, <3>3 DEF Past
    <3> QED
      BY <1>3, <3>2, <3>4
  <2> QED
    BY <2>1, <2>2
<1>5. l = LevelOf(a) /\ LevelOf(b) # l /\ ~IsConst(a)
  <2>1. LevelOf(b) # l
    BY <1>0, <1>2, <1>4
  <2> QED
    BY <1>0, <2>1, RefLevel, NVarsAssumption DEF Level
<1>6. l % 2 = 0
  <2>1. PICK X \in SUBSET Good : a \in X /\ OnLevels(X, Even)
    BY DEF DiagramsOver
  <2> QED
    BY <1>5, <2>1 DEF OnLevels, Even
<1>7. PICK t \in Level : t = l + 1 /\ t \in Nat /\ t < c
  <2>1. c # l + 1
    BY <1>2, <1>6 DEF Partner
  <2> QED
    BY <1>0, <1>2, <2>1, NVarsAssumption DEF Level
<1>8. PICK a0 : a0 = LowAt(a, l)
  OBVIOUS
<1>9. PICK a1 : a1 = HighAt(a, l)
  OBVIOUS
<1>10. /\ a0 \in DiagramsOver(Even) /\ a0 \in Good /\ t < LevelOf(a0)
       /\ a1 \in DiagramsOver(Even) /\ a1 \in Good /\ t < LevelOf(a1)
  <2>1. /\ a0 \in DiagramsOver(Even) /\ a0 \in Good /\ l < LevelOf(a0)
        /\ a1 \in DiagramsOver(Even) /\ a1 \in Good /\ l < LevelOf(a1)
    BY <1>0, <1>7, <1>8, <1>9, OverPair
  <2> QED
    BY <1>6, <1>7, <2>1, OverEven
<1>11. /\ AllShared[a] => AllShared[a0] /\ AllShared[a1]
       /\ Split(Sem(a), Sem(a0), Sem(a1), l)
  BY <1>0, <1>8, <1>9, GoodCofactors DEF Split
<1>12. t < LevelOf(b)
  BY <1>0, <1>2, <1>4, <1>7
\* The calls are those of the same position, below t.
<1>13. ASSUME NEW p \in DiagramsOver(Even), p \in Good, t < LevelOf(p), NEW x, x = RelTask(RelOf, p, b, l, j)
       PROVE  /\ x \in Good /\ Sem(x) = Image(Sem(p), Sem(b), in.chain, j) /\ l < LevelOf(x)
              /\ AllShared[p] => AllShared[x]
  <2>1. p \in Ref /\ LevelOf(p) \in Nat
    BY <1>13, InGood, RefLevel
  <2>2. t < Top(p, b) /\ l < Top(p, b) /\ Top(p, b) \in Nat
    BY <1>0, <1>7, <1>12, <1>13, <2>1, TopIs
  <2>3. Ready(p, b, j)
    BY <2>2 DEF Ready
  <2>4. /\ x \in Good /\ Sem(x) = Image(Sem(p), Sem(b), in.chain, j) /\ Base(p, b) <= LevelOf(x)
        /\ AllShared[p] => AllShared[x]
    BY <1>0, <1>13, <2>2, <2>3, RelTaskRight
  <2>5. t < Base(p, b)
    <3>1. t + 1 \in Nat /\ (t + 1) % 2 = 0 /\ t + 1 <= Top(p, b)
      <4>1. \A n \in Nat : t < n => t + 1 <= n
        BY <1>7
      <4>2. t + 1 \in Nat /\ (t + 1) % 2 = 0
        <5>1. PICK h \in Nat : h = l /\ h % 2 = 0
          BY <1>0, <1>6
        <5>2. (h + 2) % 2 = 0 /\ t + 1 = h + 2
          BY <1>7, <5>1
        <5> QED
          BY <5>1, <5>2
      <4> QED
        BY <2>2, <4>1, <4>2
    <3>2. t + 1 <= Base(p, b) /\ Base(p, b) \in Nat
      BY <1>0, <2>1, <3>1, BaseIs
    <3> QED
      BY <1>7, <3>2
  <2>6. LevelOf(x) \in Nat /\ Base(p, b) \in Nat
    BY <1>0, <2>1, <2>4, InGood, RefLevel, BaseIs
  <2> QED
    BY <1>0, <1>7, <2>4, <2>5, <2>6
<1>14. PICK low : low = RelTask(RelOf, a0, b, l, j)
  OBVIOUS
<1>15. PICK high : high = RelTask(RelOf, a1, b, l, j)
  OBVIOUS
<1>16. /\ low \in Good /\ Sem(low) = Image(Sem(a0), Sem(b), in.chain, j) /\ l < LevelOf(low)
       /\ AllShared[a0] => AllShared[low]
  BY <1>10, <1>13, <1>14
<1>17. /\ high \in Good /\ Sem(high) = Image(Sem(a1), Sem(b), in.chain, j) /\ l < LevelOf(high)
       /\ AllShared[a1] => AllShared[high]
  BY <1>10, <1>13, <1>15
<1>18. r = bdd_makenode(l, low, high)
  <2>1. LowAt(b, l) = b /\ HighAt(b, l) = b
    BY <1>5 DEF LowAt, HighAt
  <2> QED
    BY <1>8, <1>9, <1>14, <1>15, <2>1 DEF RelOther
<1>19. /\ r \in Good /\ l <= LevelOf(r)
       /\ AllShared[low] /\ AllShared[high] => AllShared[r]
       /\ \A v \in Env : v \in Sem(r) <=> IF v[l] THEN v \in Sem(high) ELSE v \in Sem(low)
  BY <1>16, <1>17, <1>18, GoodMakenode
<1>20. Sem(r) = Image(Sem(a), Sem(b), in.chain, j)
  <2>1. PICK S \in SUBSET Even : S = Before(in.chain, j)
    BY <1>0, BeforeIs
  <2>2. l \notin S
    <3> SUFFICES ASSUME l \in S PROVE FALSE
      OBVIOUS
    <3>0. j <= Len(in.chain) /\ l \in Before(in.chain, j)
      BY <1>0, <2>1
    <3>1. PICK m \in 1 .. Len(in.chain) : j < m /\ l = in.chain[m]
      BY <3>0, BeforeIs
    <3>2. c <= l
      BY <1>3, <3>1
    <3> QED
      BY <1>0, <1>2, <3>2
  <2>3. PICK A \in SUBSET Env : A = Sem(a)
    BY DEF Sem
  <2>4. PICK A0 \in SUBSET Env : A0 = Sem(a0)
    BY DEF Sem
  <2>5. PICK A1 \in SUBSET Env : A1 = Sem(a1)
    BY DEF Sem
  <2>6. PICK B \in SUBSET Env : B = Sem(b)
    BY DEF Sem
  <2>7. Split(A, A0, A1, l)
    BY <1>11, <2>3, <2>4, <2>5
  <2>8. \A v \in Env : v \in Succ(A, B, S) <=> IF v[l] THEN v \in Succ(A1, B, S) ELSE v \in Succ(A0, B, S)
    BY <2>2, <2>7, SuccOther
  <2>9. \A X \in SUBSET Env : Image(X, B, in.chain, j) = Succ(X, B, S)
    BY <2>1, ImageIs
  <2>10. Sem(low) = Succ(A0, B, S) /\ Sem(high) = Succ(A1, B, S)
    BY <1>16, <1>17, <2>4, <2>5, <2>6, <2>9
  <2>11. \A v \in Env : v \in Sem(r) <=> v \in Succ(A, B, S)
    BY <1>19, <2>8, <2>10
  <2>12. Sem(r) \subseteq Env /\ Succ(A, B, S) \subseteq Env
    BY DEF Sem, Succ
  <2> QED
    BY <2>3, <2>6, <2>9, <2>11, <2>12
<1>21. Base(a, b) = l
  BY <1>0, <1>6, BaseIs
<1> QED
  BY <1>11, <1>16, <1>17, <1>19, <1>20, <1>21

\* No variable of the relation is left: it allows everything.
LEMMA EndRight ==
  ASSUME ValidChain(in.chain), NEW a \in Good, NEW b \in DiagramsOver(Chained), ~IsFalse(b),
         NEW j \in Nat, j = Len(in.chain), Past(b, j)
  PROVE  Image(Sem(a), Sem(b), in.chain, j) = Sem(a)
<1>1. b \in Good /\ b \in Ref /\ LevelOf(b) \in Nat
  BY InGood, RefLevel DEF DiagramsOver
<1>2. IsConst(b)
  <2> SUFFICES ASSUME ~IsConst(b) PROVE FALSE
    OBVIOUS
  <2>1. LevelOf(b) \in Chained
    <3>1. PICK X \in SUBSET Good : b \in X /\ OnLevels(X, Chained)
      BY DEF DiagramsOver
    <3> QED
      BY <3>1 DEF OnLevels
  <2>2. PICK m \in 1 .. j : LevelOf(b) = in.chain[m]
    BY <2>1 DEF Chained
  <2> QED
    BY <1>1, <2>2 DEF Past
<1>3. Sem(b) = Env
  BY <1>1, <1>2, Constant DEF IsTrue, IsFalse
<1>4. PICK S \in SUBSET Even : S = Before(in.chain, j)
  BY BeforeIs
<1>5. S = {}
  BY <1>4, BeforeIs
<1>6. PICK A \in SUBSET Env : A = Sem(a)
  BY DEF Sem
<1>7. PICK B \in SUBSET Env : B = Env /\ B = Sem(b)
  BY <1>3
<1>8. Image(A, B, in.chain, j) = Succ(A, B, S)
  BY <1>4, ImageIs
<1> QED
  BY <1>5, <1>6, <1>7, <1>8, SuccEnds

\* Images of the constants, and the variables that an image depends on.
LEMMA ImageEnds ==
  ASSUME ValidChain(in.chain), NEW a \in Good, NEW b \in Good, NEW i \in Nat, i <= Len(in.chain)
  PROVE  /\ Image(Sem(a), Sem(b), in.chain, i) \in SUBSET Env
         /\ Sem(a) = {} \/ Sem(b) = {} => Image(Sem(a), Sem(b), in.chain, i) = {}
         /\ Sem(a) = Env /\ Sem(b) = Env => Image(Sem(a), Sem(b), in.chain, i) = Env
         /\ Top(a, b) \in Level => Free(Image(Sem(a), Sem(b), in.chain, i), Base(a, b))
<1>1. PICK S \in SUBSET Even : S = Before(in.chain, i)
  BY BeforeIs
<1>2. PICK A \in SUBSET Env : A = Sem(a)
  BY DEF Sem
<1>3. PICK B \in SUBSET Env : B = Sem(b)
  BY DEF Sem
<1>4. Image(A, B, in.chain, i) = Succ(A, B, S)
  BY <1>1, ImageIs
<1>5. Succ(A, B, S) \in SUBSET Env
  BY DEF Succ
<1>6. ASSUME Top(a, b) \in Level PROVE Free(Succ(A, B, S), Base(a, b))
  <2>1. a \in Ref /\ b \in Ref
    BY InGood
  <2>2. PICK n \in Nat : n = Base(a, b) /\ n % 2 = 0 /\ n <= Top(a, b)
    BY <1>6, <2>1, BaseIs
  <2>3. n <= LevelOf(a) /\ n <= LevelOf(b)
    <3>1. Top(a, b) \in Nat /\ Top(a, b) <= LevelOf(a) /\ Top(a, b) <= LevelOf(b) /\ LevelOf(a) \in Nat /\ LevelOf(b) \in Nat
      BY <2>1, TopIs, RefLevel
    <3> QED
      BY <2>2, <3>1
  <2>4. Free(A, n) /\ Free(B, n)
    BY <1>2, <1>3, <2>1, <2>3, FreeBoth
  <2> QED
    BY <2>2, <2>4, SuccFree
<1> QED
  BY <1>2, <1>3, <1>4, <1>5, <1>6, SuccEnds

\* The answer of a branch: the image, no level below the base, shared if the states are.
Answered(r, a, b, j) ==
  /\ r \in Good /\ Sem(r) = Image(Sem(a), Sem(b), in.chain, j) /\ Base(a, b) <= LevelOf(r)
  /\ AllShared[a] => AllShared[r]

\* PairRight, as one fact on the call.
LEMMA PairAnswered ==
  ASSUME ValidChain(in.chain), NEW a \in DiagramsOver(Even), NEW b \in DiagramsOver(Chained),
         NEW l \in Level, l = Top(a, b), BelowRight(l), NEW j \in Nat, j < Len(in.chain), j % 2 = 0, InPair(l, j)
  PROVE  Answered(RelPair(RelOf, a, b, l, j), a, b, j)
<1>1. PICK r : r = RelPair(RelOf, a, b, l, j)
  OBVIOUS
<1>2. /\ r \in Good /\ Sem(r) = Image(Sem(a), Sem(b), in.chain, j) /\ Base(a, b) <= LevelOf(r)
      /\ AllShared[a] => AllShared[r]
  BY <1>1, PairRight
<1> QED
  BY <1>1, <1>2 DEF Answered

\* OtherRight, as one fact on the call.
LEMMA OtherAnswered ==
  ASSUME ValidChain(in.chain), NEW a \in DiagramsOver(Even), NEW b \in DiagramsOver(Chained),
         NEW l \in Level, l = Top(a, b), BelowRight(l), NEW j \in Nat, j < Len(in.chain), j % 2 = 0,
         ~InPair(l, j), l < in.chain[j + 1], Past(b, j)
  PROVE  Answered(RelOther(RelOf, a, b, l, j), a, b, j)
<1>1. PICK r : r = RelOther(RelOf, a, b, l, j)
  OBVIOUS
<1>2. /\ r \in Good /\ Sem(r) = Image(Sem(a), Sem(b), in.chain, j) /\ Base(a, b) <= LevelOf(r)
      /\ AllShared[a] => AllShared[r]
  BY <1>1, OtherRight
<1> QED
  BY <1>1, <1>2 DEF Answered

\* The part of ImageEnds on the variables of an image.
LEMMA ImageFree ==
  ASSUME ValidChain(in.chain), NEW a \in Good, NEW b \in Good, NEW i \in Nat, i <= Len(in.chain), Top(a, b) \in Level,
         NEW T, T = Image(Sem(a), Sem(b), in.chain, i)
  PROVE  Free(T, Base(a, b))
BY ImageEnds

\* A call of bdd_relnext is right if those that lie deeper are: its terminal
\* cases, the position after the skipped variables, the end of the chain, a result
\* from the cache, and the two branches.
LEMMA RelStepRight ==
  ASSUME ValidChain(in.chain), NEW a \in Good, NEW b \in Good, NEW i \in Nat, Ready(a, b, i), BelowRight(Top(a, b))
  PROVE  RelRight(a, b, i)
<1>0. /\ a \in Ref /\ b \in Ref /\ a \in DiagramsOver(Even) /\ b \in DiagramsOver(Chained)
      /\ i < Len(in.chain) /\ Len(in.chain) \in Nat /\ i \in 0 .. Len(in.chain)
  BY InGood DEF Ready, ValidChain
<1>1. PICK T \in SUBSET Env : T = Image(Sem(a), Sem(b), in.chain, i)
  BY <1>0, ImageEnds
<1>2. SUFFICES ASSUME NEW prev \in Nat
               PROVE  Right(RelOf[<<a, b, prev, i>>], T, Base(a, b), AllShared[a])
  BY <1>1 DEF RelRight
<1>3. PICK o : o = RelOf[<<a, b, prev, i>>]
  OBVIOUS
<1>4. o = RelStep(RelOf, a, b, prev, i)
  BY <1>0, <1>3, RelIs
<1>5. SUFFICES Right(o, T, Base(a, b), AllShared[a])
  BY <1>3
<1>6. Base(a, b) \in Nat /\ Base(a, b) <= NVars /\ Base(a, b) <= Top(a, b)
  BY <1>0, BaseIs
<1>7. ASSUME NEW r \in Good, o = Answer(r), Sem(r) = T, Base(a, b) <= LevelOf(r), AllShared[a] => AllShared[r]
      PROVE  Right(o, T, Base(a, b), AllShared[a])
  <2>1. o.res = r /\ o.puts = {}
    BY <1>7 DEF Answer
  <2> QED
    BY <1>7, <2>1 DEF Right
<1>8. CASE IsTrue(a) /\ IsTrue(b)
  <2>1. o = Answer(bdd_true)
    BY <1>4, <1>8 DEF RelStep
  <2>2. Sem(a) = Env /\ Sem(b) = Env /\ Sem(bdd_true) = Env /\ LevelOf(bdd_true) = NVars
    BY <1>0, <1>8, Constant
  <2>3. T = Env
    BY <1>0, <1>1, <2>2, ImageEnds
  <2> QED
    BY <1>6, <1>7, <2>1, <2>2, <2>3, TrueIs
<1>9. CASE ~(IsTrue(a) /\ IsTrue(b)) /\ (IsFalse(a) \/ IsFalse(b))
  <2>1. o = Answer(bdd_false)
    BY <1>4, <1>9 DEF RelStep
  <2>2. (Sem(a) = {} \/ Sem(b) = {}) /\ Sem(bdd_false) = {} /\ LevelOf(bdd_false) = NVars
    BY <1>0, <1>9, Constant
  <2>3. T = {}
    BY <1>0, <1>1, <2>2, ImageEnds
  <2> QED
    BY <1>6, <1>7, <2>1, <2>2, <2>3, TrueIs
<1>10. CASE ~(IsTrue(a) /\ IsTrue(b)) /\ ~(IsFalse(a) \/ IsFalse(b))
  <2>1. PICK l \in Level : l = Top(a, b) /\ l = Lower(LevelOf(a), LevelOf(b)) /\ l \in Nat
    <3>1. ~IsConst(a) \/ ~IsConst(b)
      BY <1>10 DEF IsTrue, IsFalse
    <3> QED
      BY <1>0, <3>1, TopIs DEF Top
  <2>2. PICK j : j = Skipped(l, i)
    OBVIOUS
  <2>3. /\ j \in Nat /\ i <= j /\ j <= Len(in.chain) /\ Past(b, j)
        /\ j < Len(in.chain) => j % 2 = 0 /\ (InPair(l, j) \/ l < in.chain[j + 1])
        /\ T = Image(Sem(a), Sem(b), in.chain, j)
    BY <1>1, <2>1, <2>2, Skip
  <2>4. i # Len(in.chain)
    BY <1>0
  <2>5. CASE j = Len(in.chain)
    <3>1. o = Answer(a)
      BY <1>4, <1>10, <2>1, <2>2, <2>4, <2>5 DEF RelStep
    <3>2. Sem(a) = T
      BY <1>0, <1>10, <2>3, <2>5, EndRight
    <3>3. Base(a, b) <= LevelOf(a)
      <4>1. Top(a, b) <= LevelOf(a) /\ LevelOf(a) \in Nat
        BY <1>0, TopIs, RefLevel
      <4> QED
        BY <1>6, <2>1, <4>1
    <3> QED
      BY <1>7, <3>1, <3>2, <3>3
  <2>6. CASE j # Len(in.chain)
    <3>0. j < Len(in.chain) /\ j % 2 = 0 /\ (InPair(l, j) \/ l < in.chain[j + 1])
      BY <1>0, <2>3, <2>6
    <3>1. PICK g : g = <<a, b, j>>
      OBVIOUS
    <3>2. Meaning("relnext", g, in.chain) = T
      BY <2>3, <3>1 DEF Meaning
    <3>3. CASE Hit(prev, l, "relnext", g)
      <4>1. PICK c : c = Cached("relnext", g)
        OBVIOUS
      <4>2. o = Answer(c)
        BY <1>4, <1>10, <2>1, <2>2, <2>4, <2>6, <3>1, <3>3, <4>1 DEF RelStep
      <4>3. Free(T, Base(a, b))
        <5>1. Top(a, b) \in Level /\ i <= Len(in.chain)
          BY <1>0, <2>1
        <5> QED
          BY <1>1, <5>1, ImageFree
      <4>4. c \in Good /\ AllShared[c] /\ Sem(c) = T /\ Base(a, b) <= LevelOf(c)
        <5>1. PICK op : op = "relnext"
          OBVIOUS
        <5>2. op # "satcount" /\ T = Meaning(op, g, in.chain) /\ c = Cached(op, g)
          BY <3>2, <4>1, <5>1
        <5>3. PICK n \in Nat : n = Base(a, b) /\ n <= NVars /\ Free(T, n)
          BY <1>6, <4>3
        <5> QED
          BY <5>2, <5>3, CachedRight
      <4> QED
        BY <1>7, <4>2, <4>4
    <3>4. CASE ~Hit(prev, l, "relnext", g)
      <4>1. PICK r : r = IF InPair(l, j) THEN RelPair(RelOf, a, b, l, j) ELSE RelOther(RelOf, a, b, l, j)
        OBVIOUS
      <4>2. o = Store(r, prev, l, "relnext", g, r)
        BY <1>4, <1>10, <2>1, <2>2, <2>4, <2>6, <3>1, <3>4, <4>1 DEF RelStep
      <4>3. BelowRight(l)
        BY <2>1
      <4>4. r \in Good /\ Sem(r) = T /\ Base(a, b) <= LevelOf(r) /\ (AllShared[a] => AllShared[r])
        <5>1. CASE InPair(l, j)
          <6>1. r = RelPair(RelOf, a, b, l, j)
            BY <4>1, <5>1
          <6>2. /\ r \in Good /\ Sem(r) = Image(Sem(a), Sem(b), in.chain, j) /\ Base(a, b) <= LevelOf(r)
                /\ AllShared[a] => AllShared[r]
            BY <1>0, <2>1, <2>3, <3>0, <4>3, <5>1, <6>1, PairAnswered DEF Answered
          <6> QED
            BY <2>3, <6>2
        <5>2. CASE ~InPair(l, j)
          <6>1. r = RelOther(RelOf, a, b, l, j)
            BY <4>1, <5>2
          <6>2. /\ r \in Good /\ Sem(r) = Image(Sem(a), Sem(b), in.chain, j) /\ Base(a, b) <= LevelOf(r)
                /\ AllShared[a] => AllShared[r]
            BY <1>0, <2>1, <2>3, <3>0, <4>3, <5>2, <6>1, OtherAnswered DEF Answered
          <6> QED
            BY <2>3, <6>2
        <5> QED
          BY <5>1, <5>2
      <4>5. o.res = r /\ \A p \in o.puts : p = [op |-> "relnext", args |-> g, res |-> r]
        BY <4>2 DEF Store
      <4>6. IsRight("relnext", g, r)
        BY <3>2, <4>4, InGood DEF IsRight
      <4> QED
        BY <4>4, <4>5, <4>6 DEF Right
    <3> QED
      BY <3>3, <3>4
  <2> QED
    BY <2>5, <2>6
<1> QED
  BY <1>8, <1>9, <1>10

\* bdd_relnext of states and a relation over the variables of its chain is the
\* good diagram of the states after one step, whatever variables the chain has,
\* wherever in it the call starts, and whichever lookups hit.  The diagram
\* is in the shared table if the states are, even when the relation is not.
THEOREM RelOfRight ==
  ASSUME ValidChain(in.chain)
  PROVE  \A a, b \in Good : \A i \in Nat : Ready(a, b, i) => RelRight(a, b, i)
<1> DEFINE S == {c \in Good \X Good : \A i \in Nat : Ready(c[1], c[2], i) => RelRight(c[1], c[2], i)}
<1>1. ASSUME NEW a \in Good, NEW b \in Good, BelowRight(Top(a, b)), NEW i \in Nat, Ready(a, b, i)
      PROVE  RelRight(a, b, i)
  BY <1>1, RelStepRight
<1>2. ASSUME NEW x \in Good, NEW y \in Good,
             \A p, q \in Good : Top(x, y) < Top(p, q) => <<p, q>> \in S
      PROVE  <<x, y>> \in S
  <2>1. \A p, q \in Good : Top(x, y) < Top(p, q) => \A k \in Nat : Ready(p, q, k) => RelRight(p, q, k)
    BY <1>2
  <2>3. BelowRight(Top(x, y))
    BY <2>1 DEF BelowRight
  <2>2. \A i \in Nat : Ready(x, y, i) => RelRight(x, y, i)
    BY <1>1, <2>3
  <2> QED
    BY <2>2
<1>3. \A x, y \in Good : <<x, y>> \in S
  <2> HIDE DEF S
  <2> QED
    BY <1>2, PairUpwards
<1> QED
  BY <1>3

-----------------------------------------------------------------------------
(* The calls of the program *)

\* What the program calls the operations with: diagrams for bdd_and, bdd_or,
\* bdd_diff and bdd_xor; a union for bdd_ite, the only use that bdd_relnext makes
\* of it; states and a relation over the variables of its chain for bdd_relnext.
DiagramCall(c) ==
  \/ c.op \in {"and", "or", "diff", "xor"} /\ \E a, b \in Good : c.args = <<a, b>>
  \/ c.op = "ite" /\ \E a, b \in Good : c.args = <<a, bdd_true, b>>
  \/ /\ c.op = "relnext" /\ ValidChain(c.chain)
     /\ \E a \in DiagramsOver(Even), b \in DiagramsOver({c.chain[k] : k \in 1 .. Len(c.chain)}) :
          c.args = <<a, b, 0>>

Want == Meaning(in.op, in.args, in.chain)
SharedCall == \A a \in Operands : AllShared[a]

\* A call of the program is answered right.
LEMMA DoRight ==
  ASSUME DiagramCall(in), NEW o, o = Do(in.op, in.args)
  PROVE  /\ Right(o, Want, 0, SharedCall)
         /\ Want \in SUBSET Env /\ in.op # "satcount"
<1>1. ASSUME NEW a \in Good, NEW b \in Good, in.args = <<a, b>>, in.op \in {"and", "or", "diff", "xor"}
      PROVE  /\ Right(o, Want, 0, SharedCall)
             /\ Want \in SUBSET Env /\ in.op # "satcount"
  <2>1. SharedCall => AllShared[a] /\ AllShared[b]
    <3>1. a \in Operands /\ b \in Operands
      <4>1. in.args[1] = a /\ in.args[2] = b
        BY <1>1
      <4>2. in.op # "ite" /\ in.op # "relnext"
        BY <1>1
      <4>3. 1 \in 1 .. 2 /\ 2 \in 1 .. 2
        OBVIOUS
      <4>4. Operands = {in.args[i] : i \in 1 .. 2}
        BY <4>2 DEF Operands
      <4> QED
        BY <4>1, <4>3, <4>4
    <3> QED
      BY <3>1 DEF SharedCall
  <2>2. a \in Ref /\ b \in Ref /\ Sem(a) \subseteq Env /\ Sem(b) \subseteq Env
        /\ 0 <= Top(a, b) /\ Top(a, b) \in Nat
    BY InGood, TopIs DEF Sem
  <2>3. ASSUME NEW p, NEW S, Right(p, S, Top(a, b), AllShared[a] /\ AllShared[b])
        PROVE  Right(p, S, 0, SharedCall)
    <3>1. LevelOf(p.res) \in Nat
      BY <2>3, RefLevel, InGood DEF Right
    <3> QED
      BY <2>1, <2>3, <3>1 DEF Right
  <2>4. in.args[1] = a /\ in.args[2] = b
    BY <1>1
  <2>5. CASE in.op = "and"
    <3>1. o = AndOf[<<a, b, 0>>]
      BY <2>4, <2>5 DEF Do, bdd_and
    <3>2. Want = Sem(a) \cap Sem(b)
      BY <2>4, <2>5 DEF Want, Meaning
    <3>3. Right(o, Want, Top(a, b), AllShared[a] /\ AllShared[b])
      BY <3>1, <3>2, AndOfRight DEF AndRight
    <3> QED
      BY <2>2, <2>3, <2>5, <3>2, <3>3
  <2>6. CASE in.op = "xor"
    <3>1. o = XorOf[<<a, b, 0>>]
      BY <2>4, <2>6 DEF Do, bdd_xor
    <3>2. Want = Sym(Sem(a), Sem(b))
      BY <2>4, <2>6 DEF Want, Meaning, Sym
    <3>3. Right(o, Want, Top(a, b), AllShared[a] /\ AllShared[b])
      BY <3>1, <3>2, XorOfRight DEF XorRight
    <3> QED
      BY <2>2, <2>3, <2>6, <3>2, <3>3 DEF Sym
  <2>7. CASE in.op = "or"
    <3>1. PICK r : r = bdd_or(a, b)
      OBVIOUS
    <3>2. o = Answer(r)
      BY <2>4, <2>7, <3>1 DEF Do
    <3>3. Want = Sem(a) \cup Sem(b)
      BY <2>4, <2>7 DEF Want, Meaning
    <3>4. o.res = r /\ o.puts = {}
      BY <3>2 DEF Answer
    <3>5. Right(o, Want, Top(a, b), AllShared[a] /\ AllShared[b])
      BY <3>1, <3>3, <3>4, OrCall DEF Right
    <3> QED
      BY <2>2, <2>3, <2>7, <3>3, <3>5
  <2>8. CASE in.op = "diff"
    <3>1. PICK r : r = bdd_diff(a, b)
      OBVIOUS
    <3>2. o = Answer(r)
      BY <2>4, <2>8, <3>1 DEF Do
    <3>3. Want = Sem(a) \ Sem(b)
      BY <2>4, <2>8 DEF Want, Meaning
    <3>4. o.res = r /\ o.puts = {}
      BY <3>2 DEF Answer
    <3>5. Right(o, Want, Top(a, b), AllShared[a] /\ AllShared[b])
      BY <3>1, <3>3, <3>4, DiffCall DEF Right
    <3> QED
      BY <2>2, <2>3, <2>8, <3>3, <3>5
  <2> QED
    BY <1>1, <2>5, <2>6, <2>7, <2>8
<1>2. ASSUME NEW a \in Good, NEW b \in Good, in.args = <<a, bdd_true, b>>, in.op = "ite"
      PROVE  /\ Right(o, Want, 0, SharedCall)
             /\ Want \in SUBSET Env /\ in.op # "satcount"
  <2>1. in.args[1] = a /\ in.args[2] = bdd_true /\ in.args[3] = b
    BY <1>2
  <2>2. SharedCall => AllShared[a] /\ AllShared[b]
    <3>1. Operands = {in.args[i] : i \in 1 .. 3}
      BY <1>2 DEF Operands
    <3>2. 1 \in 1 .. 3 /\ 3 \in 1 .. 3
      OBVIOUS
    <3>3. a \in Operands /\ b \in Operands
      BY <2>1, <3>1, <3>2
    <3> QED
      BY <3>3 DEF SharedCall
  <2>3. a \in Ref /\ b \in Ref /\ Sem(a) \subseteq Env /\ Sem(b) \subseteq Env
    BY InGood DEF Sem
  <2>4. PICK n \in Nat : n = 0
    OBVIOUS
  <2>5. o = bdd_ite(a, bdd_true, b, n)
    BY <1>2, <2>1, <2>4 DEF Do
  <2>6. /\ o.res \in Good /\ Sem(o.res) = Sem(a) \cup Sem(b) /\ Top(a, b) <= LevelOf(o.res)
        /\ AllShared[a] /\ AllShared[b] => AllShared[o.res]
        /\ o.puts = {}
    BY <2>5, IteOrRight
  <2>7. Want = Sem(a) \cup Sem(b)
    <3>1. Want = (Sem(a) \cap Sem(bdd_true)) \cup (Sem(b) \ Sem(a))
      BY <1>2, <2>1 DEF Want, Meaning
    <3>2. Sem(bdd_true) = Env
      BY Constant
    <3> QED
      BY <2>3, <3>1, <3>2
  <2>8. 0 <= LevelOf(o.res)
    BY <2>6, RefLevel, InGood
  <2> QED
    BY <1>2, <2>2, <2>3, <2>6, <2>7, <2>8 DEF Right
<1>3. ASSUME NEW a \in DiagramsOver(Even), NEW b \in DiagramsOver(Chained), in.args = <<a, b, 0>>,
             ValidChain(in.chain), in.op = "relnext"
      PROVE  /\ Right(o, Want, 0, SharedCall)
             /\ Want \in SUBSET Env /\ in.op # "satcount"
  <2>1. in.args[1] = a /\ in.args[2] = b /\ in.args[3] = 0
    BY <1>3
  <2>2. SharedCall => AllShared[a]
    <3>1. Operands = {in.args[i] : i \in 1 .. 1}
      BY <1>3 DEF Operands
    <3>2. a \in Operands
      BY <2>1, <3>1
    <3> QED
      BY <3>2 DEF SharedCall
  <2>3. a \in Good /\ b \in Good /\ a \in Ref /\ b \in Ref /\ Len(in.chain) \in Nat /\ 0 < Len(in.chain)
    BY <1>3, InGood DEF DiagramsOver, ValidChain
  <2>4. PICK i \in Nat : i = 0
    OBVIOUS
  <2>5. Ready(a, b, i)
    BY <1>3, <2>3, <2>4 DEF Ready, Past
  <2>6. o = RelOf[<<a, b, i, i>>]
    BY <1>3, <2>1, <2>4 DEF Do, bdd_relnext
  <2>7. Want = Image(Sem(a), Sem(b), in.chain, i)
    BY <1>3, <2>1, <2>4 DEF Want, Meaning
  <2>8. Right(o, Want, Base(a, b), AllShared[a])
    <3>1. RelRight(a, b, i)
      BY <1>3, <2>3, <2>5, RelOfRight
    <3>2. Right(RelOf[<<a, b, i, i>>], Image(Sem(a), Sem(b), in.chain, i), Base(a, b), AllShared[a])
      BY <3>1 DEF RelRight
    <3> QED
      BY <2>6, <2>7, <3>2
  <2>9. Want \in SUBSET Env
    BY <1>3, <2>3, <2>4, <2>7, ImageEnds
  <2>10. 0 <= LevelOf(o.res)
    BY <2>8, RefLevel, InGood DEF Right
  <2> QED
    BY <1>3, <2>2, <2>8, <2>9, <2>10 DEF Right
<1> QED
  BY <1>1, <1>2, <1>3 DEF DiagramCall, Chained

-----------------------------------------------------------------------------
(* The specification *)

OutRight == Done /\ DiagramCall(in) => Right(out, Want, 0, SharedCall) /\ Want \in SUBSET Env /\ in.op # "satcount"

\* The inductive invariant: a call of the program has an answer that is right.
THEOREM SpecOutRight == Spec => []OutRight
<1>1. Init => OutRight
  BY DEF Init, OutRight, Done
<1>2. ASSUME OutRight, [Next]_vars PROVE OutRight'
  <2>1. CASE driver
    <3>1. in' = in
      BY <2>1 DEF driver
    <3> SUFFICES ASSUME DiagramCall(in) PROVE OutRight'
      BY <3>1 DEF OutRight, DiagramCall
    <3>2. PICK o : o = Do(in.op, in.args) /\ out' = o
      BY <2>1 DEF driver
    <3>3. Right(o, Want, 0, SharedCall) /\ Want \in SUBSET Env /\ in.op # "satcount"
      BY <3>2, DoRight
    <3>4. Want' = Want /\ SharedCall' = SharedCall
      BY <3>1 DEF Want, SharedCall, Operands
    <3>5. Right(out, Want, 0, SharedCall)'
      BY <3>1, <3>2, <3>3, <3>4 DEF Right, IsRight
    <3> QED
      BY <3>1, <3>3, <3>4, <3>5 DEF OutRight
  <2>2. CASE UNCHANGED vars
    <3>1. in' = in /\ out' = out
      BY <2>2 DEF vars
    <3>2. Want' = Want /\ SharedCall' = SharedCall /\ Done' = Done /\ DiagramCall(in)' = DiagramCall(in)
      BY <3>1 DEF Want, SharedCall, Operands, Done
    <3> QED
      BY <1>2, <3>1, <3>2 DEF OutRight, Right, IsRight
  <2> QED
    BY <1>2, <2>1, <2>2 DEF Next
<1> QED
  BY <1>1, <1>2, PTL DEF Spec

\* The result of bdd_and, bdd_or, bdd_diff, bdd_xor, bdd_relnext, and of bdd_ite as
\* a union, means what the operation says, for any number of variables, any
\* diagrams and any granularity of the cache.
THEOREM SpecResultRight == Spec => [](DiagramCall(in) => ResultRight)
<1>1. OutRight => (DiagramCall(in) => ResultRight)
  BY InGood DEF OutRight, ResultRight, Right, IsRight, Want
<1> QED
  BY <1>1, SpecOutRight, PTL

\* What these operations leave in the cache is right for the key it is stored by.
THEOREM SpecPutsRight == Spec => [](DiagramCall(in) => PutsRight)
<1>1. OutRight => (DiagramCall(in) => PutsRight)
  BY DEF OutRight, PutsRight, Right
<1> QED
  BY <1>1, SpecOutRight, PTL

\* Their results are reduced, and bdd_false exactly when they are empty: the test
\* that ends the loop of bdd_par sees the last frontier.
THEOREM SpecResultReduced == Spec => [](DiagramCall(in) => ResultReduced)
<1>1. ASSUME OutRight, DiagramCall(in) PROVE ResultReduced
  <2> SUFFICES ASSUME Done PROVE WellFormed[out.res] /\ ((Sem(out.res) = {}) <=> IsFalse(out.res))
    BY DEF ResultReduced
  <2>1. PICK r \in Good : r = out.res
    BY <1>1 DEF OutRight, Right
  <2>2. WellFormed[r]
    BY DEF Good
  <2>3. (Sem(r) = {}) <=> IsFalse(r)
    <3>1. r \in Ref /\ (\A v \in Env : Holds[r][v] \in BOOLEAN) /\ Sem(r) \subseteq Env
      BY InGood, HoldsIs DEF Means, Sem
    <3>2. (Sem(r) = {}) <=> \A v \in Env : Holds[r][v] = FALSE
      BY <3>1, SemIs
    <3> QED
      BY <3>1, <3>2, GoodDiagrams, EmptyIsFalse
  <2> QED
    BY <2>1, <2>2, <2>3
<1> QED
  BY <1>1, SpecOutRight, PTL

\* Of operands in the shared table the result is the one diagram of its meaning:
\* equal sets have equal references, whichever way they were computed.
THEOREM SpecResultCanonical == Spec => [](DiagramCall(in) => ResultCanonical)
<1>1. ASSUME OutRight, DiagramCall(in) PROVE ResultCanonical
  <2> SUFFICES ASSUME Done, \A a \in Operands : AllShared[a] PROVE out.res = Build(Want)
    BY DEF ResultCanonical, Want
  <2>1. PICK r \in SharedGood : r = out.res /\ Sem(r) = Want
    BY <1>1 DEF OutRight, Right, SharedCall, SharedGood
  <2>2. PICK S \in SUBSET Env : S = Want
    BY <1>1 DEF OutRight
  <2>3. PICK b : b = Build(S)
    OBVIOUS
  <2>4. PICK l \in Nat : l = 0 /\ l <= NVars
    BY NVarsAssumption
  <2>5. Free(S, l)
    <3>1. ASSUME NEW v \in Env, NEW w \in Env, Agree(v, w, l) PROVE v = w
      <4>1. \A k \in Level : v[k] = w[k]
        BY <2>4, <3>1, NVarsAssumption DEF Agree, Level
      <4> QED
        BY <4>1 DEF Env
    <3> QED
      BY <3>1 DEF Free
  <2>6. b \in SharedGood /\ Sem(b) = S
    BY <2>3, <2>4, <2>5, BuildRight
  <2> QED
    BY <2>1, <2>2, <2>3, <2>6, SharedUnique
<1> QED
  BY <1>1, SpecOutRight, PTL
=============================================================================
