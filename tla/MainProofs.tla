------------------------------ MODULE MainProofs ------------------------------
(***************************************************************************)
(* Theorems about Main, for any models, any hash functions, any number of  *)
(* threads and levels, and both builds: what is loaded means what the file *)
(* says, a reference means the same on every thread, diagrams in the       *)
(* shared table are canonical, and the count of nodes is right.            *)
(*                                                                         *)
(* A memory is a local store l and the shared data s; the lemmas of the    *)
(* first half are about any memories and files, the steps of the program   *)
(* come after them.                                                        *)
(***************************************************************************)
EXTENDS Main, FiniteSetTheorems, SequenceTheorems, WellFoundedInduction, TLAPS

-----------------------------------------------------------------------------
(* References *)

\* The mark is all that changes; a mark that moves negates, or does nothing.
LEMMA Marks ==
  ASSUME NEW a \in Ref, NEW b \in Ref
  PROVE  /\ bdd_not(a) = [mark |-> ~a.mark, local |-> a.local, idx |-> a.idx]
         /\ bdd_transfermark(b, a) = [mark |-> a.mark # b.mark, local |-> a.local, idx |-> a.idx]
         /\ bdd_stripmark(a) = [mark |-> FALSE, local |-> a.local, idx |-> a.idx]
         /\ bdd_transfermark(b, a) = IF b.mark THEN bdd_not(a) ELSE a
         /\ bdd_stripmark(a) = IF a.mark THEN bdd_not(a) ELSE a
<1>0. PICK n : n = a.idx
  OBVIOUS
<1>1. PICK m \in BOOLEAN, l \in BOOLEAN : a = [mark |-> m, local |-> l, idx |-> n]
  BY <1>0 DEF Ref
<1>2. PICK k \in BOOLEAN : b.mark = k
  BY DEF Ref
<1>3. ASSUME NEW x PROVE [a EXCEPT !.mark = x] = [mark |-> x, local |-> l, idx |-> n]
  BY <1>1
<1>4. a.mark = m /\ a.local = l /\ a.idx = n
  BY <1>1
<1>5. /\ bdd_not(a) = [mark |-> ~m, local |-> l, idx |-> n]
      /\ bdd_transfermark(b, a) = [mark |-> m # k, local |-> l, idx |-> n]
      /\ bdd_stripmark(a) = [mark |-> FALSE, local |-> l, idx |-> n]
  <2>1. bdd_not(a) = [a EXCEPT !.mark = ~a.mark]
    BY DEF bdd_not
  <2>2. bdd_transfermark(b, a) = [a EXCEPT !.mark = (a.mark # b.mark)]
    BY DEF bdd_transfermark
  <2>3. bdd_stripmark(a) = [a EXCEPT !.mark = FALSE]
    BY DEF bdd_stripmark
  <2> QED
    BY <1>2, <1>3, <1>4, <2>1, <2>2, <2>3
<1>6. (m # k) = IF k THEN ~m ELSE m
  OBVIOUS
<1>7. m = IF m THEN TRUE ELSE FALSE
  OBVIOUS
<1> QED
  <2>1. CASE k
    BY <1>1, <1>2, <1>4, <1>5, <1>6, <2>1
  <2>2. CASE ~k
    BY <1>1, <1>2, <1>4, <1>5, <1>6, <2>2
  <2> QED
    BY <2>1, <2>2

LEMMA NotProps ==
  ASSUME NEW a \in Ref
  PROVE  LET b == bdd_not(a) IN
         /\ b \in Ref /\ b.mark = ~a.mark /\ b.local = a.local /\ b.idx = a.idx
         /\ IsConst(b) = IsConst(a) /\ bdd_not(b) = a
<1>1. bdd_not(a) = [mark |-> ~a.mark, local |-> a.local, idx |-> a.idx]
  BY Marks
<1>2. PICK b : b = [mark |-> ~a.mark, local |-> a.local, idx |-> a.idx]
  OBVIOUS
<1>3. b \in Ref /\ b.mark = ~a.mark /\ b.local = a.local /\ b.idx = a.idx
  BY <1>2 DEF Ref
<1>4. bdd_not(b) = [mark |-> ~b.mark, local |-> b.local, idx |-> b.idx]
  BY <1>3, Marks
<1>5. ~b.mark = a.mark
  BY <1>3 DEF Ref
<1>6. bdd_not(b) = a
  BY <1>3, <1>4, <1>5 DEF Ref
<1> QED
  BY <1>1, <1>2, <1>3, <1>6 DEF IsConst

\* A reference and its negation are at the same place.
Side(a, b) == a.local = b.local /\ a.idx = b.idx

LEMMA MovedMark ==
  ASSUME NEW a \in Ref, NEW b \in Ref
  PROVE  /\ bdd_transfermark(b, a) \in Ref /\ bdd_stripmark(a) \in Ref
         /\ Side(bdd_transfermark(b, a), a) /\ Side(bdd_stripmark(a), a)
         /\ bdd_stripmark(a).mark = FALSE
         /\ bdd_transfermark(b, bdd_transfermark(b, a)) = a
         /\ (bdd_stripmark(b) = bdd_transfermark(b, a)) = (b = a)
<1>1. bdd_not(a) \in Ref /\ bdd_not(b) \in Ref /\ bdd_not(bdd_not(a)) = a /\ bdd_not(bdd_not(b)) = b
  BY NotProps
<1>2. /\ bdd_transfermark(b, a) = IF b.mark THEN bdd_not(a) ELSE a
      /\ bdd_stripmark(a) = IF a.mark THEN bdd_not(a) ELSE a
      /\ bdd_stripmark(b) = IF b.mark THEN bdd_not(b) ELSE b
      /\ bdd_transfermark(b, bdd_not(a)) = IF b.mark THEN bdd_not(bdd_not(a)) ELSE bdd_not(a)
      /\ bdd_transfermark(a, b) = IF a.mark THEN bdd_not(b) ELSE b
      /\ bdd_transfermark(a, bdd_not(b)) = IF a.mark THEN bdd_not(bdd_not(b)) ELSE bdd_not(b)
  BY <1>1, Marks
<1>3. Side(bdd_not(a), a) /\ bdd_not(a).mark = ~a.mark /\ bdd_not(b).mark = ~b.mark
  BY NotProps DEF Side
<1>4. Side(a, a) /\ a.mark \in BOOLEAN /\ b.mark \in BOOLEAN
  BY DEF Side, Ref
<1>5. bdd_stripmark(a).mark = FALSE
  BY <1>2, <1>3, <1>4
<1>6. (bdd_not(a) = bdd_not(b)) = (a = b)
  BY <1>1
<1>7. (bdd_stripmark(b) = bdd_transfermark(b, a)) = (b = a)
  <2>1. CASE b.mark
    BY <1>2, <1>6, <2>1
  <2>2. CASE ~b.mark
    BY <1>2, <2>2
  <2> QED
    BY <2>1, <2>2
<1>8. bdd_transfermark(b, bdd_transfermark(b, a)) = a
  BY <1>1, <1>2, <1>4
<1> QED
  BY <1>1, <1>2, <1>3, <1>4, <1>5, <1>7, <1>8

\* The mark of an edge comes back with a reference that has it.
LEMMA MarkBack ==
  ASSUME NEW a \in Ref, NEW b \in Ref, a.mark = b.mark
  PROVE  bdd_transfermark(a, bdd_stripmark(b)) = b
<1>1. bdd_not(b) \in Ref /\ bdd_not(bdd_not(b)) = b
  BY NotProps
<1>2. /\ bdd_stripmark(b) = IF b.mark THEN bdd_not(b) ELSE b
      /\ bdd_transfermark(a, b) = IF a.mark THEN bdd_not(b) ELSE b
      /\ bdd_transfermark(a, bdd_not(b)) = IF a.mark THEN bdd_not(bdd_not(b)) ELSE bdd_not(b)
  BY <1>1, Marks
<1>3. CASE b.mark
  BY <1>1, <1>2, <1>3
<1>4. CASE ~b.mark
  BY <1>1, <1>2, <1>4
<1> QED
  BY <1>3, <1>4

-----------------------------------------------------------------------------
(* What a diagram means, in a memory: a local store and the shared data *)

\* Induction over the naturals, for a set instead of a predicate.
LEMMA NatSet ==
  ASSUME NEW S, 0 \in S, \A n \in Nat : n \in S => n + 1 \in S
  PROVE  \A n \in Nat : n \in S
<1> DEFINE T == Nat \ S
<1> SUFFICES ASSUME T # {} PROVE FALSE
  OBVIOUS
<1>1. \E m \in T : \A n \in T : ~(<<n, m>> \in OpToRel(<, Nat))
  <2>1. T \subseteq Nat
    OBVIOUS
  <2> HIDE DEF T
  <2> QED
    BY <2>1, NatLessThanWellFounded, WFMin
<1>2. PICK m \in T : \A n \in T : ~(<<n, m>> \in OpToRel(<, Nat))
  BY <1>1
<1>3. m \in Nat /\ m # 0 /\ m \notin S
  OBVIOUS
<1>4. m - 1 \in Nat /\ m - 1 < m /\ (m - 1) + 1 = m
  BY <1>3
<1>5. <<m - 1, m>> \in OpToRel(<, Nat)
  BY <1>3, <1>4 DEF OpToRel
<1>6. m - 1 \in S
  BY <1>2, <1>4, <1>5
<1> QED
  BY <1>3, <1>4, <1>6

\* The equation of the paths of at most n nodes, and one that holds up to m nodes.
Step(local, shared, v, w, n) ==
  [a \in Ref |-> IF n = 0 \/ IsConst(a) THEN a.mark
                 ELSE w[n - 1][Branch(At(local, shared, a), a, v)]]
WalkUpto(local, shared, v, w, m) ==
  /\ w = [n \in 0 .. NVars |-> w[n]]
  /\ \A n \in 0 .. m : w[n] = Step(local, shared, v, w, n)

LEMMA WalkExists ==
  ASSUME NEW local, NEW shared, NEW v
  PROVE  \E w : w = [n \in 0 .. NVars |-> Step(local, shared, v, w, n)]
<1> DEFINE S == {n \in Nat : n <= NVars => \E w : WalkUpto(local, shared, v, w, n)}
<1>1. 0 \in S
  <2> DEFINE w == [k \in 0 .. NVars |-> [a \in Ref |-> a.mark]]
  <2>1. w[0] = [a \in Ref |-> a.mark] /\ w = [k \in 0 .. NVars |-> w[k]]
    BY MainAssumption
  <2> HIDE DEF w
  <2>2. \A k \in 0 .. 0 : k = 0
    OBVIOUS
  <2>3. w[0] = Step(local, shared, v, w, 0)
    BY <2>1 DEF Step
  <2>4. WalkUpto(local, shared, v, w, 0)
    BY <2>1, <2>2, <2>3, Zenon DEF WalkUpto
  <2> QED
    BY <2>4
<1>2. ASSUME NEW n \in Nat, n \in S PROVE n + 1 \in S
  <2> SUFFICES ASSUME n + 1 <= NVars PROVE \E w : WalkUpto(local, shared, v, w, n + 1)
    OBVIOUS
  <2>1. PICK u : WalkUpto(local, shared, v, u, n)
    BY <1>2, MainAssumption
  <2> DEFINE w == [k \in 0 .. NVars |-> IF k = n + 1 THEN Step(local, shared, v, u, n + 1) ELSE u[k]]
  <2>2. \A k \in 0 .. n : w[k] = u[k]
    BY MainAssumption
  <2>3. w[n + 1] = Step(local, shared, v, u, n + 1) /\ w = [k \in 0 .. NVars |-> w[k]]
    BY MainAssumption
  <2> HIDE DEF w
  <2>4. ASSUME NEW k \in 0 .. n + 1 PROVE Step(local, shared, v, w, k) = Step(local, shared, v, u, k)
    <3>1. CASE k = 0
      BY <3>1 DEF Step
    <3>2. CASE k # 0
      <4>1. k - 1 \in 0 .. n
        BY <3>2
      <4>2. w[k - 1] = u[k - 1]
        BY <2>2, <4>1
      <4> QED
        BY <4>2 DEF Step
    <3> QED
      BY <3>1, <3>2
  <2>5. ASSUME NEW k \in 0 .. n + 1 PROVE w[k] = Step(local, shared, v, w, k)
    <3>1. CASE k = n + 1
      BY <2>3, <2>4, <3>1
    <3>2. CASE k # n + 1
      <4>1. k \in 0 .. n
        BY <3>2
      <4>2. u[k] = Step(local, shared, v, u, k)
        BY <2>1, <4>1 DEF WalkUpto
      <4> QED
        BY <2>2, <2>4, <4>1, <4>2
    <3> QED
      BY <3>1, <3>2
  <2> QED
    BY <2>3, <2>5 DEF WalkUpto
<1>3. NVars \in S
  <2> HIDE DEF S
  <2> QED
    BY <1>1, <1>2, NatSet, MainAssumption
<1>4. PICK w : WalkUpto(local, shared, v, w, NVars)
  BY <1>3, MainAssumption
<1>5. w = [n \in 0 .. NVars |-> Step(local, shared, v, w, n)]
  BY <1>4 DEF WalkUpto
<1> QED
  BY <1>5

LEMMA WalkIs ==
  ASSUME NEW local, NEW shared, NEW v, NEW n \in 0 .. NVars, NEW a \in Ref
  PROVE  Walk(local, shared, v)[n][a] =
           IF n = 0 \/ IsConst(a) THEN a.mark
           ELSE Walk(local, shared, v)[n - 1][Branch(At(local, shared, a), a, v)]
<1> DEFINE Is(w) == w = [k \in 0 .. NVars |-> Step(local, shared, v, w, k)]
<1>1. Walk(local, shared, v) = CHOOSE w : Is(w)
  BY DEF Walk, Step
<1>2. \E w : Is(w)
  BY WalkExists
<1>3. Is(Walk(local, shared, v))
  <2> HIDE DEF Is
  <2> QED
    BY <1>1, <1>2
<1>4. PICK w : w = Walk(local, shared, v)
  OBVIOUS
<1>5. w[n] = Step(local, shared, v, w, n)
  BY <1>3, <1>4
<1>6. w[n][a] = IF n = 0 \/ IsConst(a) THEN a.mark ELSE w[n - 1][Branch(At(local, shared, a), a, v)]
  BY <1>5 DEF Step
<1> QED
  BY <1>4, <1>6

\* References that agree with another memory on where they lead.
Agree(R, l, s, k, t) ==
  \A a \in R : /\ a \in Ref
               /\ ~IsConst(a) => \A v \in Env : /\ Branch(At(l, s, a), a, v) \in R
                                                /\ Branch(At(k, t, a), a, v) = Branch(At(l, s, a), a, v)

\* They mean the same in both.
LEMMA WalkAgree ==
  ASSUME NEW l, NEW s, NEW k, NEW t, NEW R, Agree(R, l, s, k, t)
  PROVE  \A n \in 0 .. NVars, a \in R, v \in Env : Walk(k, t, v)[n][a] = Walk(l, s, v)[n][a]
<1> DEFINE S == {n \in Nat : n <= NVars => \A a \in R, v \in Env : Walk(k, t, v)[n][a] = Walk(l, s, v)[n][a]}
<1>1. 0 \in S
  <2>1. 0 \in 0 .. NVars
    BY MainAssumption
  <2>2. ASSUME NEW a \in R, NEW v \in Env PROVE Walk(k, t, v)[0][a] = Walk(l, s, v)[0][a]
    <3>1. a \in Ref
      BY DEF Agree
    <3>2. Walk(k, t, v)[0][a] = a.mark
      BY <2>1, <3>1, WalkIs
    <3>3. Walk(l, s, v)[0][a] = a.mark
      BY <2>1, <3>1, WalkIs
    <3> QED
      BY <3>2, <3>3
  <2> QED
    BY <2>2
<1>2. ASSUME NEW n \in Nat, n \in S PROVE n + 1 \in S
  <2> SUFFICES ASSUME n + 1 <= NVars, NEW a \in R, NEW v \in Env
               PROVE  Walk(k, t, v)[n + 1][a] = Walk(l, s, v)[n + 1][a]
    OBVIOUS
  <2>1. n + 1 \in 0 .. NVars /\ n <= NVars /\ n + 1 # 0 /\ (n + 1) - 1 = n
    BY MainAssumption
  <2>2. a \in Ref
    BY DEF Agree
  <2>3. Walk(k, t, v)[n + 1][a] = IF IsConst(a) THEN a.mark
                                  ELSE Walk(k, t, v)[n][Branch(At(k, t, a), a, v)]
    BY <2>1, <2>2, WalkIs
  <2>4. Walk(l, s, v)[n + 1][a] = IF IsConst(a) THEN a.mark
                                  ELSE Walk(l, s, v)[n][Branch(At(l, s, a), a, v)]
    BY <2>1, <2>2, WalkIs
  <2>5. CASE IsConst(a)
    BY <2>3, <2>4, <2>5
  <2>6. CASE ~IsConst(a)
    <3>1. PICK b : b = Branch(At(l, s, a), a, v)
      OBVIOUS
    <3>2. b \in R /\ Branch(At(k, t, a), a, v) = b
      BY <2>6, <3>1 DEF Agree
    <3>3. Walk(k, t, v)[n][b] = Walk(l, s, v)[n][b]
      BY <1>2, <2>1, <3>2
    <3> QED
      BY <2>3, <2>4, <2>6, <3>1, <3>2, <3>3
  <2> QED
    BY <2>5, <2>6
<1>3. \A n \in Nat : n \in S
  <2> HIDE DEF S
  <2> QED
    BY <1>1, <1>2, NatSet
<1> QED
  BY <1>3, MainAssumption

-----------------------------------------------------------------------------
(* Memories whose levels are in order *)

\* A reference to an entry in use, when those of the shared table are U.
Usable(l, U, a) ==
  /\ a \in Ref
  /\ \/ IsConst(a)
     \/ a.local /\ a.idx \in LocalIndex /\ l[a.idx] # None
     \/ ~a.local /\ a.idx \in U

Depth(l, s, a) == IF IsConst(a) THEN NVars ELSE At(l, s, a).level

\* Both edges lead deeper.
GoodNode(l, s, U, n) ==
  /\ n \in Node
  /\ Usable(l, U, n.low) /\ n.level < Depth(l, s, n.low)
  /\ Usable(l, U, n.high) /\ n.level < Depth(l, s, n.high)

\* The local store is closed; the shared table has edges into both.
LocalGood(l, s) == \A i \in LocalIndex : l[i] # None => GoodNode(l, s, {}, l[i])
SharedGood(l, s, U) == U \subseteq Nat /\ \A i \in U : GoodNode(l, s, U, s[i])
Memory(l, s, U) == LocalGood(l, s) /\ SharedGood(l, s, U)

LEMMA UsableSide ==
  ASSUME NEW l, NEW s, NEW U, NEW a \in Ref, NEW b \in Ref, Side(a, b)
  PROVE  /\ IsConst(a) = IsConst(b)
         /\ Usable(l, U, a) = Usable(l, U, b)
         /\ At(l, s, a) = At(l, s, b)
         /\ Depth(l, s, a) = Depth(l, s, b)
  BY DEF Side, Usable, IsConst, Depth, At

LEMMA NodeIs ==
  ASSUME NEW l, NEW s, NEW U, Memory(l, s, U), NEW a, Usable(l, U, a), ~IsConst(a)
  PROVE  GoodNode(l, s, U, At(l, s, a))
<1>1. CASE a.local /\ a.idx \in LocalIndex /\ l[a.idx] # None
  <2>1. GoodNode(l, s, {}, l[a.idx])
    BY <1>1 DEF Memory, LocalGood
  <2>2. \A b : Usable(l, {}, b) => Usable(l, U, b)
    BY DEF Usable
  <2> QED
    BY <1>1, <2>1, <2>2 DEF GoodNode, At
<1>2. CASE ~a.local /\ a.idx \in U
  BY <1>2 DEF Memory, SharedGood, At
<1> QED
  BY <1>1, <1>2 DEF Usable

\* One step along a path.
LEMMA BranchDeeper ==
  ASSUME NEW l, NEW s, NEW U, Memory(l, s, U), NEW a, Usable(l, U, a), ~IsConst(a), NEW v
  PROVE  LET b == Branch(At(l, s, a), a, v)
         IN  Usable(l, U, b) /\ Depth(l, s, a) < Depth(l, s, b) /\ Depth(l, s, a) \in Level
<1>1. PICK n : n = At(l, s, a)
  OBVIOUS
<1>2. GoodNode(l, s, U, n)
  BY <1>1, NodeIs
<1>3. PICK c : c = IF n.level \in v THEN n.high ELSE n.low
  OBVIOUS
<1>4. Usable(l, U, c) /\ n.level < Depth(l, s, c) /\ n.level \in Level /\ c \in Ref /\ a \in Ref
  BY <1>2, <1>3 DEF GoodNode, Usable, Node
<1>5. PICK b : b = bdd_transfermark(a, c)
  OBVIOUS
<1>6. b \in Ref /\ Side(b, c)
  BY <1>4, <1>5, MovedMark
<1>7. Usable(l, U, b) /\ Depth(l, s, b) = Depth(l, s, c)
  BY <1>4, <1>6, UsableSide
<1>8. Depth(l, s, a) = n.level
  BY <1>1 DEF Depth
<1> QED
  BY <1>1, <1>3, <1>4, <1>5, <1>7, <1>8 DEF Branch

LEMMA DepthIs ==
  ASSUME NEW l, NEW s, NEW U, Memory(l, s, U), NEW a, Usable(l, U, a)
  PROVE  Depth(l, s, a) \in 0 .. NVars /\ (Depth(l, s, a) = NVars => IsConst(a))
<1>1. CASE IsConst(a)
  BY <1>1, MainAssumption DEF Depth
<1>2. CASE ~IsConst(a)
  BY <1>2, BranchDeeper, MainAssumption DEF Level
<1> QED
  BY <1>1, <1>2

\* As many nodes as there are levels below are enough.
LEMMA WalkEnough ==
  ASSUME NEW l, NEW s, NEW U, Memory(l, s, U), NEW v
  PROVE  \A n \in 0 .. NVars : \A a : Usable(l, U, a) /\ NVars - n <= Depth(l, s, a) =>
           Walk(l, s, v)[n][a] = Walk(l, s, v)[NVars][a]
<1> DEFINE Enough(n) ==
      \A m \in n .. NVars, a \in Ref : Usable(l, U, a) /\ NVars - n <= Depth(l, s, a) =>
        Walk(l, s, v)[n][a] = Walk(l, s, v)[m][a]
    S == {n \in Nat : n <= NVars => Enough(n)}
<1>1. 0 \in S
  <2> SUFFICES ASSUME NEW m \in 0 .. NVars, NEW a \in Ref, Usable(l, U, a), NVars <= Depth(l, s, a)
               PROVE  Walk(l, s, v)[0][a] = Walk(l, s, v)[m][a]
    BY MainAssumption
  <2>1. IsConst(a)
    BY DepthIs, MainAssumption
  <2>2. 0 \in 0 .. NVars
    BY MainAssumption
  <2>3. Walk(l, s, v)[0][a] = a.mark
    BY <2>2, WalkIs
  <2>4. Walk(l, s, v)[m][a] = a.mark
    BY <2>1, WalkIs
  <2> QED
    BY <2>3, <2>4
<1>2. ASSUME NEW n \in Nat, n \in S PROVE n + 1 \in S
  <2> SUFFICES ASSUME n + 1 <= NVars, NEW m \in n + 1 .. NVars, NEW a \in Ref, Usable(l, U, a),
                      NVars - (n + 1) <= Depth(l, s, a)
               PROVE  Walk(l, s, v)[n + 1][a] = Walk(l, s, v)[m][a]
    BY MainAssumption
  <2>1. /\ n + 1 \in 0 .. NVars /\ m \in 0 .. NVars /\ n <= NVars /\ n + 1 # 0 /\ (n + 1) - 1 = n
        /\ m # 0 /\ m - 1 \in n .. NVars
    BY MainAssumption
  <2>2. Walk(l, s, v)[n + 1][a] = IF IsConst(a) THEN a.mark
                                  ELSE Walk(l, s, v)[n][Branch(At(l, s, a), a, v)]
    BY <2>1, WalkIs
  <2>3. Walk(l, s, v)[m][a] = IF IsConst(a) THEN a.mark
                              ELSE Walk(l, s, v)[m - 1][Branch(At(l, s, a), a, v)]
    BY <2>1, WalkIs
  <2>4. CASE IsConst(a)
    BY <2>2, <2>3, <2>4
  <2>5. CASE ~IsConst(a)
    <3>1. PICK b : b = Branch(At(l, s, a), a, v)
      OBVIOUS
    <3>2. Usable(l, U, b) /\ Depth(l, s, a) < Depth(l, s, b)
      BY <2>5, <3>1, BranchDeeper
    <3>3. Depth(l, s, a) \in Int /\ Depth(l, s, b) \in Int
      BY <3>2, DepthIs
    <3>4. NVars - n <= Depth(l, s, b) /\ b \in Ref
      BY <3>2, <3>3, MainAssumption DEF Usable
    <3>5. Walk(l, s, v)[n][b] = Walk(l, s, v)[m - 1][b]
      BY <1>2, <2>1, <3>2, <3>4
    <3> QED
      BY <2>2, <2>3, <2>5, <3>1, <3>5
  <2> QED
    BY <2>4, <2>5
<1>3. \A n \in Nat : n \in S
  <2> HIDE DEF S
  <2> QED
    BY <1>1, <1>2, NatSet
<1> QED
  BY <1>3, MainAssumption DEF Usable

\* The meaning, unfolded once.
LEMMA WalkTop ==
  ASSUME NEW l, NEW s, NEW U, Memory(l, s, U), NEW a, Usable(l, U, a), NEW v
  PROVE  Walk(l, s, v)[NVars][a] =
           IF IsConst(a) THEN a.mark ELSE Walk(l, s, v)[NVars][Branch(At(l, s, a), a, v)]
<1>1. NVars \in 0 .. NVars /\ a \in Ref
  BY MainAssumption DEF Usable
<1>2. Walk(l, s, v)[NVars][a] = IF NVars = 0 \/ IsConst(a) THEN a.mark
                                ELSE Walk(l, s, v)[NVars - 1][Branch(At(l, s, a), a, v)]
  <2>1. PICK n \in 0 .. NVars : n = NVars
    BY <1>1
  <2>2. Walk(l, s, v)[n][a] = IF n = 0 \/ IsConst(a) THEN a.mark
                              ELSE Walk(l, s, v)[n - 1][Branch(At(l, s, a), a, v)]
    BY <1>1, WalkIs
  <2> QED
    BY <2>1, <2>2
<1>3. CASE IsConst(a)
  BY <1>2, <1>3
<1>4. CASE ~IsConst(a)
  <2>1. PICK b : b = Branch(At(l, s, a), a, v)
    OBVIOUS
  <2>2. Usable(l, U, b) /\ Depth(l, s, a) < Depth(l, s, b) /\ Depth(l, s, a) \in Level
    BY <1>4, <2>1, BranchDeeper
  <2>3. NVars # 0 /\ NVars - 1 \in 0 .. NVars /\ NVars - (NVars - 1) <= Depth(l, s, b)
    BY <2>2, DepthIs, MainAssumption DEF Level
  <2>4. Walk(l, s, v)[NVars - 1][b] = Walk(l, s, v)[NVars][b]
    BY <2>2, <2>3, WalkEnough
  <2> QED
    BY <1>2, <1>4, <2>1, <2>3, <2>4
<1> QED
  BY <1>3, <1>4

\* To negate a reference negates what it means.
LEMMA WalkNot ==
  ASSUME NEW l, NEW s, NEW U, Memory(l, s, U), NEW v
  PROVE  \A n \in 0 .. NVars : \A a : Usable(l, U, a) =>
           /\ Walk(l, s, v)[n][a] \in BOOLEAN
           /\ Walk(l, s, v)[n][bdd_not(a)] = ~Walk(l, s, v)[n][a]
<1> DEFINE Not(n) == \A a \in Ref : Usable(l, U, a) =>
                       /\ Walk(l, s, v)[n][a] \in BOOLEAN
                       /\ Walk(l, s, v)[n][bdd_not(a)] = ~Walk(l, s, v)[n][a]
    S == {n \in Nat : n <= NVars => Not(n)}
<1>1. ASSUME NEW a \in Ref, NEW n \in 0 .. NVars, n = 0 \/ IsConst(a)
      PROVE  /\ Walk(l, s, v)[n][a] \in BOOLEAN
             /\ Walk(l, s, v)[n][bdd_not(a)] = ~Walk(l, s, v)[n][a]
  <2>1. PICK b : b = bdd_not(a)
    OBVIOUS
  <2>2. b \in Ref /\ IsConst(b) = IsConst(a) /\ b.mark = ~a.mark
    BY <2>1, NotProps
  <2>3. Walk(l, s, v)[n][a] = a.mark
    BY <1>1, WalkIs
  <2>4. Walk(l, s, v)[n][b] = b.mark
    BY <1>1, <2>2, WalkIs
  <2>5. a.mark \in BOOLEAN
    BY DEF Ref
  <2> QED
    BY <2>1, <2>2, <2>3, <2>4, <2>5
<1>2. 0 \in S
  BY <1>1, MainAssumption
<1>3. ASSUME NEW n \in Nat, n \in S PROVE n + 1 \in S
  <2> SUFFICES ASSUME n + 1 <= NVars, NEW a \in Ref, Usable(l, U, a)
               PROVE  /\ Walk(l, s, v)[n + 1][a] \in BOOLEAN
                      /\ Walk(l, s, v)[n + 1][bdd_not(a)] = ~Walk(l, s, v)[n + 1][a]
    OBVIOUS
  <2>1. n + 1 \in 0 .. NVars /\ n <= NVars /\ n + 1 # 0 /\ (n + 1) - 1 = n
    BY MainAssumption
  <2>2. CASE IsConst(a)
    BY <1>1, <2>1, <2>2
  <2>3. CASE ~IsConst(a)
    <3>1. PICK b : b = bdd_not(a)
      OBVIOUS
    <3>2. b \in Ref /\ IsConst(b) = IsConst(a) /\ b.mark = ~a.mark /\ Side(b, a)
      BY <3>1, NotProps DEF Side
    <3>3. PICK m : m = At(l, s, a)
      OBVIOUS
    <3>4. At(l, s, b) = m
      BY <3>2, <3>3, UsableSide
    <3>5. PICK c : c = IF m.level \in v THEN m.high ELSE m.low
      OBVIOUS
    <3>6. Branch(m, a, v) = bdd_transfermark(a, c) /\ Branch(m, b, v) = bdd_transfermark(b, c)
      BY <3>5 DEF Branch
    <3>7. GoodNode(l, s, U, m)
      BY <2>3, <3>3, NodeIs
    <3>8. c \in Ref /\ Usable(l, U, c)
      BY <3>5, <3>7 DEF GoodNode, Node
    <3>9. /\ bdd_transfermark(a, c) = IF a.mark THEN bdd_not(c) ELSE c
          /\ bdd_transfermark(b, c) = IF b.mark THEN bdd_not(c) ELSE c
      BY <3>2, <3>8, Marks
    <3>10. /\ Walk(l, s, v)[n][c] \in BOOLEAN
           /\ Walk(l, s, v)[n][bdd_not(c)] = ~Walk(l, s, v)[n][c]
      BY <1>3, <2>1, <3>8
    <3>11. Walk(l, s, v)[n + 1][a] = Walk(l, s, v)[n][Branch(m, a, v)]
      <4>1. Walk(l, s, v)[n + 1][a] = IF n + 1 = 0 \/ IsConst(a) THEN a.mark
              ELSE Walk(l, s, v)[(n + 1) - 1][Branch(At(l, s, a), a, v)]
        BY <2>1, WalkIs
      <4> QED
        BY <2>1, <2>3, <3>3, <4>1
    <3>12. Walk(l, s, v)[n + 1][b] = Walk(l, s, v)[n][Branch(m, b, v)]
      <4>1. Walk(l, s, v)[n + 1][b] = IF n + 1 = 0 \/ IsConst(b) THEN b.mark
              ELSE Walk(l, s, v)[(n + 1) - 1][Branch(At(l, s, b), b, v)]
        BY <2>1, <3>2, WalkIs
      <4> QED
        BY <2>1, <2>3, <3>2, <3>4, <4>1
    <3>13. CASE a.mark
      BY <3>1, <3>2, <3>6, <3>9, <3>10, <3>11, <3>12, <3>13
    <3>14. CASE ~a.mark
      BY <3>1, <3>2, <3>6, <3>9, <3>10, <3>11, <3>12, <3>14
    <3> QED
      BY <3>13, <3>14
  <2> QED
    BY <2>2, <2>3
<1>4. \A n \in Nat : n \in S
  <2> HIDE DEF S
  <2> QED
    BY <1>2, <1>3, NatSet
<1> QED
  BY <1>4, MainAssumption DEF Usable

\* What a reference means in a memory.
Mean(l, s, a) == {v \in Env : Walk(l, s, v)[NVars][a]}

LEMMA SemIs ==
  \A p, a : Sem(p, a) = Mean(store[p], data, a)
  BY DEF Sem, Mean

LEMMA MeanConst ==
  ASSUME NEW l, NEW s, NEW a \in Ref, IsConst(a)
  PROVE  Mean(l, s, a) = IF a.mark THEN Env ELSE {}
<1>1. PICK n \in 0 .. NVars : n = NVars
  BY MainAssumption
<1>2. \A v \in Env : Walk(l, s, v)[n][a] = a.mark
  BY <1>1, WalkIs
<1> QED
  BY <1>1, <1>2 DEF Mean, Ref

LEMMA MeanNot ==
  ASSUME NEW l, NEW s, NEW U, Memory(l, s, U), NEW a, Usable(l, U, a)
  PROVE  Mean(l, s, bdd_not(a)) = Env \ Mean(l, s, a)
<1>1. PICK n \in 0 .. NVars : n = NVars
  BY MainAssumption
<1>2. \A v \in Env : /\ Walk(l, s, v)[n][a] \in BOOLEAN
                     /\ Walk(l, s, v)[n][bdd_not(a)] = ~Walk(l, s, v)[n][a]
  BY <1>1, WalkNot
<1> QED
  BY <1>1, <1>2 DEF Mean

LEMMA MeanMoved ==
  ASSUME NEW l, NEW s, NEW U, Memory(l, s, U), NEW a, Usable(l, U, a), NEW b \in Ref
  PROVE  Mean(l, s, bdd_transfermark(b, a)) = IF b.mark THEN Env \ Mean(l, s, a) ELSE Mean(l, s, a)
<1>1. bdd_transfermark(b, a) = IF b.mark THEN bdd_not(a) ELSE a
  BY Marks DEF Usable
<1> QED
  BY <1>1, MeanNot

\* If-then-else on the level of its node.
LEMMA MeanNode ==
  ASSUME NEW l, NEW s, NEW U, Memory(l, s, U), NEW a, Usable(l, U, a), ~IsConst(a),
         NEW n, n = At(l, s, a)
  PROVE  Mean(l, s, a) = Mux(n.level, Mean(l, s, bdd_transfermark(a, n.low)),
                                      Mean(l, s, bdd_transfermark(a, n.high)))
<1>1. \A v \in Env : Walk(l, s, v)[NVars][a] = Walk(l, s, v)[NVars][Branch(n, a, v)]
  BY WalkTop
<1>2. \A v \in Env : Branch(n, a, v) = IF n.level \in v THEN bdd_transfermark(a, n.high)
                                       ELSE bdd_transfermark(a, n.low)
  BY DEF Branch
<1> QED
  BY <1>1, <1>2 DEF Mean, Mux

LEMMA MeanAgree ==
  ASSUME NEW l, NEW s, NEW k, NEW t, NEW R, Agree(R, l, s, k, t), NEW a \in R
  PROVE  Mean(k, t, a) = Mean(l, s, a)
<1>1. PICK n \in 0 .. NVars : n = NVars
  BY MainAssumption
<1>2. \A v \in Env : Walk(k, t, v)[n][a] = Walk(l, s, v)[n][a]
  BY <1>1, WalkAgree
<1> QED
  BY <1>1, <1>2 DEF Mean

SameMark(a, b) == a.mark = b.mark

\* A node that the program makes, on top of x and y, and the reference to it.
LEMMA MeanMade ==
  ASSUME NEW l, NEW s, NEW U, Memory(l, s, U), NEW x, Usable(l, U, x), NEW y, Usable(l, U, y),
         NEW a, Usable(l, U, a), ~IsConst(a), SameMark(a, x), NEW n, n = At(l, s, a),
         n.low = bdd_stripmark(x), n.high = bdd_transfermark(x, y)
  PROVE  Mean(l, s, a) = Mux(n.level, Mean(l, s, x), Mean(l, s, y))
<1>1. a \in Ref /\ x \in Ref /\ y \in Ref
  BY DEF Usable
<1>2. bdd_transfermark(a, n.low) = x
  BY <1>1, MarkBack DEF SameMark
<1>3. bdd_transfermark(a, n.high) = y
  <2>1. bdd_transfermark(x, bdd_transfermark(x, y)) = y
    BY <1>1, MovedMark
  <2>2. bdd_transfermark(a, n.high) = bdd_transfermark(x, n.high)
    BY DEF bdd_transfermark, SameMark
  <2> QED
    BY <2>1, <2>2
<1> QED
  BY <1>2, <1>3, MeanNode

-----------------------------------------------------------------------------
(* Memories that grow *)

SameNode(m, n) == m.level = n.level /\ m.low = n.low /\ m.high = n.high

\* What is in use stays, except for the marks of the node count.
Grows(l, s, U, k, t, W) ==
  /\ \A i \in LocalIndex : l[i] # None => k[i] # None /\ SameNode(k[i], l[i])
  /\ U \subseteq W
  /\ \A i \in U : SameNode(t[i], s[i])

LEMMA GrowsAgree ==
  ASSUME NEW l, NEW s, NEW U, Memory(l, s, U), NEW k, NEW t, NEW W, Grows(l, s, U, k, t, W),
         NEW a, Usable(l, U, a)
  PROVE  /\ Usable(k, W, a)
         /\ ~IsConst(a) => SameNode(At(k, t, a), At(l, s, a))
         /\ Depth(k, t, a) = Depth(l, s, a)
<1>1. Usable(k, W, a)
  BY DEF Usable, Grows
<1>2. ASSUME ~IsConst(a) PROVE SameNode(At(k, t, a), At(l, s, a))
  BY <1>2 DEF Usable, Grows, At
<1> QED
  BY <1>1, <1>2 DEF Depth, SameNode

LEMMA GrowsMean ==
  ASSUME NEW l, NEW s, NEW U, Memory(l, s, U), NEW k, NEW t, NEW W, Grows(l, s, U, k, t, W),
         NEW a, Usable(l, U, a)
  PROVE  Mean(k, t, a) = Mean(l, s, a)
<1> DEFINE R == {b \in Ref : Usable(l, U, b)}
<1>1. ASSUME NEW b \in R PROVE b \in Ref /\ Usable(l, U, b)
  OBVIOUS
<1>2. ASSUME NEW b, b \in Ref, Usable(l, U, b) PROVE b \in R
  BY <1>2
<1> HIDE DEF R
<1>3. ASSUME NEW b \in R, ~IsConst(b), NEW v \in Env
      PROVE  /\ Branch(At(l, s, b), b, v) \in R
             /\ Branch(At(k, t, b), b, v) = Branch(At(l, s, b), b, v)
  <2>1. Usable(l, U, b)
    BY <1>1
  <2>2. SameNode(At(k, t, b), At(l, s, b))
    BY <1>3, <2>1, GrowsAgree
  <2>3. PICK c : c = Branch(At(l, s, b), b, v)
    OBVIOUS
  <2>4. Usable(l, U, c)
    BY <1>3, <2>1, <2>3, BranchDeeper
  <2>5. c \in R
    BY <1>2, <2>4 DEF Usable
  <2> QED
    BY <2>2, <2>3, <2>5 DEF SameNode, Branch
<1>4. Agree(R, l, s, k, t)
  BY <1>1, <1>3 DEF Agree
<1>5. a \in R
  BY <1>2 DEF Usable
<1> QED
  BY <1>4, <1>5, MeanAgree

LEMMA GoodGrows ==
  ASSUME NEW l, NEW s, NEW U, Memory(l, s, U), NEW k, NEW t, NEW W, Grows(l, s, U, k, t, W),
         NEW n, GoodNode(l, s, U, n), NEW m \in Node, SameNode(m, n)
  PROVE  GoodNode(k, t, W, m)
<1>1. Usable(k, W, n.low) /\ Depth(k, t, n.low) = Depth(l, s, n.low)
  BY GrowsAgree DEF GoodNode
<1>2. Usable(k, W, n.high) /\ Depth(k, t, n.high) = Depth(l, s, n.high)
  BY GrowsAgree DEF GoodNode
<1> QED
  BY <1>1, <1>2 DEF GoodNode, SameNode

LEMMA LocalMemory ==
  ASSUME NEW l, NEW s, LocalGood(l, s)
  PROVE  Memory(l, s, {})
  BY DEF Memory, SharedGood

LEMMA LocalUsable ==
  ASSUME NEW l, NEW a, Usable(l, {}, a), NEW U
  PROVE  Usable(l, U, a)
  BY DEF Usable

\* The local store grows by good nodes.
LEMMA LocalGrows ==
  ASSUME NEW l, NEW s, LocalGood(l, s), NEW k, NEW t, Grows(l, s, {}, k, t, {}),
         \A i \in LocalIndex : k[i] # None => k[i] \in Node /\ \E n : SameNode(k[i], n) /\ GoodNode(l, s, {}, n)
  PROVE  LocalGood(k, t)
<1> SUFFICES ASSUME NEW i \in LocalIndex, k[i] # None PROVE GoodNode(k, t, {}, k[i])
  BY DEF LocalGood
<1>1. PICK n : SameNode(k[i], n) /\ GoodNode(l, s, {}, n)
  OBVIOUS
<1> QED
  BY <1>1, LocalMemory, GoodGrows

LEMMA SharedGrows ==
  ASSUME NEW l, NEW s, NEW U, Memory(l, s, U), NEW k, NEW t, NEW W, Grows(l, s, U, k, t, W),
         W \subseteq Nat,
         \A i \in W : t[i] \in Node /\ \E n : SameNode(t[i], n) /\ GoodNode(l, s, U, n)
  PROVE  SharedGood(k, t, W)
<1> SUFFICES ASSUME NEW i \in W PROVE GoodNode(k, t, W, t[i])
  BY DEF SharedGood
<1>1. PICK n : SameNode(t[i], n) /\ GoodNode(l, s, U, n)
  OBVIOUS
<1> QED
  BY <1>1, GoodGrows

\* A new node on top of two references.
LEMMA NewNode ==
  ASSUME NEW x \in Ref, NEW y \in Ref, NEW k \in Level
  PROVE  LET n == NodeOf(k, x, y)
         IN  /\ n \in Node /\ n # None /\ ~n.data /\ n.level = k
             /\ n.low = bdd_stripmark(x) /\ n.high = bdd_transfermark(x, y)
<1>1. bdd_stripmark(x) \in Ref /\ bdd_transfermark(x, y) \in Ref
  BY MovedMark
<1>2. PICK p \in Ref : p = bdd_stripmark(x)
  BY <1>1
<1>3. PICK q \in Ref : q = bdd_transfermark(x, y)
  BY <1>1
<1>4. PICK n : n = [level |-> k, low |-> p, high |-> q, data |-> FALSE]
  OBVIOUS
<1>5. n \in Node /\ ~n.data /\ n.level = k /\ n.low = p /\ n.high = q
  BY <1>4 DEF Node
<1>6. n # None
  BY <1>5, EntryAssumption
<1> QED
  BY <1>2, <1>3, <1>4, <1>5, <1>6 DEF NodeOf

LEMMA NewGood ==
  ASSUME NEW l, NEW s, NEW U, NEW x, Usable(l, U, x), NEW y, Usable(l, U, y),
         NEW k \in Level, k < Depth(l, s, x), k < Depth(l, s, y)
  PROVE  GoodNode(l, s, U, NodeOf(k, x, y))
<1>1. x \in Ref /\ y \in Ref
  BY DEF Usable
<1>2. PICK n : n = NodeOf(k, x, y)
  OBVIOUS
<1>3. n \in Node /\ n.level = k /\ n.low = bdd_stripmark(x) /\ n.high = bdd_transfermark(x, y)
  BY <1>1, <1>2, NewNode
<1>4. n.low \in Ref /\ Side(n.low, x) /\ n.high \in Ref /\ Side(n.high, y)
  <2>1. bdd_stripmark(x) \in Ref /\ Side(bdd_stripmark(x), x)
    BY <1>1, MovedMark
  <2>2. bdd_transfermark(x, y) \in Ref /\ Side(bdd_transfermark(x, y), y)
    BY <1>1, MovedMark
  <2> QED
    BY <1>3, <2>1, <2>2
<1>5. Usable(l, U, n.low) /\ Depth(l, s, n.low) = Depth(l, s, x)
  BY <1>1, <1>4, UsableSide
<1>6. Usable(l, U, n.high) /\ Depth(l, s, n.high) = Depth(l, s, y)
  BY <1>1, <1>4, UsableSide
<1> QED
  BY <1>2, <1>3, <1>5, <1>6 DEF GoodNode

LEMMA LocalReference ==
  ASSUME NEW x \in Ref, NEW i \in LocalIndex, NEW a, a = Reference(x, TRUE, i)
  PROVE  a \in Ref /\ SameMark(a, x) /\ a.local /\ a.idx = i
  BY DEF Reference, Ref, SameMark

LEMMA SharedReference ==
  ASSUME NEW x \in Ref, NEW i \in 0 .. TableSize - 1, NEW a, a = Reference(x, FALSE, i)
  PROVE  a \in Ref /\ SameMark(a, x) /\ ~a.local /\ a.idx = i
  BY DEF Reference, Ref, SameMark

-----------------------------------------------------------------------------
(* Files *)

Numbers(f) == 1 .. Len(f.nodes)

LEMMA FileFacts ==
  ASSUME NEW f, WellWritten(f)
  PROVE  /\ Len(f.nodes) \in Nat
         /\ \A k \in Numbers(f) :
              LET n == f.nodes[k] IN
              /\ n.level \in Level /\ n.comp \in BOOLEAN
              /\ n.low \in 0 .. k - 1 /\ n.high \in 0 .. k - 1
              /\ n.low # 0 => n.level < f.nodes[n.low].level
              /\ n.high # 0 => n.level < f.nodes[n.high].level
<1>1. f.nodes \in Seq([level : Level, low : Nat, high : Nat, comp : BOOLEAN])
  BY DEF WellWritten
<1>2. Len(f.nodes) \in Nat /\ \A k \in Numbers(f) : f.nodes[k] \in [level : Level, low : Nat, high : Nat, comp : BOOLEAN]
  <2>1. PICK T : T = [level : Level, low : Nat, high : Nat, comp : BOOLEAN]
    OBVIOUS
  <2>2. f.nodes \in Seq(T)
    BY <1>1, <2>1
  <2> QED
    BY <2>1, <2>2, ElementOfSeq, LenProperties DEF Numbers
<1>3. ASSUME NEW k \in Numbers(f)
      PROVE  LET n == f.nodes[k] IN
              /\ n.level \in Level /\ n.comp \in BOOLEAN
              /\ n.low \in 0 .. k - 1 /\ n.high \in 0 .. k - 1
              /\ n.low # 0 => n.level < f.nodes[n.low].level
              /\ n.high # 0 => n.level < f.nodes[n.high].level
  <2>1. PICK n \in [level : Level, low : Nat, high : Nat, comp : BOOLEAN] : n = f.nodes[k]
    BY <1>2
  <2>2. n.low \in Nat /\ n.high \in Nat /\ n.level \in Level /\ n.comp \in BOOLEAN
    OBVIOUS
  <2>3. \A child \in {n.low, n.high} : child < k /\ (child # 0 => n.level < f.nodes[child].level)
    BY <2>1 DEF WellWritten, Numbers
  <2>4. k \in Nat
    BY <1>2 DEF Numbers
  <2> QED
    BY <2>1, <2>2, <2>3, <2>4
<1> QED
  BY <1>2, <1>3

\* The equation of FileWalk.
FileStep(f, v, w, k) ==
  /\ k # 0
  /\ LET n == f.nodes[k]
     IN  IF n.level \in v THEN w[n.high] # n.comp ELSE w[n.low]
FileUpto(f, v, w, m) ==
  /\ w = [k \in 0 .. Len(f.nodes) |-> w[k]]
  /\ \A k \in 0 .. m : w[k] = FileStep(f, v, w, k)

LEMMA FileLocal ==
  ASSUME NEW f, WellWritten(f), NEW v, NEW k \in 0 .. Len(f.nodes), NEW w, NEW u,
         \A j \in 0 .. k - 1 : w[j] = u[j]
  PROVE  FileStep(f, v, w, k) = FileStep(f, v, u, k)
<1>1. CASE k = 0
  BY <1>1 DEF FileStep
<1>2. CASE k # 0
  <2>1. k \in Numbers(f)
    BY <1>2, FileFacts DEF Numbers
  <2>2. f.nodes[k].low \in 0 .. k - 1 /\ f.nodes[k].high \in 0 .. k - 1
    BY <2>1, FileFacts
  <2>3. w[f.nodes[k].low] = u[f.nodes[k].low] /\ w[f.nodes[k].high] = u[f.nodes[k].high]
    BY <2>2
  <2> QED
    BY <2>3 DEF FileStep
<1> QED
  BY <1>1, <1>2

\* One more number of a file.
FileFrom(f, v, w, u) == u = [k \in 0 .. Len(f.nodes) |-> FileStep(f, v, w, k)]
LEMMA FileMore ==
  ASSUME NEW f, WellWritten(f), NEW v, NEW n \in Nat, n <= Len(f.nodes),
         NEW w, n = 0 \/ FileUpto(f, v, w, n - 1), NEW u, FileFrom(f, v, w, u)
  PROVE  FileUpto(f, v, u, n)
<1>1. Len(f.nodes) \in Nat
  BY FileFacts
<1>2. ASSUME NEW k \in 0 .. n PROVE u[k] = FileStep(f, v, u, k)
  <2>1. k \in 0 .. Len(f.nodes)
    BY <1>1
  <2>2. ASSUME NEW j \in 0 .. k - 1 PROVE w[j] = u[j]
    <3>1. n # 0 /\ j \in 0 .. n - 1 /\ j \in 0 .. Len(f.nodes)
      BY <1>1
    <3>2. w[j] = FileStep(f, v, w, j)
      BY <3>1 DEF FileUpto
    <3>3. u[j] = FileStep(f, v, w, j)
      BY <3>1 DEF FileFrom
    <3> QED
      BY <3>2, <3>3
  <2>3. FileStep(f, v, w, k) = FileStep(f, v, u, k)
    BY <2>1, <2>2, FileLocal
  <2>4. u[k] = FileStep(f, v, w, k)
    BY <2>1 DEF FileFrom
  <2> QED
    BY <2>3, <2>4
<1>3. u = [k \in 0 .. Len(f.nodes) |-> u[k]]
  BY DEF FileFrom
<1> QED
  BY <1>2, <1>3 DEF FileUpto

LEMMA FileExists ==
  ASSUME NEW f, WellWritten(f), NEW v
  PROVE  \E w : w = [k \in 0 .. Len(f.nodes) |-> FileStep(f, v, w, k)]
<1> DEFINE S == {n \in Nat : n <= Len(f.nodes) => \E w : FileUpto(f, v, w, n)}
<1>1. Len(f.nodes) \in Nat
  BY FileFacts
<1>2. 0 \in S
  <2>1. PICK w : w = << >>
    OBVIOUS
  <2>2. PICK u : FileFrom(f, v, w, u)
    BY DEF FileFrom
  <2>3. PICK n \in Nat : n = 0
    OBVIOUS
  <2>4. FileUpto(f, v, u, n)
    <3>1. n <= Len(f.nodes)
      BY <1>1, <2>3
    <3> QED
      BY <2>2, <2>3, <3>1, FileMore
  <2> QED
    BY <2>3, <2>4
<1>3. ASSUME NEW n \in Nat, n \in S PROVE n + 1 \in S
  <2> SUFFICES ASSUME n + 1 <= Len(f.nodes) PROVE \E w : FileUpto(f, v, w, n + 1)
    OBVIOUS
  <2>1. PICK w : FileUpto(f, v, w, n)
    BY <1>1, <1>3
  <2>2. PICK u : FileFrom(f, v, w, u)
    BY DEF FileFrom
  <2>3. PICK m \in Nat : m = n + 1
    OBVIOUS
  <2>4. m - 1 = n /\ m <= Len(f.nodes)
    BY <2>3
  <2>5. FileUpto(f, v, w, m - 1)
    BY <2>1, <2>4
  <2>6. FileUpto(f, v, u, m)
    BY <2>2, <2>4, <2>5, FileMore
  <2> QED
    BY <2>3, <2>6
<1>4. Len(f.nodes) \in S
  <2> HIDE DEF S
  <2> QED
    BY <1>1, <1>2, <1>3, NatSet
<1>5. PICK w : FileUpto(f, v, w, Len(f.nodes))
  BY <1>1, <1>4
<1>6. w = [k \in 0 .. Len(f.nodes) |-> FileStep(f, v, w, k)]
  BY <1>5 DEF FileUpto
<1> QED
  BY <1>6

LEMMA FileWalkIs ==
  ASSUME NEW f, WellWritten(f), NEW v
  PROVE  \A k \in 0 .. Len(f.nodes) : /\ FileWalk(f, v)[k] = FileStep(f, v, FileWalk(f, v), k)
                                      /\ FileWalk(f, v)[k] \in BOOLEAN
<1> DEFINE Is(w) == w = [k \in 0 .. Len(f.nodes) |-> FileStep(f, v, w, k)]
<1>1. FileWalk(f, v) = CHOOSE w : Is(w)
  BY DEF FileWalk, FileStep
<1>2. \E w : Is(w)
  BY FileExists
<1>3. Is(FileWalk(f, v))
  <2> HIDE DEF Is
  <2> QED
    BY <1>1, <1>2
<1>4. PICK w : w = FileWalk(f, v)
  OBVIOUS
<1>5. \A k \in 0 .. Len(f.nodes) : w[k] = FileStep(f, v, w, k)
  BY <1>3, <1>4
<1> DEFINE S == {n \in Nat : \A k \in 0 .. n : k <= Len(f.nodes) => w[k] \in BOOLEAN}
<1>6. 0 \in S
  <2>1. 0 \in 0 .. Len(f.nodes) /\ \A k \in 0 .. 0 : k = 0
    BY FileFacts
  <2>2. w[0] = FALSE
    BY <1>5, <2>1 DEF FileStep
  <2> QED
    BY <2>1, <2>2
<1>7. ASSUME NEW n \in Nat, n \in S PROVE n + 1 \in S
  <2> SUFFICES ASSUME n + 1 <= Len(f.nodes) PROVE w[n + 1] \in BOOLEAN
    BY <1>7
  <2>1. n + 1 \in Numbers(f) /\ n + 1 \in 0 .. Len(f.nodes) /\ (n + 1) - 1 = n /\ n + 1 # 0
    BY FileFacts DEF Numbers
  <2>2. PICK m : m = f.nodes[n + 1]
    OBVIOUS
  <2>3. m.low \in 0 .. n
    BY <2>1, <2>2, FileFacts
  <2>4. w[m.low] \in BOOLEAN
    BY <1>7, <2>1, <2>3
  <2>5. w[n + 1] = IF m.level \in v THEN w[m.high] # m.comp ELSE w[m.low]
    BY <1>5, <2>1, <2>2, <2>4 DEF FileStep
  <2> QED
    BY <2>4, <2>5
<1>8. \A n \in Nat : n \in S
  <2> HIDE DEF S
  <2> QED
    BY <1>6, <1>7, NatSet
<1>9. \A k \in 0 .. Len(f.nodes) : w[k] \in BOOLEAN
  BY <1>8, FileFacts
<1> QED
  BY <1>4, <1>5, <1>9

\* What a number means, in terms of its children.
LEMMA FileSemZero ==
  ASSUME NEW f, WellWritten(f), NEW mark \in BOOLEAN
  PROVE  FileSem(f, mark, 0) = IF mark THEN Env ELSE {}
<1>1. 0 \in 0 .. Len(f.nodes)
  BY FileFacts
<1>2. ASSUME NEW v \in Env PROVE FileWalk(f, v)[0] = FALSE
  <2>1. PICK w : w = FileWalk(f, v)
    OBVIOUS
  <2>2. w[0] = FileStep(f, v, w, 0)
    BY <1>1, <2>1, FileWalkIs
  <2> QED
    BY <2>1, <2>2 DEF FileStep
<1> QED
  BY <1>2 DEF FileSem

LEMMA FileSemMark ==
  ASSUME NEW f, WellWritten(f), NEW k \in 0 .. Len(f.nodes), NEW mark \in BOOLEAN
  PROVE  FileSem(f, mark, k) = IF mark THEN Env \ FileSem(f, FALSE, k) ELSE FileSem(f, FALSE, k)
<1>1. \A v \in Env : FileWalk(f, v)[k] \in BOOLEAN
  BY FileWalkIs
<1> QED
  BY <1>1 DEF FileSem

LEMMA FileSemNode ==
  ASSUME NEW f, WellWritten(f), NEW k \in Numbers(f)
  PROVE  FileSem(f, FALSE, k) =
           Mux(f.nodes[k].level, FileSem(f, FALSE, f.nodes[k].low),
                                 FileSem(f, f.nodes[k].comp, f.nodes[k].high))
<1>1. PICK n : n = f.nodes[k]
  OBVIOUS
<1>2. k \in 0 .. Len(f.nodes) /\ k # 0
  BY FileFacts DEF Numbers
<1>3. n.low \in 0 .. Len(f.nodes) /\ n.comp \in BOOLEAN
  <2>1. n.low \in 0 .. k - 1 /\ n.comp \in BOOLEAN
    BY <1>1, FileFacts
  <2> QED
    BY <1>2, <2>1
<1>4. ASSUME NEW v \in Env
      PROVE  /\ FileWalk(f, v)[k] = IF n.level \in v THEN FileWalk(f, v)[n.high] # n.comp
                                    ELSE FileWalk(f, v)[n.low]
             /\ FileWalk(f, v)[n.low] \in BOOLEAN
  <2>1. PICK w : w = FileWalk(f, v)
    OBVIOUS
  <2>2. w[k] = FileStep(f, v, w, k) /\ w[n.low] \in BOOLEAN
    BY <1>2, <1>3, <2>1, FileWalkIs
  <2> QED
    BY <1>1, <1>2, <2>1, <2>2 DEF FileStep
<1>5. FileSem(f, FALSE, k) = {v \in Env : FileWalk(f, v)[k]}
  <2>1. \A v \in Env : FileWalk(f, v)[k] \in BOOLEAN
    BY <1>2, FileWalkIs
  <2> QED
    BY <2>1 DEF FileSem
<1>6. FileSem(f, FALSE, n.low) = {v \in Env : FileWalk(f, v)[n.low]}
  BY <1>4 DEF FileSem
<1> QED
  BY <1>1, <1>4, <1>5, <1>6 DEF Mux, FileSem

-----------------------------------------------------------------------------
(* Chains *)

Chains == Seq(Level) \X Seq(Level)
Both(c) == Len(c[1]) + Len(c[2])
Swapped(c) == <<c[2], Tail(c[1])>>
TurnStep(f, c) == IF c[1] = << >> THEN c[2] ELSE <<Head(c[1])>> \o f[Swapped(c)]
TurnUpto(f, n) ==
  /\ f = [c \in Chains |-> f[c]]
  /\ \A c \in Chains : Both(c) <= n => f[c] = TurnStep(f, c)

LEMMA Shorter ==
  ASSUME NEW c \in Chains
  PROVE  Both(c) \in Nat /\ (c[1] # << >> => Swapped(c) \in Chains /\ Both(Swapped(c)) = Both(c) - 1)
<1>1. PICK a \in Seq(Level), b \in Seq(Level) : c = <<a, b>>
  BY DEF Chains
<1>2. c[1] = a /\ c[2] = b
  BY <1>1
<1>3. Len(a) \in Nat /\ Len(b) \in Nat
  OBVIOUS
<1>4. ASSUME a # << >> PROVE Tail(a) \in Seq(Level) /\ Len(Tail(a)) = Len(a) - 1
  BY <1>4, HeadTailProperties
<1>5. ASSUME a # << >> PROVE Swapped(c) \in Chains /\ Both(Swapped(c)) = Both(c) - 1
  <2>1. PICK t \in Seq(Level) : t = Tail(a) /\ Len(t) = Len(a) - 1
    BY <1>4, <1>5
  <2>2. Swapped(c) = <<b, t>>
    BY <1>2, <2>1 DEF Swapped
  <2>3. <<b, t>> \in Chains /\ <<b, t>>[1] = b /\ <<b, t>>[2] = t
    BY DEF Chains
  <2> QED
    BY <1>2, <1>3, <2>1, <2>2, <2>3 DEF Both
<1>6. Both(c) \in Nat
  BY <1>2, <1>3 DEF Both
<1> QED
  BY <1>2, <1>5, <1>6

LEMMA TurnLocal ==
  ASSUME NEW c \in Chains, NEW f, NEW g, \A d \in Chains : Both(d) < Both(c) => f[d] = g[d]
  PROVE  TurnStep(f, c) = TurnStep(g, c)
<1>1. c[1] # << >> => Swapped(c) \in Chains /\ Both(Swapped(c)) < Both(c)
  BY Shorter
<1> QED
  BY <1>1 DEF TurnStep

LEMMA TurnSome ==
  \A n \in Nat : \E f : TurnUpto(f, n)
<1> DEFINE S == {n \in Nat : \E f : TurnUpto(f, n)}
<1>1. ASSUME NEW f, NEW n \in Nat, NEW g, g = [c \in Chains |-> TurnStep(f, c)],
             n = 0 \/ TurnUpto(f, n - 1)
      PROVE  TurnUpto(g, n)
  <2>1. ASSUME NEW c \in Chains, Both(c) <= n PROVE g[c] = TurnStep(g, c)
    <3>1. ASSUME NEW d \in Chains, Both(d) < Both(c) PROVE f[d] = g[d]
      <4>1. Both(c) \in Nat /\ Both(d) \in Nat
        BY Shorter
      <4>2. n # 0 /\ Both(d) <= n - 1
        BY <2>1, <3>1, <4>1
      <4> QED
        BY <1>1, <4>2 DEF TurnUpto
    <3>2. TurnStep(f, c) = TurnStep(g, c)
      BY <3>1, TurnLocal
    <3> QED
      BY <1>1, <3>2
  <2>2. g = [c \in Chains |-> g[c]]
    BY <1>1
  <2> QED
    BY <2>1, <2>2 DEF TurnUpto
<1>2. 0 \in S
  <2>1. PICK f : f = << >>
    OBVIOUS
  <2>2. PICK g : g = [c \in Chains |-> TurnStep(f, c)]
    OBVIOUS
  <2>3. TurnUpto(g, 0)
    BY <1>1, <2>2
  <2> QED
    BY <2>3
<1>3. ASSUME NEW n \in Nat, n \in S PROVE n + 1 \in S
  <2>1. PICK f : TurnUpto(f, n)
    BY <1>3
  <2>2. PICK g : g = [c \in Chains |-> TurnStep(f, c)]
    OBVIOUS
  <2>3. n + 1 \in Nat /\ (n + 1) - 1 = n
    OBVIOUS
  <2>4. TurnUpto(g, n + 1)
    BY <1>1, <2>1, <2>2, <2>3
  <2> QED
    BY <2>3, <2>4
<1>4. \A n \in Nat : n \in S
  <2> HIDE DEF S
  <2> QED
    BY <1>2, <1>3, NatSet
<1> QED
  BY <1>4

LEMMA TurnUnique ==
  ASSUME NEW f, NEW m \in Nat, TurnUpto(f, m), NEW g, NEW k \in Nat, TurnUpto(g, k)
  PROVE  \A c \in Chains : Both(c) <= m /\ Both(c) <= k => f[c] = g[c]
<1> DEFINE S == {n \in Nat : \A c \in Chains : Both(c) <= n /\ Both(c) <= m /\ Both(c) <= k => f[c] = g[c]}
<1>1. ASSUME NEW c \in Chains, Both(c) <= m, Both(c) <= k,
             \A d \in Chains : Both(d) < Both(c) => f[d] = g[d]
      PROVE  f[c] = g[c]
  BY <1>1, TurnLocal DEF TurnUpto
<1>2. 0 \in S
  <2> SUFFICES ASSUME NEW c \in Chains, Both(c) <= 0, Both(c) <= m, Both(c) <= k PROVE f[c] = g[c]
    OBVIOUS
  <2>1. \A d \in Chains : ~(Both(d) < Both(c))
    BY Shorter
  <2> QED
    BY <1>1, <2>1
<1>3. ASSUME NEW n \in Nat, n \in S PROVE n + 1 \in S
  <2> SUFFICES ASSUME NEW c \in Chains, Both(c) <= n + 1, Both(c) <= m, Both(c) <= k PROVE f[c] = g[c]
    OBVIOUS
  <2>1. ASSUME NEW d \in Chains, Both(d) < Both(c) PROVE f[d] = g[d]
    <3>1. Both(c) \in Nat /\ Both(d) \in Nat
      BY Shorter
    <3>2. Both(d) <= n /\ Both(d) <= m /\ Both(d) <= k
      BY <2>1, <3>1
    <3> QED
      BY <1>3, <3>2
  <2> QED
    BY <1>1, <2>1
<1>4. \A n \in Nat : n \in S
  <2> HIDE DEF S
  <2> QED
    BY <1>2, <1>3, NatSet
<1> QED
  BY <1>4, Shorter

LEMMA TurnExists ==
  \E f : f = [c \in Chains |-> TurnStep(f, c)]
<1> DEFINE Some(n) == CHOOSE f : TurnUpto(f, n)
<1>1. \A n \in Nat : TurnUpto(Some(n), n)
  BY TurnSome
<1> HIDE DEF Some
<1>2. PICK g : g = [c \in Chains |-> Some(Both(c))[c]]
  OBVIOUS
<1>3. ASSUME NEW c \in Chains PROVE g[c] = TurnStep(g, c)
  <2>1. PICK f : f = Some(Both(c))
    OBVIOUS
  <2>2. Both(c) \in Nat /\ TurnUpto(f, Both(c))
    BY <1>1, <2>1, Shorter
  <2>3. f[c] = TurnStep(f, c)
    BY <2>2 DEF TurnUpto
  <2>4. ASSUME NEW d \in Chains, Both(d) < Both(c) PROVE f[d] = g[d]
    <3>1. PICK h : h = Some(Both(d))
      OBVIOUS
    <3>2. Both(d) \in Nat /\ TurnUpto(h, Both(d))
      BY <1>1, <3>1, Shorter
    <3>3. f[d] = h[d]
      BY <2>2, <2>4, <3>2, TurnUnique
    <3> QED
      BY <1>2, <3>1, <3>3
  <2>5. TurnStep(f, c) = TurnStep(g, c)
    BY <2>4, TurnLocal
  <2> QED
    BY <1>2, <2>1, <2>3, <2>5
<1>4. g = [c \in Chains |-> TurnStep(g, c)]
  BY <1>2, <1>3
<1> QED
  BY <1>4

LEMMA TurnsIs ==
  ASSUME NEW a \in Seq(Level), NEW b \in Seq(Level)
  PROVE  interleave_chains[<<a, b>>] =
           IF a = << >> THEN b ELSE <<Head(a)>> \o interleave_chains[<<b, Tail(a)>>]
<1> DEFINE Is(f) == f = [c \in Chains |-> TurnStep(f, c)]
<1>1. interleave_chains = CHOOSE f : Is(f)
  BY DEF interleave_chains, Chains, TurnStep, Swapped
<1>2. \E f : Is(f)
  BY TurnExists
<1>3. Is(interleave_chains)
  <2> HIDE DEF Is
  <2> QED
    BY <1>1, <1>2
<1>4. <<a, b>> \in Chains /\ <<a, b>>[1] = a /\ <<a, b>>[2] = b
  BY DEF Chains
<1>5. interleave_chains[<<a, b>>] = TurnStep(interleave_chains, <<a, b>>)
  BY <1>3, <1>4
<1> QED
  BY <1>4, <1>5 DEF TurnStep, Swapped

\* Nothing to take turns with.
LEMMA TurnsAlone ==
  ASSUME NEW a \in Seq(Level)
  PROVE  interleave_chains[<<a, << >> >>] = a
<1>1. << >> \in Seq(Level)
  OBVIOUS
<1>2. CASE a = << >>
  BY <1>1, <1>2, TurnsIs
<1>3. CASE a # << >>
  <2>1. Tail(a) \in Seq(Level) /\ a = <<Head(a)>> \o Tail(a)
    BY <1>3, HeadTailProperties
  <2>2. interleave_chains[<< << >>, Tail(a)>>] = Tail(a)
    BY <1>1, <2>1, TurnsIs
  <2> QED
    BY <1>1, <1>3, <2>1, <2>2, TurnsIs
<1> QED
  BY <1>2, <1>3

\* As many of each: one and then the other.
InTurn(chain, a, b) ==
  /\ chain \in Seq(Level) /\ Len(chain) = 2 * Len(a)
  /\ \A j \in 1 .. Len(a) : chain[2 * j - 1] = a[j] /\ chain[2 * j] = b[j]

LEMMA TurnsRight ==
  \A a, b \in Seq(Level) : Len(a) = Len(b) => InTurn(interleave_chains[<<a, b>>], a, b)
<1> DEFINE S == {n \in Nat : \A a, b \in Seq(Level) :
                   Len(a) = n /\ Len(b) = n => InTurn(interleave_chains[<<a, b>>], a, b)}
<1>1. 0 \in S
  <2> SUFFICES ASSUME NEW a \in Seq(Level), NEW b \in Seq(Level), Len(a) = 0, Len(b) = 0
               PROVE  InTurn(interleave_chains[<<a, b>>], a, b)
    OBVIOUS
  <2>1. a = << >> /\ b = << >>
    BY EmptySeq
  <2>2. interleave_chains[<<a, b>>] = << >>
    BY <2>1, TurnsIs
  <2> QED
    BY <2>1, <2>2 DEF InTurn
<1>2. ASSUME NEW n \in Nat, n \in S PROVE n + 1 \in S
  <2> SUFFICES ASSUME NEW a \in Seq(Level), NEW b \in Seq(Level), Len(a) = n + 1, Len(b) = n + 1
               PROVE  InTurn(interleave_chains[<<a, b>>], a, b)
    OBVIOUS
  <2>1. a # << >> /\ b # << >>
    OBVIOUS
  <2>2. PICK p \in Seq(Level) : p = Tail(a) /\ Len(p) = n /\ \A j \in 1 .. n : p[j] = a[j + 1]
    <3>1. /\ Tail(a) \in Seq(Level) /\ Len(Tail(a)) = n
          /\ \A j \in 1 .. n : Tail(a)[j] = a[j + 1]
      BY <2>1
    <3> QED
      BY <3>1
  <2>3. PICK q \in Seq(Level) : q = Tail(b) /\ Len(q) = n /\ \A j \in 1 .. n : q[j] = b[j + 1]
    <3>1. /\ Tail(b) \in Seq(Level) /\ Len(Tail(b)) = n
          /\ \A j \in 1 .. n : Tail(b)[j] = b[j + 1]
      BY <2>1
    <3> QED
      BY <3>1
  <2>4. PICK x \in Level : x = Head(a) /\ x = a[1]
    BY <2>1, HeadTailProperties
  <2>5. PICK y \in Level : y = Head(b) /\ y = b[1]
    BY <2>1, HeadTailProperties
  <2>6. PICK d : d = interleave_chains[<<p, q>>]
    OBVIOUS
  <2>7. d \in Seq(Level) /\ Len(d) = 2 * n /\ \A j \in 1 .. n : d[2 * j - 1] = p[j] /\ d[2 * j] = q[j]
    <3>1. InTurn(interleave_chains[<<p, q>>], p, q)
      BY <1>2, <2>2, <2>3
    <3> QED
      BY <2>2, <2>6, <3>1 DEF InTurn
  <2>8. interleave_chains[<<b, p>>] = <<y>> \o d
    BY <2>1, <2>3, <2>5, <2>6, TurnsIs, ZenonT(40)
  <2>9. interleave_chains[<<a, b>>] = <<x>> \o (<<y>> \o d)
    BY <2>1, <2>2, <2>4, <2>8, TurnsIs, ZenonT(40)
  <2>10. PICK e : e = <<x>> \o (<<y>> \o d)
    OBVIOUS
  <2>11. /\ e \in Seq(Level) /\ Len(e) = 2 * n + 2 /\ e[1] = x /\ e[2] = y
         /\ \A k \in 1 .. 2 * n : e[k + 2] = d[k]
    BY <2>7, <2>10
  <2>12. ASSUME NEW j \in 1 .. n + 1 PROVE e[2 * j - 1] = a[j] /\ e[2 * j] = b[j]
    <3>1. CASE j = 1
      BY <2>4, <2>5, <2>11, <3>1
    <3>2. CASE j # 1
      <4>1. PICK i \in 1 .. n : j = i + 1
        BY <3>2
      <4>2. /\ 2 * i - 1 \in 1 .. 2 * n /\ 2 * i \in 1 .. 2 * n
            /\ 2 * j - 1 = (2 * i - 1) + 2 /\ 2 * j = 2 * i + 2
        BY <4>1
      <4>3. e[2 * j - 1] = d[2 * i - 1] /\ e[2 * j] = d[2 * i]
        BY <2>11, <4>2
      <4>4. d[2 * i - 1] = p[i] /\ d[2 * i] = q[i] /\ p[i] = a[j] /\ q[i] = b[j]
        BY <2>2, <2>3, <2>7, <4>1
      <4> QED
        BY <4>3, <4>4
    <3> QED
      BY <3>1, <3>2
  <2> QED
    BY <2>9, <2>10, <2>11, <2>12 DEF InTurn
<1>3. \A n \in Nat : n \in S
  <2> HIDE DEF S
  <2> QED
    BY <1>1, <1>2, NatSet
<1> QED
  BY <1>3, LenProperties

-----------------------------------------------------------------------------
(* The reading of a file *)

LEMMA MinIs ==
  ASSUME NEW S \in SUBSET Nat, S # {}
  PROVE  Min(S) \in S /\ \A y \in S : Min(S) <= y
<1>1. \E x \in S : \A y \in S : x <= y
  <2> SUFFICES ASSUME \A x \in S : \E y \in S : ~(x <= y) PROVE FALSE
    OBVIOUS
  <2> DEFINE T == {n \in Nat : \A y \in S : n <= y}
  <2>1. 0 \in T
    OBVIOUS
  <2>2. ASSUME NEW n \in Nat, n \in T PROVE n + 1 \in T
    <3>1. n \notin S
      BY <2>2
    <3>2. \A y \in S : n <= y /\ n # y
      BY <2>2, <3>1
    <3> QED
      BY <3>2
  <2>3. \A n \in Nat : n \in T
    <3> HIDE DEF T
    <3> QED
      BY <2>1, <2>2, NatSet
  <2>4. PICK y \in S : y \in Nat
    OBVIOUS
  <2>5. y + 1 \in T
    BY <2>3, <2>4
  <2> QED
    BY <2>4, <2>5
<1> QED
  BY <1>1 DEF Min

\* The lookup in the local store ends at a free entry or at the node.
LEMMA PlaceIs ==
  ASSUME NEW l, NEW n \in Node, NEW s \in Seeds, LocalRoom(l, n, s)
  PROVE  LET i == LocalPlace(l, n, s) IN i \in LocalIndex /\ (l[i] = None \/ l[i] = n)
<1>1. PICK S : S = LocalStop(l, n, s)
  OBVIOUS
<1>2. S \in SUBSET Nat /\ S # {} /\ \A i \in S : l[LocalEntry(n, s, i)] \in {None, n}
  BY <1>1 DEF LocalRoom, LocalStop, LocalIndex
<1>3. PICK m \in S : m = Min(S)
  BY <1>2, MinIs
<1>4. LocalHash(n, s) \in Nat
  BY EntryAssumption
<1>5. LocalEntry(n, s, m) \in LocalIndex
  <2>1. PICK h \in Nat : h = LocalHash(n, s)
    BY <1>4
  <2>2. PICK z \in Nat : z = h + m
    BY <1>2, <1>3
  <2>3. z % LocalSize \in 0 .. LocalSize - 1
    BY LocalAssumption
  <2> QED
    BY <2>1, <2>2, <2>3 DEF LocalEntry, LocalIndex
<1> QED
  BY <1>1, <1>2, <1>3, <1>5 DEF LocalPlace

\* What is read next, after the references and the local store x.
After(f, s, x) ==
  LET m == f.nodes[Len(x.refs) + 1]
      n == NodeFrom(x.refs, m)
      i == LocalPlace(x.store, n, s)
  IN  IF Low(x.refs, m) = High(x.refs, m)
      THEN [refs |-> Append(x.refs, Low(x.refs, m)), store |-> x.store]
      ELSE [refs |-> Append(x.refs, Reference(Low(x.refs, m), TRUE, i)),
            store |-> [x.store EXCEPT ![i] = n]]
Before == [refs |-> << >>, store |-> [i \in LocalIndex |-> None]]

Run(f, s, h, k) == h[0] = Before /\ \A j \in 0 .. k - 1 : h[j + 1] = After(f, s, h[j])

\* The first k numbers of the file leave x.
Leaves(f, s, k, x) == \E h : Run(f, s, h, k) /\ h[k] = x

LEMMA LeavesFirst ==
  ASSUME NEW f, NEW s
  PROVE  Leaves(f, s, 0, Before)
<1>1. PICK h : h = [j \in {0} |-> Before]
  OBVIOUS
<1>2. h[0] = Before
  BY <1>1
<1> QED
  BY <1>2 DEF Leaves, Run

LEMMA LeavesNext ==
  ASSUME NEW f, NEW s, NEW k \in Nat, NEW x, Leaves(f, s, k, x)
  PROVE  Leaves(f, s, k + 1, After(f, s, x))
<1>1. PICK h : Run(f, s, h, k) /\ h[k] = x
  BY DEF Leaves
<1>2. PICK g : g = [j \in 0 .. k + 1 |-> IF j = k + 1 THEN After(f, s, x) ELSE h[j]]
  OBVIOUS
<1>3. g[k + 1] = After(f, s, x) /\ \A j \in 0 .. k : g[j] = h[j]
  BY <1>2
<1>4. ASSUME NEW j \in 0 .. k PROVE g[j + 1] = After(f, s, g[j])
  <2>1. CASE j = k
    BY <1>1, <1>3, <2>1
  <2>2. CASE j # k
    <3>1. j \in 0 .. k - 1 /\ j + 1 \in 0 .. k
      BY <2>2
    <3> QED
      BY <1>1, <1>3, <3>1 DEF Run
  <2> QED
    BY <2>1, <2>2
<1>5. g[0] = Before
  BY <1>1, <1>3 DEF Run
<1>6. (k + 1) - 1 = k
  OBVIOUS
<1> QED
  BY <1>3, <1>4, <1>5, <1>6 DEF Leaves, Run

\* There is one outcome, on every thread.
LEMMA LeavesSame ==
  ASSUME NEW f, NEW s, NEW k \in Nat, NEW x, Leaves(f, s, k, x), NEW y, Leaves(f, s, k, y)
  PROVE  x = y
<1>1. PICK h : Run(f, s, h, k) /\ h[k] = x
  BY DEF Leaves
<1>2. PICK g : Run(f, s, g, k) /\ g[k] = y
  BY DEF Leaves
<1> DEFINE S == {n \in Nat : n <= k => h[n] = g[n]}
<1>3. 0 \in S
  BY <1>1, <1>2 DEF Run
<1>4. ASSUME NEW n \in Nat, n \in S PROVE n + 1 \in S
  <2> SUFFICES ASSUME n + 1 <= k PROVE h[n + 1] = g[n + 1]
    OBVIOUS
  <2>1. n \in 0 .. k - 1 /\ n <= k
    OBVIOUS
  <2> QED
    BY <1>1, <1>2, <1>4, <2>1 DEF Run
<1>5. \A n \in Nat : n \in S
  <2> HIDE DEF S
  <2> QED
    BY <1>3, <1>4, NatSet
<1> QED
  BY <1>1, <1>2, <1>5

\* What a number of the file has become.
NumberRight(f, l, s, a, k) ==
  /\ Usable(l, {}, a) /\ a.mark = FALSE
  /\ ~a.local => IsConst(a) /\ FileSem(f, FALSE, k) = {}
  /\ f.nodes[k].level <= Depth(l, s, a)
  /\ l[0] = None => Mean(l, s, a) = FileSem(f, FALSE, k)
NumbersRight(f, l, s, rs) == \A k \in 1 .. Len(rs) : NumberRight(f, l, s, rs[k], k)

\* The same of a number with a mark.
ChildRight(f, l, s, a, mark, k) ==
  /\ Usable(l, {}, a) /\ a.mark = mark
  /\ ~a.local => IsConst(a) /\ FileSem(f, FALSE, k) = {}
  /\ k # 0 => f.nodes[k].level <= Depth(l, s, a)
  /\ k = 0 => IsConst(a)
  /\ ~a.local \/ l[0] = None => Mean(l, s, a) = FileSem(f, mark, k)

LEMMA ConstantIs ==
  ASSUME NEW mark \in BOOLEAN
  PROVE  LET a == [bdd_false EXCEPT !.mark = mark]
         IN  a = [mark |-> mark, local |-> FALSE, idx |-> 0] /\ a \in Ref /\ IsConst(a)
<1>1. PICK a : a = [mark |-> mark, local |-> FALSE, idx |-> 0]
  OBVIOUS
<1>2. [bdd_false EXCEPT !.mark = mark] = a
  <2>1. PICK b : b = bdd_false
    OBVIOUS
  <2>2. PICK o : o = FALSE
    OBVIOUS
  <2>3. b = [mark |-> o, local |-> o, idx |-> 0]
    BY <2>1, <2>2 DEF bdd_false
  <2>4. ASSUME NEW x PROVE [b EXCEPT !.mark = x] = [mark |-> x, local |-> o, idx |-> 0]
    BY <2>3
  <2> QED
    BY <1>1, <2>1, <2>2, <2>4
<1>3. 0 \in LocalIndex
  BY LocalAssumption DEF LocalIndex
<1>4. a \in Ref /\ IsConst(a)
  BY <1>1, <1>3 DEF Ref, IsConst
<1> QED
  BY <1>1, <1>2, <1>4

LEMMA ReversedIs ==
  ASSUME NEW rs, NEW k, k # 0, NEW a \in Ref, a = rs[k], a.mark = FALSE
  PROVE  /\ GetReversed(rs, FALSE, k) = a
         /\ GetReversed(rs, TRUE, k) = bdd_not(a)
<1>1. PICK l \in BOOLEAN : a = [mark |-> FALSE, local |-> l, idx |-> a.idx]
  BY DEF Ref
<1>2. GetReversed(rs, FALSE, k) = [a EXCEPT !.mark = (FALSE # FALSE)]
  BY DEF GetReversed, bdd_transfermark
<1>3. GetReversed(rs, TRUE, k) = [a EXCEPT !.mark = (FALSE # TRUE)]
  BY DEF GetReversed, bdd_transfermark
<1>4. bdd_not(a) = [a EXCEPT !.mark = ~FALSE]
  BY DEF bdd_not
<1>5. [a EXCEPT !.mark = FALSE] = a
  BY <1>1
<1> QED
  BY <1>2, <1>3, <1>4, <1>5

LEMMA ReversedRight ==
  ASSUME NEW f, WellWritten(f), NEW l, NEW s, LocalGood(l, s), NEW rs, Len(rs) <= Len(f.nodes),
         Len(rs) \in Nat, NumbersRight(f, l, s, rs), NEW mark \in BOOLEAN, NEW k \in 0 .. Len(rs)
  PROVE  ChildRight(f, l, s, GetReversed(rs, mark, k), mark, k)
<1>1. CASE k = 0
  <2>1. PICK a : a = [bdd_false EXCEPT !.mark = mark]
    OBVIOUS
  <2>2. a = [mark |-> mark, local |-> FALSE, idx |-> 0] /\ a \in Ref /\ IsConst(a)
    BY <2>1, ConstantIs
  <2>3. GetReversed(rs, mark, k) = a
    BY <1>1, <2>1 DEF GetReversed
  <2>4. Mean(l, s, a) = IF mark THEN Env ELSE {}
    BY <2>2, MeanConst
  <2>5. FileSem(f, mark, k) = (IF mark THEN Env ELSE {}) /\ FileSem(f, FALSE, k) = {}
    BY <1>1, FileSemZero
  <2>6. a.mark = mark /\ ~a.local
    BY <2>2
  <2>7. Usable(l, {}, a) /\ Mean(l, s, a) = FileSem(f, mark, k) /\ FileSem(f, FALSE, k) = {}
    BY <2>2, <2>4, <2>5 DEF Usable
  <2> QED
    BY <1>1, <2>2, <2>3, <2>6, <2>7 DEF ChildRight
<1>2. CASE k # 0
  <2>1. PICK a : a = rs[k]
    OBVIOUS
  <2>2. NumberRight(f, l, s, a, k)
    BY <1>2, <2>1 DEF NumbersRight
  <2>3. a \in Ref /\ Usable(l, {}, a) /\ a.mark = FALSE
    BY <2>2 DEF NumberRight, Usable
  <2>4. PICK b : b = GetReversed(rs, mark, k)
    OBVIOUS
  <2>5. b = IF mark THEN bdd_not(a) ELSE a
    BY <1>2, <2>1, <2>3, <2>4, ReversedIs, ZenonT(40)
  <2>6. b \in Ref /\ Side(b, a) /\ b.mark = mark
    BY <2>3, <2>5, NotProps DEF Side
  <2>7. Usable(l, {}, b) /\ Depth(l, s, b) = Depth(l, s, a) /\ IsConst(b) = IsConst(a) /\ b.local = a.local
    BY <2>3, <2>6, UsableSide DEF Side
  <2>8. Mean(l, s, b) = IF mark THEN Env \ Mean(l, s, a) ELSE Mean(l, s, a)
    BY <2>3, <2>5, LocalMemory, MeanNot
  <2>9. FileSem(f, mark, k) = IF mark THEN Env \ FileSem(f, FALSE, k) ELSE FileSem(f, FALSE, k)
    <3>1. k \in 0 .. Len(f.nodes)
      BY FileFacts
    <3> QED
      BY <3>1, FileSemMark
  <2>10. IsConst(a) => Mean(l, s, a) = {}
    BY <2>3, MeanConst
  <2> QED
    BY <1>2, <2>2, <2>4, <2>6, <2>7, <2>8, <2>9, <2>10 DEF ChildRight, NumberRight
<1> QED
  BY <1>1, <1>2

\* The two children of the next node.
LEMMA ChildrenRight ==
  ASSUME NEW f, WellWritten(f), NEW l, NEW s, LocalGood(l, s), NEW rs, Len(rs) < Len(f.nodes),
         Len(rs) \in Nat, NumbersRight(f, l, s, rs), NEW m, m = f.nodes[Len(rs) + 1]
  PROVE  /\ ChildRight(f, l, s, Low(rs, m), FALSE, m.low) /\ m.level < Depth(l, s, Low(rs, m))
         /\ ChildRight(f, l, s, High(rs, m), m.comp, m.high) /\ m.level < Depth(l, s, High(rs, m))
         /\ m.level \in Level
<1>1. Len(rs) + 1 \in Numbers(f) /\ (Len(rs) + 1) - 1 = Len(rs)
  BY FileFacts DEF Numbers
<1>2. /\ m.level \in Level /\ m.comp \in BOOLEAN
      /\ m.low \in 0 .. Len(rs) /\ m.high \in 0 .. Len(rs)
      /\ m.low # 0 => m.level < f.nodes[m.low].level
      /\ m.high # 0 => m.level < f.nodes[m.high].level
  BY <1>1, FileFacts
<1>3. ASSUME NEW k \in 0 .. Len(rs), k # 0 => m.level < f.nodes[k].level,
             NEW mark \in BOOLEAN, NEW a, ChildRight(f, l, s, a, mark, k)
      PROVE  m.level < Depth(l, s, a)
  <2>1. CASE k = 0
    BY <1>2, <1>3, <2>1, MainAssumption DEF ChildRight, Depth, Level
  <2>2. CASE k # 0
    <3>1. k \in Numbers(f)
      BY <2>2, FileFacts DEF Numbers
    <3>2. f.nodes[k].level \in Level
      BY <3>1, FileFacts
    <3>3. Depth(l, s, a) \in 0 .. NVars
      BY <1>3, LocalMemory, DepthIs DEF ChildRight
    <3> QED
      BY <1>2, <1>3, <2>2, <3>2, <3>3, MainAssumption DEF ChildRight, Level
  <2> QED
    BY <2>1, <2>2
<1>4. ChildRight(f, l, s, Low(rs, m), FALSE, m.low)
  <2>1. PICK o \in BOOLEAN : o = FALSE
    OBVIOUS
  <2>2. ChildRight(f, l, s, GetReversed(rs, o, m.low), o, m.low)
    BY <1>2, ReversedRight
  <2> QED
    BY <2>1, <2>2 DEF Low
<1>5. High(rs, m) = GetReversed(rs, m.comp, m.high)
  <2>1. CASE ~m.comp
    BY <1>2, <2>1 DEF High
  <2>2. CASE m.comp
    <3>1. High(rs, m) = [GetReversed(rs, FALSE, m.high) EXCEPT !.mark = TRUE]
      BY <2>2 DEF High
    <3>2. CASE m.high = 0
      <4>1. PICK b : b = [bdd_false EXCEPT !.mark = FALSE]
        OBVIOUS
      <4>2. b = [mark |-> FALSE, local |-> FALSE, idx |-> 0]
        BY <4>1, ConstantIs
      <4>3. [b EXCEPT !.mark = TRUE] = [mark |-> TRUE, local |-> FALSE, idx |-> 0]
        <5>1. PICK o : o = FALSE
          OBVIOUS
        <5>2. b = [mark |-> o, local |-> o, idx |-> 0]
          BY <4>2, <5>1
        <5>3. ASSUME NEW x PROVE [b EXCEPT !.mark = x] = [mark |-> x, local |-> o, idx |-> 0]
          BY <5>2
        <5> QED
          BY <5>1, <5>3
      <4>4. GetReversed(rs, TRUE, m.high) = [mark |-> TRUE, local |-> FALSE, idx |-> 0]
        <5>1. GetReversed(rs, TRUE, m.high) = [bdd_false EXCEPT !.mark = TRUE]
          BY <3>2 DEF GetReversed
        <5>2. TRUE \in BOOLEAN
          OBVIOUS
        <5> QED
          BY <5>1, <5>2, ConstantIs
      <4>5. GetReversed(rs, FALSE, m.high) = b
        BY <3>2, <4>1 DEF GetReversed
      <4> QED
        BY <1>2, <2>2, <3>1, <4>3, <4>4, <4>5
    <3>3. CASE m.high # 0
      <4>1. PICK a : a = rs[m.high]
        OBVIOUS
      <4>2. NumberRight(f, l, s, a, m.high)
        BY <1>2, <3>3, <4>1 DEF NumbersRight
      <4>3. a \in Ref /\ a.mark = FALSE
        BY <4>2 DEF NumberRight, Usable
      <4>4. GetReversed(rs, FALSE, m.high) = a /\ GetReversed(rs, TRUE, m.high) = bdd_not(a)
        BY <3>3, <4>1, <4>3, ReversedIs, ZenonT(40)
      <4>5. bdd_not(a) = [a EXCEPT !.mark = TRUE]
        BY <4>3 DEF bdd_not
      <4> QED
        BY <1>2, <2>2, <3>1, <4>4, <4>5
    <3> QED
      BY <3>2, <3>3
  <2> QED
    BY <2>1, <2>2
<1>6. ChildRight(f, l, s, High(rs, m), m.comp, m.high)
  BY <1>2, <1>5, ReversedRight
<1>7. m.level < Depth(l, s, Low(rs, m)) /\ m.level < Depth(l, s, High(rs, m))
  BY <1>2, <1>3, <1>4, <1>6
<1> QED
  BY <1>2, <1>4, <1>6, <1>7

\* Numbers stay right while the store grows.
LEMMA NumberGrows ==
  ASSUME NEW f, NEW l, NEW s, LocalGood(l, s), NEW k, NEW t, Grows(l, s, {}, k, t, {}),
         k[0] = None => l[0] = None, NEW a, NEW n, NumberRight(f, l, s, a, n)
  PROVE  NumberRight(f, k, t, a, n)
<1>1. Usable(l, {}, a) /\ Memory(l, s, {})
  BY LocalMemory DEF NumberRight
<1>2. Usable(k, {}, a) /\ Depth(k, t, a) = Depth(l, s, a)
  BY <1>1, GrowsAgree
<1>3. Mean(k, t, a) = Mean(l, s, a)
  BY <1>1, GrowsMean
<1> QED
  BY <1>2, <1>3 DEF NumberRight

\* The next number is right when both its children are the same.
LEMMA EqualRight ==
  ASSUME NEW f, WellWritten(f), NEW l, NEW s, LocalGood(l, s), NEW rs \in Seq(Ref), Len(rs) < Len(f.nodes),
         NumbersRight(f, l, s, rs), NEW m, m = f.nodes[Len(rs) + 1], Low(rs, m) = High(rs, m)
  PROVE  NumberRight(f, l, s, Low(rs, m), Len(rs) + 1) /\ Low(rs, m) \in Ref
<1>1. Len(rs) \in Nat
  OBVIOUS
<1>2. PICK a : a = Low(rs, m)
  OBVIOUS
<1>3. /\ ChildRight(f, l, s, a, FALSE, m.low) /\ m.level < Depth(l, s, a)
      /\ ChildRight(f, l, s, a, m.comp, m.high) /\ m.level \in Level
  BY <1>1, <1>2, ChildrenRight
<1>4. Usable(l, {}, a) /\ a \in Ref /\ a.mark = FALSE /\ m.comp = FALSE
  BY <1>3 DEF ChildRight, Usable
<1>5. PICK k : k = Len(rs) + 1
  OBVIOUS
<1>6. k \in Numbers(f) /\ k # 0
  BY <1>1, <1>5, FileFacts DEF Numbers
<1>7. FileSem(f, FALSE, k) = Mux(m.level, FileSem(f, FALSE, m.low), FileSem(f, m.comp, m.high))
  BY <1>5, <1>6, FileSemNode
<1>8. \A S \in SUBSET Env : Mux(m.level, S, S) = S
  BY DEF Mux
<1>9. Mean(l, s, a) \in SUBSET Env
  BY DEF Mean
<1>10. ~a.local \/ l[0] = None => Mean(l, s, a) = FileSem(f, FALSE, k)
  BY <1>3, <1>4, <1>7, <1>8, <1>9 DEF ChildRight
<1>11. ~a.local => IsConst(a) /\ FileSem(f, FALSE, k) = {}
  BY <1>3, <1>4, <1>10, MeanConst DEF ChildRight
<1>12. Depth(l, s, a) \in 0 .. NVars
  BY <1>4, LocalMemory, DepthIs
<1>13. f.nodes[k].level <= Depth(l, s, a)
  BY <1>3, <1>5, <1>12, MainAssumption DEF Level
<1>14. NumberRight(f, l, s, a, k)
  BY <1>4, <1>10, <1>11, <1>13 DEF NumberRight
<1> QED
  BY <1>2, <1>4, <1>5, <1>14

\* A reference to a node of the local store.
LEMMA LocalMade ==
  ASSUME NEW l, NEW s, LocalGood(l, s), NEW x, Usable(l, {}, x), NEW y, Usable(l, {}, y),
         NEW a, Usable(l, {}, a), ~IsConst(a), SameMark(a, x), NEW n, n = At(l, s, a),
         n.low = bdd_stripmark(x), n.high = bdd_transfermark(x, y)
  PROVE  Mean(l, s, a) = Mux(n.level, Mean(l, s, x), Mean(l, s, y))
<1>1. PICK U : U = {}
  OBVIOUS
<1>2. Memory(l, s, U) /\ Usable(l, U, x) /\ Usable(l, U, y) /\ Usable(l, U, a)
  BY <1>1, LocalMemory
<1> QED
  BY <1>2, MeanMade

\* And when its node n is found in the local store, or put there.
Puts(rs, m, l, i, n, k, a) ==
  /\ n = NodeFrom(rs, m)
  /\ l[i] = None \/ l[i] = n
  /\ k = [l EXCEPT ![i] = n]
  /\ a = Reference(Low(rs, m), TRUE, i)

LEMMA PutRight ==
  ASSUME NEW f, WellWritten(f), NEW l \in [LocalIndex -> Node \cup {None}], NEW s, LocalGood(l, s),
         NEW rs \in Seq(Ref), Len(rs) < Len(f.nodes),
         NumbersRight(f, l, s, rs), NEW m, m = f.nodes[Len(rs) + 1],
         NEW i \in LocalIndex, NEW n, NEW k, NEW a, Puts(rs, m, l, i, n, k, a)
  PROVE  /\ k \in [LocalIndex -> Node \cup {None}] /\ Grows(l, s, {}, k, s, {}) /\ LocalGood(k, s)
         /\ k[0] = None => l[0] = None
         /\ a \in Ref /\ NumberRight(f, k, s, a, Len(rs) + 1)
<1>1. Len(rs) \in Nat
  OBVIOUS
<1>2. PICK x : x = Low(rs, m)
  OBVIOUS
<1>3. PICK y : y = High(rs, m)
  OBVIOUS
<1>4. /\ ChildRight(f, l, s, x, FALSE, m.low) /\ m.level < Depth(l, s, x)
      /\ ChildRight(f, l, s, y, m.comp, m.high) /\ m.level < Depth(l, s, y)
      /\ m.level \in Level
  BY <1>1, <1>2, <1>3, ChildrenRight
<1>5. Usable(l, {}, x) /\ Usable(l, {}, y) /\ x \in Ref /\ y \in Ref /\ x.mark = FALSE
  BY <1>4 DEF ChildRight, Usable
<1>6. n = NodeOf(m.level, x, y)
  BY <1>2, <1>3 DEF NodeFrom, Puts
<1>7. /\ n \in Node /\ n # None /\ n.level = m.level
      /\ n.low = bdd_stripmark(x) /\ n.high = bdd_transfermark(x, y)
  BY <1>4, <1>5, <1>6, NewNode
<1>8. GoodNode(l, s, {}, n)
  BY <1>4, <1>5, <1>6, NewGood
<1>9. k[i] = n /\ (\A j \in LocalIndex : j # i => k[j] = l[j]) /\ (l[i] = None \/ l[i] = n)
  BY DEF Puts
<1>10. k \in [LocalIndex -> Node \cup {None}]
  BY <1>7 DEF Puts
<1>11. Grows(l, s, {}, k, s, {})
  BY <1>7, <1>9 DEF Grows, SameNode
<1>12. LocalGood(k, s)
  <2>1. ASSUME NEW j \in LocalIndex, k[j] # None
        PROVE  k[j] \in Node /\ \E o : SameNode(k[j], o) /\ GoodNode(l, s, {}, o)
    <3>1. CASE j = i
      BY <1>7, <1>8, <1>9, <3>1 DEF SameNode
    <3>2. CASE j # i
      <4>1. k[j] = l[j] /\ l[j] # None /\ l[j] \in Node
        BY <1>9, <2>1, <3>2
      <4>2. GoodNode(l, s, {}, l[j])
        BY <4>1 DEF LocalGood
      <4> QED
        BY <4>1, <4>2 DEF SameNode
    <3> QED
      BY <3>1, <3>2
  <2> QED
    BY <1>11, <2>1, LocalGrows
<1>13. 0 \in LocalIndex
  BY LocalAssumption DEF LocalIndex
<1>14. k[0] = None => l[0] = None
  BY <1>7, <1>9, <1>13
<1>15. a \in Ref /\ SameMark(a, x) /\ a.local /\ a.idx = i
  <2>1. a = Reference(x, TRUE, i)
    BY <1>2 DEF Puts
  <2>2. x \in Ref
    BY <1>5
  <2> QED
    BY <2>1, <2>2, LocalReference
<1>16. Usable(k, {}, a)
  BY <1>7, <1>9, <1>15 DEF Usable
<1>17. Depth(k, s, a) \in 0 .. NVars /\ m.level <= Depth(k, s, a)
  <2>1. Depth(k, s, a) \in 0 .. NVars
    BY <1>12, <1>16, LocalMemory, DepthIs
  <2>2. Depth(k, s, a) = NVars \/ Depth(k, s, a) = m.level
    BY <1>7, <1>9, <1>15 DEF Depth, At
  <2>3. PICK d : d = Depth(k, s, a)
    OBVIOUS
  <2>4. PICK e \in Level : e = m.level
    BY <1>4
  <2>5. d \in 0 .. NVars /\ (d = NVars \/ d = e)
    BY <2>1, <2>2, <2>3, <2>4
  <2>6. e <= d
    BY <2>4, <2>5, MainAssumption DEF Level
  <2> QED
    BY <2>3, <2>4, <2>5, <2>6
<1>18. PICK q : q = Len(rs) + 1
  OBVIOUS
<1>19. ASSUME k[0] = None PROVE Mean(k, s, a) = FileSem(f, FALSE, q)
  <2>1. l[0] = None /\ i # 0
    BY <1>7, <1>9, <1>14, <1>19
  <2>2. ~IsConst(a) /\ At(k, s, a) = n
    BY <1>9, <1>15, <2>1 DEF IsConst, At
  <2>3. Memory(k, s, {}) /\ Memory(l, s, {})
    BY <1>12, LocalMemory
  <2>4. Usable(k, {}, x) /\ Usable(k, {}, y)
    BY <1>5, <1>11, <2>3, GrowsAgree
  <2>5. Mean(k, s, x) = Mean(l, s, x) /\ Mean(k, s, y) = Mean(l, s, y)
    BY <1>5, <1>11, <2>3, GrowsMean
  <2>6. Mean(k, s, a) = Mux(m.level, Mean(k, s, x), Mean(k, s, y))
    <3>1. /\ Usable(k, {}, x) /\ Usable(k, {}, y) /\ Usable(k, {}, a) /\ Memory(k, s, {})
          /\ ~IsConst(a) /\ SameMark(a, x)
          /\ n.low = bdd_stripmark(x) /\ n.high = bdd_transfermark(x, y)
      BY <1>7, <1>15, <1>16, <2>2, <2>3, <2>4
    <3>2. n = At(k, s, a)
      BY <2>2
    <3>3. Mean(k, s, a) = Mux(n.level, Mean(k, s, x), Mean(k, s, y))
      BY <1>12, <3>1, <3>2, LocalMade
    <3> QED
      BY <1>7, <3>3
  <2>7. Mean(l, s, x) = FileSem(f, FALSE, m.low) /\ Mean(l, s, y) = FileSem(f, m.comp, m.high)
    BY <1>4, <2>1 DEF ChildRight
  <2>8. q \in Numbers(f)
    BY <1>1, <1>18, FileFacts DEF Numbers
  <2>9. FileSem(f, FALSE, q) = Mux(m.level, FileSem(f, FALSE, m.low), FileSem(f, m.comp, m.high))
    BY <1>18, <2>8, FileSemNode
  <2> QED
    BY <2>5, <2>6, <2>7, <2>9
<1>20. NumberRight(f, k, s, a, Len(rs) + 1)
  <2>1. a.mark = FALSE /\ a.local
    BY <1>5, <1>15 DEF SameMark
  <2> QED
    BY <1>16, <1>17, <1>18, <1>19, <2>1 DEF NumberRight
<1> QED
  BY <1>10, <1>11, <1>12, <1>14, <1>15, <1>20

-----------------------------------------------------------------------------
(* The inductive invariant *)

\* The same nodes at the same entries, whatever their marks.
Alike(l, k) ==
  \A i \in LocalIndex : (l[i] = None) = (k[i] = None) /\ (l[i] # None => SameNode(l[i], k[i]))

Phases == {"load", "mark", "unmark", "compute", "search", "finish"}
Sections == 1 .. Len(file.sections)

\* At all times.
Start ==
  /\ file \in Files /\ seed \in Seeds /\ build \in Builds
  /\ item \in Nat /\ pc \in [Thread -> Phases]
  /\ pc[0] = "load" => item = 0
  /\ item > Len(file.sections) => held = {} /\ pc[0] \in {"mark", "unmark", "finish"}

\* Until the search is over: where each thread is,
PhaseOK ==
  /\ pc[0] # "finish" /\ (pc[0] # "load" => item > 0)
  /\ pc[0] \in {"compute", "search"} => item = Len(file.sections)
  /\ \A p \in Thread : /\ p # 0 => pc[p] \in {"load", "compute", "search"}
                       /\ (pc[p] = "search") = (pc[0] = "search")

\* what it has read,
LocalOK(p) ==
  /\ refs[p] \in Seq(Ref) /\ Len(refs[p]) <= Len(file.nodes)
  /\ store[p] \in [LocalIndex -> Node \cup {None}]
  /\ LocalGood(store[p], data)
  /\ NumbersRight(file, store[p], data, refs[p])

\* that every other reads the same,
LeavesOK(p) ==
  \E l : /\ Leaves(file, seed, Len(refs[p]), [refs |-> refs[p], store |-> l])
         /\ Alike(store[p], l)
         /\ pc[p] = "load" => store[p] = l

\* section by section,
RootsOK(p) ==
  /\ roots[p] \in Seq([bdd : Ref, chain : Seq(Level)])
  /\ Len(roots[p]) <= Len(file.sections)
  /\ (pc[p] = "load") = (Len(roots[p]) < Len(file.sections))
  /\ pc[p] # "load" => Len(refs[p]) = Len(file.nodes)
  /\ \A i \in 1 .. Len(roots[p]) :
       /\ file.sections[i].last <= Len(refs[p])
       /\ roots[p][i] = Loaded(refs[p], file.sections[i])

\* that the count stays in the local store,
CountOK ==
  pc[0] \in {"mark", "unmark"} =>
    /\ todo \in Seq([ref : Ref, leaving : BOOLEAN])
    /\ \A k \in 1 .. Len(todo) : Usable(store[0], {}, todo[k].ref)

\* how the places of the shared table are given out,
UsedRight(b, u) ==
  /\ u \in [Thread -> Nat \ {0}]
  /\ IF b = "seq" THEN u[0] <= TableSize /\ \A p \in Thread \ {0} : u[p] = 1
     ELSE \A p \in Thread : u[p] <= DataSize
UsedOK ==
  /\ UsedRight(build, used)
  /\ pc[0] # "search" => \A p \in Thread : used[p] = 1

\* that each holds a node of its own,
UniqueOK ==
  \A i \in Stored :
    /\ ~data[i].data /\ ~data[i].low.mark /\ data[i].low # data[i].high
    /\ \A j \in Stored : data[i] = data[j] => i = j

\* which a lookup finds in the sequential build,
Found(t, x, i) ==
  \E n \in 0 .. Attempts * ChunkSize - 1 :
    /\ x[Probe(t[i], seed, n)] = i
    /\ \A m \in 0 .. n - 1 : x[Probe(t[i], seed, m)] # Empty
IndexOK ==
  /\ index \in [0 .. TableSize - 1 -> Stored \cup {Empty}]
  /\ build = "seq" => \A i \in Stored : Found(data, index, i)

\* that the shared table is in order on each thread,
TableOK ==
  /\ BagToSet(flight) = {}
  /\ data \in [0 .. TableSize - 1 -> Node \cup {None}]
  /\ \A p \in Thread : SharedGood(store[p], data, Stored)

\* and what tasks hold.
HeldRight(x) ==
  /\ x = [ref |-> x.ref, sem |-> x.sem] /\ x.sem \in SUBSET Env
  /\ \A p \in Thread : Usable(store[p], Stored, x.ref)
  /\ ZeroFree \/ AllShared(x.ref) => \A p \in Thread : Mean(store[p], data, x.ref) = x.sem
HeldOK ==
  /\ pc[0] # "search" => held = {}
  /\ \A x \in held : HeldRight(x)

Shapes ==
  /\ refs = [p \in Thread |-> refs[p]]
  /\ roots = [p \in Thread |-> roots[p]]
  /\ store = [p \in Thread |-> store[p]]

Core ==
  /\ Shapes /\ PhaseOK
  /\ \A p \in Thread : LocalOK(p) /\ LeavesOK(p) /\ RootsOK(p)
  /\ CountOK /\ UsedOK /\ UniqueOK /\ IndexOK /\ TableOK /\ HeldOK
Inv == Start /\ (item <= Len(file.sections) => Core)

-----------------------------------------------------------------------------
(* Facts about the state *)

LEMMA SectionFacts ==
  ASSUME NEW f, WellWritten(f)
  PROVE  /\ Len(f.sections) \in Nat \ {0} /\ f.sections[Len(f.sections)].last = Len(f.nodes)
         /\ \A i \in 1 .. Len(f.sections) :
              LET s == f.sections[i] IN
              /\ s.last \in Nat /\ s.last <= Len(f.nodes)
              /\ s.root.mark \in BOOLEAN /\ s.root.value \in 0 .. s.last
              /\ s.vars \in Seq(Level) /\ s.primed \in Seq(Level)
              /\ Len(s.primed) \in {0, Len(s.vars)}
<1> DEFINE T == [last : Nat, root : [mark : BOOLEAN, value : Nat], vars : Seq(Level), primed : Seq(Level)]
<1>1. f.sections \in Seq(T) /\ f.sections # << >>
  BY DEF WellWritten
<1>2. PICK g \in Seq(T) : g = f.sections
  BY <1>1
<1>3. Len(g) \in Nat \ {0} /\ \A i \in 1 .. Len(g) : g[i] \in T
  <2> HIDE DEF T
  <2> QED
    BY <1>1, <1>2, EmptySeq, ElementOfSeq, LenProperties
<1>4. ASSUME NEW i \in 1 .. Len(g)
      PROVE  /\ g[i].last \in Nat /\ g[i].root.mark \in BOOLEAN /\ g[i].root.value \in 0 .. g[i].last
             /\ g[i].vars \in Seq(Level) /\ g[i].primed \in Seq(Level)
             /\ Len(g[i].primed) \in {0, Len(g[i].vars)}
  <2>1. PICK e \in T : e = g[i]
    BY <1>3
  <2>2. e.last \in Nat /\ e.root.mark \in BOOLEAN /\ e.root.value \in Nat
        /\ e.vars \in Seq(Level) /\ e.primed \in Seq(Level)
    OBVIOUS
  <2>3. e.root.value <= e.last /\ Len(e.primed) \in {0, Len(e.vars)}
    BY <1>2, <2>1 DEF WellWritten
  <2> QED
    BY <2>1, <2>2, <2>3
<1>5. ASSUME NEW i \in 2 .. Len(g) PROVE g[i - 1].last <= g[i].last
  <2>1. i \in 1 .. Len(g) /\ i - 1 # 0
    BY <1>3
  <2> QED
    BY <1>2, <2>1 DEF WellWritten
<1>6. g[Len(g)].last = Len(f.nodes)
  BY <1>2, <1>3 DEF WellWritten
<1>7. Len(f.nodes) \in Nat
  BY FileFacts
<1> DEFINE S == {n \in Nat : n < Len(g) => g[Len(g) - n].last <= Len(f.nodes)}
<1>8. 0 \in S
  BY <1>3, <1>6, <1>7
<1>9. ASSUME NEW n \in Nat, n \in S PROVE n + 1 \in S
  <2> SUFFICES ASSUME n + 1 < Len(g) PROVE g[Len(g) - (n + 1)].last <= Len(f.nodes)
    OBVIOUS
  <2>1. PICK i : i = Len(g) - n
    OBVIOUS
  <2>2. i \in 2 .. Len(g) /\ i - 1 = Len(g) - (n + 1) /\ i - 1 \in 1 .. Len(g) /\ i \in 1 .. Len(g)
    BY <1>3, <2>1
  <2>3. g[i].last <= Len(f.nodes)
    BY <1>3, <1>9, <2>1
  <2>4. g[i - 1].last <= g[i].last
    BY <1>5, <2>2
  <2>5. g[i - 1].last \in Nat /\ g[i].last \in Nat
    BY <1>4, <2>2
  <2>6. \A a, b, c \in Nat : a <= b /\ b <= c => a <= c
    OBVIOUS
  <2>7. g[i - 1].last <= Len(f.nodes)
    BY <1>7, <2>3, <2>4, <2>5, <2>6, ZenonT(20)
  <2> QED
    BY <2>2, <2>7
<1>10. \A n \in Nat : n \in S
  <2> HIDE DEF S
  <2> QED
    BY <1>8, <1>9, NatSet
<1>11. ASSUME NEW i \in 1 .. Len(g) PROVE g[i].last <= Len(f.nodes)
  <2>1. Len(g) - i \in Nat /\ Len(g) - i < Len(g) /\ Len(g) - (Len(g) - i) = i
    BY <1>3
  <2> QED
    BY <1>10, <2>1
<1> QED
  BY <1>2, <1>3, <1>4, <1>6, <1>11

LEMMA StartFacts ==
  ASSUME Start
  PROVE  /\ WellWritten(file) /\ 0 \in Thread /\ Len(file.nodes) \in Nat
         /\ Len(file.sections) \in Nat \ {0}
<1>1. WellWritten(file)
  BY FileAssumption DEF Start
<1> QED
  BY <1>1, FileFacts, SectionFacts, MainAssumption DEF Thread

\* The places in use.
Places(u) == UNION {{p * DataSize + i : i \in 1 .. u[p] - 1} : p \in Thread}
LEMMA StoredIs ==
  ASSUME NEW b, NEW u, UsedRight(b, u)
  PROVE  /\ Places(u) \subseteq 1 .. TableSize - 1
         /\ \A i : i \in Places(u) <=> \E p \in Thread : \E j \in 1 .. u[p] - 1 : i = p * DataSize + j
<1>1. \A i : i \in Places(u) <=> \E p \in Thread : \E j \in 1 .. u[p] - 1 : i = p * DataSize + j
  BY DEF Places
<1>2. ASSUME NEW p \in Thread, NEW j \in 1 .. u[p] - 1 PROVE p * DataSize + j \in 1 .. TableSize - 1
  <2>1. u[p] \in Nat \ {0} /\ p \in Nat /\ p <= NThreads - 1 /\ DataSize \in Nat \ {0} /\ NThreads \in Nat \ {0}
    BY MainAssumption DEF UsedRight, Thread
  <2>2. PICK c \in Nat : c = p * DataSize
    BY <2>1
  <2>3. TableSize = NThreads * DataSize
    BY MainAssumption
  <2>4. CASE b = "seq"
    <3>1. CASE p = 0
      <4>1. u[p] <= TableSize /\ TableSize \in Nat
        BY <2>4, <3>1, SeqAssumption DEF UsedRight
      <4>2. c = 0
        BY <2>1, <2>2, <3>1
      <4> QED
        BY <2>1, <2>2, <4>1, <4>2
    <3>2. CASE p # 0
      BY <2>4, <3>2 DEF UsedRight
    <3> QED
      BY <3>1, <3>2
  <2>5. CASE b # "seq"
    <3>1. u[p] <= DataSize
      BY <2>5 DEF UsedRight
    <3>2. c + DataSize <= TableSize
      <4>1. (p + 1) * DataSize <= NThreads * DataSize
        <5>1. p + 1 <= NThreads /\ p + 1 \in Nat
          BY <2>1
        <5>2. PICK d \in Nat : d = NThreads - (p + 1)
          BY <2>1, <5>1
        <5>3. NThreads = (p + 1) + d
          BY <2>1, <5>1, <5>2
        <5>4. NThreads * DataSize = (p + 1) * DataSize + d * DataSize
          BY <2>1, <5>1, <5>2, <5>3
        <5>5. d * DataSize \in Nat /\ (p + 1) * DataSize \in Nat
          BY <2>1, <5>1, <5>2
        <5> QED
          BY <5>4, <5>5
      <4>2. (p + 1) * DataSize = c + DataSize
        BY <2>1, <2>2
      <4> QED
        BY <2>3, <4>1, <4>2
    <3>3. TableSize \in Nat
      BY SeqAssumption
    <3> QED
      BY <2>1, <2>2, <3>1, <3>2, <3>3
  <2> QED
    BY <2>4, <2>5
<1> QED
  BY <1>1, <1>2

-----------------------------------------------------------------------------
(* At all times *)

LEMMA QuietStart ==
  ASSUME Start, UNCHANGED <<file, seed, build, item, pc, held>>
  PROVE  Start'
  BY DEF Start

LEMMA StartInit ==
  ASSUME Init
  PROVE  Start
<1>1. 0 \in Thread /\ "load" \in Phases
  BY MainAssumption DEF Thread, Phases
<1>2. WellWritten(file)
  BY FileAssumption DEF Init
<1>3. Len(file.sections) \in Nat
  BY <1>2, SectionFacts
<1> QED
  BY <1>1, <1>3 DEF Init, Start

LEMMA StartStep ==
  ASSUME Start, [Next]_vars
  PROVE  Start'
<1>1. 0 \in Thread /\ Len(file.sections) \in Nat \ {0}
  BY StartFacts
<1>2. ASSUME NEW p \in Thread, ReadEqual(p) \/ ReadPut(p) \/ ReadFull(p) PROVE Start'
  BY <1>2, QuietStart DEF ReadEqual, ReadPut, ReadFull, Assign, inputVars, loadVars, countVars
<1>3. ASSUME NEW p \in Thread, EndSection(p) PROVE Start'
  <2>1. pc' \in [Thread -> Phases]
    BY <1>3 DEF EndSection, Start, Phases
  <2>2. CASE p = 0
    <3>1. item = 0 /\ (item' = 0 \/ item' = 1) /\ (pc'[0] = "load" => item' = 0)
      BY <1>1, <1>3, <2>2 DEF EndSection, Start
    <3> QED
      BY <1>1, <1>3, <2>1, <3>1 DEF EndSection, Start, inputVars
  <2>3. CASE p # 0
    <3>1. item' = item /\ pc'[0] = pc[0]
      BY <1>1, <1>3, <2>3 DEF EndSection, Start
    <3> QED
      BY <1>3, <2>1, <3>1 DEF EndSection, Start, inputVars
  <2> QED
    BY <2>2, <2>3
<1>4. ASSUME VisitConst \/ VisitSkip \/ VisitNode \/ Return PROVE Start'
  BY <1>4, QuietStart DEF VisitConst, VisitSkip, VisitNode, Return, inputVars
<1>5. ASSUME Marked PROVE Start'
  <2>1. pc' \in [Thread -> Phases] /\ pc[0] = "mark" /\ pc'[0] = "unmark"
    BY <1>1, <1>5 DEF Marked, Start, Phases
  <2> QED
    BY <1>5, <2>1 DEF Marked, Start, inputVars
<1>6. ASSUME Unmarked PROVE Start'
  <2>1. /\ UNCHANGED <<file, seed, build, held>> /\ pc[0] = "unmark"
        /\ \/ item < Len(file.sections) /\ item' = item + 1 /\ pc' = [pc EXCEPT ![0] = "mark"]
           \/ item >= Len(file.sections) /\ item' = item
              /\ pc' = [pc EXCEPT ![0] = IF item = Len(file.sections) THEN "compute" ELSE "finish"]
    BY <1>6 DEF Unmarked, inputVars
  <2>2. pc' \in [Thread -> Phases]
    BY <2>1 DEF Start, Phases
  <2>3. CASE item < Len(file.sections) /\ item' = item + 1 /\ pc' = [pc EXCEPT ![0] = "mark"]
    <3>1. pc'[0] = "mark" /\ item' \in Nat /\ item' <= Len(file.sections)
      BY <1>1, <2>3 DEF Start
    <3> QED
      BY <1>1, <2>1, <2>2, <3>1 DEF Start
  <2>4. CASE item >= Len(file.sections) /\ item' = item
              /\ pc' = [pc EXCEPT ![0] = IF item = Len(file.sections) THEN "compute" ELSE "finish"]
    <3>1. pc'[0] = IF item = Len(file.sections) THEN "compute" ELSE "finish"
      BY <1>1, <2>4 DEF Start
    <3> QED
      BY <1>1, <2>1, <2>2, <2>4, <3>1 DEF Start
  <2> QED
    BY <2>1, <2>3, <2>4
<1>7. ASSUME AllArrived PROVE Start'
  <2>1. pc' \in [Thread -> Phases] /\ pc[0] = "compute" /\ pc'[0] = "search"
    BY <1>1, <1>7 DEF AllArrived, Phases
  <2>2. ~(item > Len(file.sections))
    BY <2>1 DEF Start
  <2> QED
    BY <1>7, <2>1, <2>2 DEF AllArrived, Start, inputVars, countVars
<1>8. ASSUME Make PROVE Start'
  <2>1. held # {}
    BY <1>8 DEF Make, Operand
  <2>2. UNCHANGED <<file, seed, build, item, pc>>
    <3>1. \A l, x, y, i : Made(l, x, y, i) => UNCHANGED <<file, seed, build, item, pc>>
      BY DEF Made, inputVars, countVars
    <3>2. \A l, x, y : MakeFull(l, x, y) => UNCHANGED <<file, seed, build, item, pc>>
      BY DEF MakeFull, inputVars, countVars
    <3>3. \A p, l, x, y : MakeFind(p, l, x, y) => \E i : Made(l, x, y, i)
      BY DEF MakeFind
    <3>4. \A p, l, x, y : MakePut(p, l, x, y) => \E i : Made(l, x, y, i)
      BY DEF MakePut
    <3>5. \A l, x, y : MakeSeq(l, x, y) => \E i : Made(l, x, y, i)
      BY DEF MakeSeq
    <3> QED
      BY <1>8, <3>1, <3>2, <3>3, <3>4, <3>5, ZenonT(30) DEF Make
  <2> QED
    BY <2>1, <2>2 DEF Start
<1>9. ASSUME EndSearch PROVE Start'
  <2>1. pc' \in [Thread -> Phases] /\ pc'[0] = "mark" /\ held' = {} /\ item' \in Nat
    BY <1>1, <1>9 DEF EndSearch, Phases, Start
  <2> QED
    BY <1>9, <2>1 DEF EndSearch, Start, inputVars
<1>10. ASSUME Network PROVE Start'
  BY <1>10, QuietStart DEF Network, LandPut, inputVars, countVars
<1>11. ASSUME UNCHANGED vars PROVE Start'
  BY <1>11, QuietStart DEF vars, inputVars, countVars
<1> QED
  BY <1>2, <1>3, <1>4, <1>5, <1>6, <1>7, <1>8, <1>9, <1>10, <1>11 DEF Next, Load, NodeCount, Stop

-----------------------------------------------------------------------------
(* At first *)

\* Nothing is stored before the search.
LEMMA NothingStored ==
  ASSUME UsedOK, pc[0] # "search"
  PROVE  Stored = {}
<1>1. \A p \in Thread : 1 .. used[p] - 1 = {}
  BY DEF UsedOK
<1> QED
  BY <1>1 DEF Stored

LEMMA CoreInit ==
  ASSUME Init
  PROVE  Core
<1>1. Start /\ WellWritten(file) /\ 0 \in Thread /\ Len(file.nodes) \in Nat /\ Len(file.sections) \in Nat \ {0}
  BY StartInit, StartFacts
<1>2. \A p \in Thread : refs[p] = << >> /\ roots[p] = << >> /\ store[p] = [i \in LocalIndex |-> None] /\ pc[p] = "load"
  BY DEF Init
<1>3. Shapes
  BY DEF Init, Shapes
<1>4. PhaseOK
  BY <1>1, <1>2 DEF PhaseOK
<1>5. ASSUME NEW p \in Thread PROVE LocalOK(p)
  <2>1. << >> \in Seq(Ref) /\ Len(<< >>) = 0
    OBVIOUS
  <2>2. [i \in LocalIndex |-> None] \in [LocalIndex -> Node \cup {None}]
    OBVIOUS
  <2>3. LocalGood(store[p], data)
    BY <1>2 DEF LocalGood
  <2>4. NumbersRight(file, store[p], data, refs[p])
    BY <1>2, <2>1 DEF NumbersRight
  <2>5. refs[p] \in Seq(Ref) /\ store[p] \in [LocalIndex -> Node \cup {None}]
    BY <1>2, <2>1, <2>2
  <2>6. Len(refs[p]) <= Len(file.nodes)
    BY <1>1, <1>2, <2>1
  <2> QED
    BY <2>3, <2>4, <2>5, <2>6 DEF LocalOK
<1>6. ASSUME NEW p \in Thread PROVE LeavesOK(p)
  <2>1. Leaves(file, seed, Len(refs[p]), [refs |-> refs[p], store |-> store[p]])
    BY <1>2, LeavesFirst DEF Before
  <2>2. Alike(store[p], store[p])
    BY DEF Alike, SameNode
  <2> QED
    BY <2>1, <2>2 DEF LeavesOK
<1>7. ASSUME NEW p \in Thread PROVE RootsOK(p)
  <2>1. << >> \in Seq([bdd : Ref, chain : Seq(Level)]) /\ Len(<< >>) = 0
    OBVIOUS
  <2>2. roots[p] \in Seq([bdd : Ref, chain : Seq(Level)])
    BY <1>2, <2>1
  <2>3. Len(roots[p]) = 0 /\ Len(roots[p]) < Len(file.sections) /\ Len(roots[p]) <= Len(file.sections)
    BY <1>1, <1>2, <2>1
  <2>4. 1 .. Len(roots[p]) = {}
    BY <2>3
  <2> QED
    BY <1>2, <2>2, <2>3, <2>4 DEF RootsOK
<1>8. CountOK
  BY <1>1, <1>2 DEF CountOK
<1>9. UsedOK
  <2>1. 1 <= TableSize /\ 1 <= DataSize
    BY MainAssumption, SeqAssumption
  <2>2. used = [p \in Thread |-> 1]
    BY DEF Init
  <2> QED
    BY <1>1, <2>1, <2>2 DEF UsedOK, UsedRight
<1>10. Stored = {}
  BY <1>1, <1>2, <1>9, NothingStored
<1>11. UniqueOK
  BY <1>10 DEF UniqueOK
<1>12. IndexOK
  BY <1>10 DEF IndexOK, Init
<1>13. TableOK
  <2>1. BagToSet(flight) = {}
    BY DEF Init, EmptyBag, BagToSet, SetToBag
  <2>2. \A p \in Thread : SharedGood(store[p], data, Stored)
    BY <1>10 DEF SharedGood
  <2> QED
    BY <2>1, <2>2 DEF Init, TableOK
<1>14. HeldOK
  BY DEF Init, HeldOK
<1> QED
  BY <1>3, <1>4, <1>5, <1>6, <1>7, <1>8, <1>9, <1>11, <1>12, <1>13, <1>14 DEF Core

-----------------------------------------------------------------------------
(* What a step leaves alone *)

LEMMA SameLocal ==
  ASSUME NEW p \in Thread, LocalOK(p), UNCHANGED <<file, data, refs[p], store[p]>>
  PROVE  LocalOK(p)'
  BY DEF LocalOK

LEMMA SameLeaves ==
  ASSUME NEW p \in Thread, LeavesOK(p), UNCHANGED <<file, seed, refs[p], store[p]>>,
         pc'[p] = "load" => pc[p] = "load"
  PROVE  LeavesOK(p)'
  BY DEF LeavesOK

LEMMA SameRoots ==
  ASSUME NEW p \in Thread, RootsOK(p), UNCHANGED <<file, refs[p], roots[p]>>,
         (pc'[p] = "load") = (pc[p] = "load")
  PROVE  RootsOK(p)'
  BY DEF RootsOK

LEMMA BeforeSearch ==
  ASSUME Core, pc[0] # "search", pc'[0] # "search", UNCHANGED <<seed, build, used, data, index, flight, held>>
  PROVE  UsedOK' /\ UniqueOK' /\ IndexOK' /\ TableOK' /\ HeldOK'
<1>1. UsedOK /\ UniqueOK /\ IndexOK /\ TableOK /\ HeldOK
  BY DEF Core
<1>2. UsedOK'
  BY <1>1 DEF UsedOK
<1>3. Stored = {} /\ Stored' = {}
  <2>1. Stored = {}
    BY <1>1, NothingStored
  <2>2. Stored' = Stored
    BY DEF Stored
  <2> QED
    BY <2>1, <2>2
<1>4. UniqueOK'
  BY <1>3 DEF UniqueOK
<1>5. IndexOK'
  BY <1>1, <1>3 DEF IndexOK
<1>6. TableOK'
  <2>1. \A p \in Thread : SharedGood(store'[p], data', Stored')
    BY <1>3 DEF SharedGood
  <2>2. BagToSet(flight') = {} /\ data' \in [0 .. TableSize - 1 -> Node \cup {None}]
    BY <1>1 DEF TableOK
  <2> QED
    BY <2>1, <2>2 DEF TableOK
<1>7. HeldOK'
  BY <1>1 DEF HeldOK
<1> QED
  BY <1>2, <1>4, <1>5, <1>6, <1>7

-----------------------------------------------------------------------------
(* A thread reads a node *)

LEMMA LoadedAppend ==
  ASSUME NEW rs \in Seq(Ref), NEW a \in Ref, NEW s, s.last \in Nat, s.last <= Len(rs),
         s.root.value \in 0 .. s.last
  PROVE  Loaded(Append(rs, a), s) = Loaded(rs, s)
<1>1. GetReversed(Append(rs, a), s.root.mark, s.root.value) = GetReversed(rs, s.root.mark, s.root.value)
  <2>1. CASE s.root.value = 0
    BY <2>1 DEF GetReversed
  <2>2. CASE s.root.value # 0
    <3>1. s.root.value \in 1 .. Len(rs)
      BY <2>2
    <3>2. Append(rs, a)[s.root.value] = rs[s.root.value]
      BY <3>1, AppendProperties
    <3> QED
      BY <2>2, <3>2 DEF GetReversed
  <2> QED
    BY <2>1, <2>2
<1> QED
  BY <1>1 DEF Loaded

\* Thread p has read reference a, and has local store k.
Reads(p, a, k) ==
  /\ refs' = [refs EXCEPT ![p] = Append(@, a)]
  /\ store' = [store EXCEPT ![p] = k]
  /\ UNCHANGED <<inputVars, pc, roots, tableVars, flight, countVars, late, held, full>>

LEMMA ReadCore ==
  ASSUME Start, Core, NEW p \in Thread, Reading(p), NEW a \in Ref, NEW k \in [LocalIndex -> Node \cup {None}],
         Reads(p, a, k), LocalGood(k, data), NumbersRight(file, k, data, Append(refs[p], a)),
         After(file, seed, [refs |-> refs[p], store |-> store[p]]) = [refs |-> Append(refs[p], a), store |-> k]
  PROVE  Core'
<1>1. /\ WellWritten(file) /\ 0 \in Thread /\ Len(file.nodes) \in Nat /\ Len(file.sections) \in Nat \ {0}
  BY StartFacts
<1>2. /\ Shapes /\ PhaseOK /\ LocalOK(p) /\ LeavesOK(p) /\ RootsOK(p)
  BY DEF Core
<1>3. pc[p] = "load" /\ Len(refs[p]) < Section(p).last /\ pc[0] # "search"
  BY <1>2 DEF Reading, PhaseOK
<1>4. /\ refs'[p] = Append(refs[p], a) /\ store'[p] = k
      /\ \A q \in Thread \ {p} : refs'[q] = refs[q] /\ store'[q] = store[q]
      /\ UNCHANGED <<file, seed, build, pc, roots, index, data, used, flight, todo, item, held>>
      /\ Shapes'
  BY <1>2 DEF Reads, Shapes, inputVars, tableVars, countVars
<1>5. Len(refs[p]) \in Nat /\ Len(refs[p]) < Len(file.nodes) /\ refs[p] \in Seq(Ref)
  <2>1. refs[p] \in Seq(Ref) /\ Len(refs[p]) \in Nat
    BY <1>2 DEF LocalOK
  <2>2. Len(roots[p]) \in Nat /\ Len(roots[p]) < Len(file.sections)
    BY <1>2, <1>3 DEF RootsOK
  <2>3. Len(roots[p]) + 1 \in 1 .. Len(file.sections)
    BY <1>1, <2>2
  <2>4. Section(p).last \in Nat /\ Section(p).last <= Len(file.nodes)
    BY <1>1, <2>3, SectionFacts DEF Section
  <2> QED
    BY <1>1, <1>3, <2>1, <2>4
<1>6. /\ refs'[p] \in Seq(Ref) /\ Len(refs'[p]) = Len(refs[p]) + 1
  BY <1>4, <1>5, AppendProperties
<1>7. PhaseOK'
  BY <1>2, <1>4 DEF PhaseOK
<1>8. ASSUME NEW q \in Thread PROVE LocalOK(q)' /\ LeavesOK(q)' /\ RootsOK(q)'
  <2>1. CASE q # p
    <3>1. LocalOK(q) /\ LeavesOK(q) /\ RootsOK(q)
      BY DEF Core
    <3>2. UNCHANGED <<file, seed, data, refs[q], store[q], roots[q], pc[q]>>
      BY <1>4, <2>1
    <3> QED
      BY <3>1, <3>2, SameLocal, SameLeaves, SameRoots
  <2>2. CASE q = p
    <3>1. LocalOK(p)'
      <4>1. Len(refs'[p]) <= Len(file.nodes)
        BY <1>1, <1>5, <1>6
      <4> QED
        BY <1>4, <1>6, <4>1 DEF LocalOK
    <3>2. LeavesOK(p)'
      <4>1. Leaves(file, seed, Len(refs[p]), [refs |-> refs[p], store |-> store[p]])
        BY <1>2, <1>3 DEF LeavesOK
      <4>2. Leaves(file, seed, Len(refs[p]) + 1, [refs |-> refs'[p], store |-> store'[p]])
        BY <1>4, <1>5, <4>1, LeavesNext
      <4>3. Alike(store'[p], store'[p])
        BY DEF Alike, SameNode
      <4> QED
        BY <1>4, <1>6, <4>2, <4>3 DEF LeavesOK
    <3>3. RootsOK(p)'
      <4>1. ASSUME NEW i \in 1 .. Len(roots[p])
            PROVE  /\ file.sections[i].last <= Len(refs'[p])
                   /\ roots[p][i] = Loaded(refs'[p], file.sections[i])
        <5>1. i \in 1 .. Len(file.sections)
          BY <1>1, <1>2 DEF RootsOK
        <5>2. file.sections[i].last \in Nat /\ file.sections[i].root.value \in 0 .. file.sections[i].last
          BY <1>1, <5>1, SectionFacts
        <5>3. file.sections[i].last <= Len(refs[p]) /\ roots[p][i] = Loaded(refs[p], file.sections[i])
          BY <1>2 DEF RootsOK
        <5> QED
          BY <1>4, <1>5, <1>6, <5>2, <5>3, LoadedAppend
      <4> QED
        BY <1>2, <1>3, <1>4, <4>1 DEF RootsOK
    <3> QED
      BY <2>2, <3>1, <3>2, <3>3
  <2> QED
    BY <2>1, <2>2
<1>9. CountOK'
  <2>1. CASE p = 0
    BY <1>3, <1>4, <2>1 DEF CountOK
  <2>2. CASE p # 0
    BY <1>1, <1>4, <2>2 DEF CountOK, Core
  <2> QED
    BY <2>1, <2>2
<1>10. UsedOK' /\ UniqueOK' /\ IndexOK' /\ TableOK' /\ HeldOK'
  BY <1>3, <1>4, BeforeSearch
<1> QED
  BY <1>4, <1>7, <1>8, <1>9, <1>10 DEF Core

\* The numbers so far, in a store that has grown, and one more.
LEMMA OneMore ==
  ASSUME NEW f, NEW l, NEW s, LocalGood(l, s), NEW k, NEW t, Grows(l, s, {}, k, t, {}), k[0] = None => l[0] = None,
         NEW rs \in Seq(Ref), NumbersRight(f, l, s, rs), NEW a \in Ref, NumberRight(f, k, t, a, Len(rs) + 1)
  PROVE  NumbersRight(f, k, t, Append(rs, a))
<1> SUFFICES ASSUME NEW n \in 1 .. Len(Append(rs, a)) PROVE NumberRight(f, k, t, Append(rs, a)[n], n)
  BY DEF NumbersRight
<1>1. Len(rs) \in Nat /\ Len(Append(rs, a)) = Len(rs) + 1
  BY AppendProperties
<1>2. CASE n = Len(rs) + 1
  BY <1>2, AppendProperties
<1>3. CASE n # Len(rs) + 1
  <2>1. n \in 1 .. Len(rs) /\ Append(rs, a)[n] = rs[n]
    BY <1>1, <1>3, AppendProperties
  <2>2. PICK b : b = rs[n]
    OBVIOUS
  <2>3. NumberRight(f, l, s, b, n)
    BY <2>1, <2>2 DEF NumbersRight
  <2>4. NumberRight(f, k, t, b, n)
    BY <2>3, NumberGrows
  <2> QED
    BY <2>1, <2>2, <2>4
<1> QED
  BY <1>2, <1>3

LEMMA ReadFacts ==
  ASSUME Start, Core, NEW p \in Thread, Reading(p)
  PROVE  /\ WellWritten(file) /\ seed \in Seeds
         /\ refs[p] \in Seq(Ref) /\ Len(refs[p]) \in Nat /\ Len(refs[p]) < Len(file.nodes)
         /\ store[p] \in [LocalIndex -> Node \cup {None}]
         /\ LocalGood(store[p], data) /\ NumbersRight(file, store[p], data, refs[p])
<1>1. WellWritten(file) /\ LocalOK(p) /\ RootsOK(p) /\ Len(file.sections) \in Nat \ {0} /\ Len(file.nodes) \in Nat
  BY StartFacts DEF Core
<1>2. refs[p] \in Seq(Ref) /\ Len(refs[p]) \in Nat
  BY <1>1 DEF LocalOK
<1>3. Len(roots[p]) \in Nat /\ Len(roots[p]) < Len(file.sections)
  BY <1>1 DEF RootsOK, Reading
<1>4. Len(roots[p]) + 1 \in 1 .. Len(file.sections)
  BY <1>1, <1>3
<1>5. Section(p).last \in Nat /\ Section(p).last <= Len(file.nodes)
  BY <1>1, <1>4, SectionFacts DEF Section
<1>6. Len(refs[p]) < Section(p).last
  BY DEF Reading
<1>7. Len(refs[p]) < Len(file.nodes)
  BY <1>1, <1>2, <1>5, <1>6
<1> QED
  BY <1>1, <1>2, <1>7 DEF LocalOK, Start

LEMMA ReadEqualCore ==
  ASSUME Start, Core, NEW p \in Thread, ReadEqual(p)
  PROVE  Core'
<1>1. Reading(p)
  BY DEF ReadEqual
<1>2. PICK rs : rs = refs[p]
  OBVIOUS
<1>3. PICK l : l = store[p]
  OBVIOUS
<1>4. /\ WellWritten(file) /\ seed \in Seeds
      /\ rs \in Seq(Ref) /\ Len(rs) \in Nat /\ Len(rs) < Len(file.nodes)
      /\ l \in [LocalIndex -> Node \cup {None}]
      /\ LocalGood(l, data) /\ NumbersRight(file, l, data, rs)
  BY <1>1, <1>2, <1>3, ReadFacts
<1>5. PICK m : m = file.nodes[Len(rs) + 1]
  OBVIOUS
<1>6. PICK a : a = Low(rs, m)
  OBVIOUS
<1>7. Low(rs, m) = High(rs, m) /\ Read(p) = m
  BY <1>2, <1>5 DEF ReadEqual, Read
<1>8. NumberRight(file, l, data, a, Len(rs) + 1) /\ a \in Ref
  BY <1>4, <1>5, <1>6, <1>7, EqualRight
<1>9. Grows(l, data, {}, l, data, {})
  BY DEF Grows, SameNode
<1>10. NumbersRight(file, l, data, Append(rs, a))
  BY <1>4, <1>8, <1>9, OneMore
<1>11. After(file, seed, [refs |-> rs, store |-> l]) = [refs |-> Append(rs, a), store |-> l]
  BY <1>5, <1>6, <1>7 DEF After
<1>12. Reads(p, a, l)
  <2>1. refs' = [refs EXCEPT ![p] = Append(@, a)] /\ store' = store
    BY <1>2, <1>6, <1>7 DEF ReadEqual, Assign
  <2>2. store = [q \in Thread |-> store[q]]
    BY DEF Core, Shapes
  <2>3. store' = [store EXCEPT ![p] = l]
    BY <1>3, <2>1, <2>2
  <2>4. UNCHANGED <<inputVars, pc, roots, tableVars, flight, countVars, late, held, full>>
    BY DEF ReadEqual, Assign
  <2> QED
    BY <2>1, <2>3, <2>4 DEF Reads
<1> QED
  BY <1>1, <1>2, <1>3, <1>4, <1>8, <1>10, <1>11, <1>12, ReadCore

LEMMA ReadPutCore ==
  ASSUME Start, Core, NEW p \in Thread, ReadPut(p)
  PROVE  Core'
<1>1. Reading(p)
  BY DEF ReadPut
<1>2. PICK rs : rs = refs[p]
  OBVIOUS
<1>3. PICK l : l = store[p]
  OBVIOUS
<1>4. /\ WellWritten(file) /\ seed \in Seeds
      /\ rs \in Seq(Ref) /\ Len(rs) \in Nat /\ Len(rs) < Len(file.nodes)
      /\ l \in [LocalIndex -> Node \cup {None}]
      /\ LocalGood(l, data) /\ NumbersRight(file, l, data, rs)
  BY <1>1, <1>2, <1>3, ReadFacts
<1>5. PICK m : m = file.nodes[Len(rs) + 1]
  OBVIOUS
<1>6. Read(p) = m
  BY <1>2, <1>5 DEF Read
<1>7. PICK n : n = NodeFrom(rs, m)
  OBVIOUS
<1>8. PICK i : i = LocalPlace(l, n, seed)
  OBVIOUS
<1>9. PICK k : k = [l EXCEPT ![i] = n]
  OBVIOUS
<1>10. PICK a : a = Reference(Low(rs, m), TRUE, i)
  OBVIOUS
<1>11. Low(rs, m) # High(rs, m) /\ LocalRoom(l, n, seed)
  BY <1>2, <1>3, <1>6, <1>7 DEF ReadPut
<1>12. n \in Node
  <2>1. /\ ChildRight(file, l, data, Low(rs, m), FALSE, m.low)
        /\ ChildRight(file, l, data, High(rs, m), m.comp, m.high) /\ m.level \in Level
    BY <1>4, <1>5, ChildrenRight
  <2>2. Low(rs, m) \in Ref /\ High(rs, m) \in Ref
    BY <2>1 DEF ChildRight, Usable
  <2> QED
    BY <1>7, <2>1, <2>2, NewNode DEF NodeFrom
<1>13. i \in LocalIndex /\ (l[i] = None \/ l[i] = n)
  BY <1>4, <1>8, <1>11, <1>12, PlaceIs
<1>14. Puts(rs, m, l, i, n, k, a)
  BY <1>7, <1>9, <1>10, <1>13 DEF Puts
<1>15. /\ k \in [LocalIndex -> Node \cup {None}] /\ Grows(l, data, {}, k, data, {}) /\ LocalGood(k, data)
       /\ k[0] = None => l[0] = None
       /\ a \in Ref /\ NumberRight(file, k, data, a, Len(rs) + 1)
  BY <1>4, <1>5, <1>13, <1>14, PutRight
<1>16. NumbersRight(file, k, data, Append(rs, a))
  BY <1>4, <1>15, OneMore
<1>17. After(file, seed, [refs |-> rs, store |-> l]) = [refs |-> Append(rs, a), store |-> k]
  BY <1>5, <1>7, <1>8, <1>9, <1>10, <1>11 DEF After
<1>18. Reads(p, a, k)
  <2>1. refs' = [refs EXCEPT ![p] = Append(@, a)]
    BY <1>2, <1>3, <1>6, <1>7, <1>8, <1>10 DEF ReadPut, Assign
  <2>2. store' = [store EXCEPT ![p][i] = n]
    BY <1>2, <1>3, <1>6, <1>7, <1>8 DEF ReadPut
  <2>3. store' = [store EXCEPT ![p] = k]
    BY <1>3, <1>9, <2>2
  <2>4. UNCHANGED <<inputVars, pc, roots, tableVars, flight, countVars, late, held, full>>
    BY DEF ReadPut, Assign
  <2> QED
    BY <2>1, <2>3, <2>4 DEF Reads
<1> QED
  BY <1>1, <1>2, <1>3, <1>4, <1>15, <1>16, <1>17, <1>18, ReadCore

\* Steps that change nothing of this.
LEMMA QuietCore ==
  ASSUME Core, UNCHANGED <<file, seed, build, pc, refs, roots, store, index, data, used, flight, todo, item, held>>
  PROVE  Core'
<1>1. Shapes' /\ PhaseOK'
  BY DEF Core, Shapes, PhaseOK
<1>2. ASSUME NEW p \in Thread PROVE LocalOK(p)' /\ LeavesOK(p)' /\ RootsOK(p)'
  BY SameLocal, SameLeaves, SameRoots DEF Core
<1>3. CountOK' /\ UsedOK'
  BY DEF Core, CountOK, UsedOK
<1>4. Stored' = Stored /\ ZeroFree' = ZeroFree
  BY DEF Stored, ZeroFree
<1>5. UniqueOK' /\ TableOK'
  BY <1>4 DEF Core, UniqueOK, TableOK
<1>6. IndexOK'
  BY <1>4 DEF Core, IndexOK, Found
<1>7. HeldOK'
  <2>1. SharedOnly' = SharedOnly
    BY <1>4 DEF SharedOnly
  <2>2. ASSUME NEW x \in held PROVE HeldRight(x)'
    <3>1. HeldRight(x) /\ (AllShared(x.ref))' = AllShared(x.ref)
      BY <2>1 DEF Core, HeldOK, AllShared
    <3> QED
      BY <1>4, <3>1 DEF HeldRight
  <2> QED
    BY <2>2 DEF Core, HeldOK
<1> QED
  BY <1>1, <1>2, <1>3, <1>5, <1>6, <1>7 DEF Core

-----------------------------------------------------------------------------
(* A section ends *)

\* The chain of a section.
LEMMA ChainIs ==
  ASSUME NEW s, s.vars \in Seq(Level), s.primed \in Seq(Level), Len(s.primed) \in {0, Len(s.vars)}
  PROVE  LET chain == interleave_chains[<<s.vars, s.primed>>]
         IN  /\ chain \in Seq(Level)
             /\ IF s.primed = << >> THEN chain = s.vars
                ELSE InTurn(chain, s.vars, s.primed)
<1>1. CASE s.primed = << >>
  BY <1>1, TurnsAlone
<1>2. CASE s.primed # << >>
  <2>1. Len(s.primed) = Len(s.vars)
    BY <1>2, EmptySeq
  <2>2. InTurn(interleave_chains[<<s.vars, s.primed>>], s.vars, s.primed)
    BY <2>1, TurnsRight
  <2> QED
    BY <1>2, <2>2 DEF InTurn
<1> QED
  BY <1>1, <1>2

\* A root, on the thread that has read its section.
LEMMA RootIs ==
  ASSUME Start, NEW p \in Thread, LocalOK(p), NEW i \in 1 .. Len(file.sections),
         file.sections[i].last <= Len(refs[p])
  PROVE  LET s == file.sections[i]
         IN  ChildRight(file, store[p], data, Loaded(refs[p], s).bdd, s.root.mark, s.root.value)
<1>1. WellWritten(file)
  BY StartFacts
<1>2. PICK s : s = file.sections[i]
  OBVIOUS
<1>3. s.root.mark \in BOOLEAN /\ s.root.value \in 0 .. s.last /\ s.last \in Nat
  BY <1>1, <1>2, SectionFacts
<1>4. /\ refs[p] \in Seq(Ref) /\ Len(refs[p]) \in Nat /\ Len(refs[p]) <= Len(file.nodes)
      /\ LocalGood(store[p], data) /\ NumbersRight(file, store[p], data, refs[p])
  BY DEF LocalOK
<1>5. s.root.value \in 0 .. Len(refs[p])
  BY <1>2, <1>3, <1>4
<1>6. ChildRight(file, store[p], data, GetReversed(refs[p], s.root.mark, s.root.value), s.root.mark, s.root.value)
  BY <1>1, <1>3, <1>4, <1>5, ReversedRight
<1> QED
  BY <1>2, <1>6 DEF Loaded

\* The state after the end of a section by thread p, which found d.
Closes(p, d) ==
  /\ roots' = [roots EXCEPT ![p] = Append(@, d)]
  /\ IF Len(roots'[p]) = Len(file.sections)
     THEN /\ pc' = [pc EXCEPT ![p] = IF p = 0 THEN "mark" ELSE "compute"]
          /\ IF p = 0 THEN todo' = <<Visit(roots'[0][1].bdd)>> /\ item' = 1
             ELSE UNCHANGED <<todo, item>>
     ELSE UNCHANGED <<pc, todo, item>>
  /\ UNCHANGED <<inputVars, refs, store, tableVars, flight, held>>

LEMMA OneCall ==
  ASSUME NEW a, Usable(store[0], {}, a), NEW c, c = <<Visit(a)>>
  PROVE  /\ c \in Seq([ref : Ref, leaving : BOOLEAN])
         /\ \A k \in 1 .. Len(c) : Usable(store[0], {}, c[k].ref)
<1>1. PICK o \in BOOLEAN : o = FALSE
  OBVIOUS
<1>2. a \in Ref
  BY DEF Usable
<1>3. PICK x : x = [ref |-> a, leaving |-> o]
  OBVIOUS
<1>4. x \in [ref : Ref, leaving : BOOLEAN] /\ x.ref = a
  BY <1>2, <1>3
<1>5. c = <<x>>
  BY <1>1, <1>3 DEF Visit
<1> QED
  BY <1>4, <1>5

LEMMA EndSectionCore ==
  ASSUME Start, Core, NEW p \in Thread, EndSection(p)
  PROVE  Core'
<1>1. /\ WellWritten(file) /\ 0 \in Thread /\ Len(file.nodes) \in Nat /\ Len(file.sections) \in Nat \ {0}
      /\ Shapes /\ PhaseOK /\ LocalOK(p) /\ RootsOK(p)
  BY StartFacts DEF Core
<1>2. PICK n \in Nat : n = Len(roots[p])
  BY <1>1 DEF RootsOK
<1>3. pc[p] = "load" /\ pc[0] # "search" /\ n < Len(file.sections)
  BY <1>1, <1>2 DEF EndSection, PhaseOK, RootsOK
<1>4. n + 1 \in 1 .. Len(file.sections)
  BY <1>1, <1>2, <1>3
<1>5. PICK s : s = file.sections[n + 1]
  OBVIOUS
<1>6. PICK d : d = Loaded(refs[p], s)
  OBVIOUS
<1>7. Section(p) = s /\ s.last <= Len(refs[p])
  <2>1. Section(p) = s
    BY <1>2, <1>5 DEF Section
  <2>2. s.last \in Nat
    BY <1>1, <1>4, <1>5, SectionFacts
  <2>3. Len(refs[p]) \in Nat /\ Len(refs[p]) >= s.last
    BY <1>1, <2>1 DEF LocalOK, EndSection
  <2> QED
    BY <2>1, <2>2, <2>3
<1>8. d \in [bdd : Ref, chain : Seq(Level)]
  <2>1. d.bdd \in Ref
    <3>1. ChildRight(file, store[p], data, d.bdd, s.root.mark, s.root.value)
      BY <1>1, <1>4, <1>5, <1>6, <1>7, RootIs
    <3> QED
      BY <3>1 DEF ChildRight, Usable
  <2>2. d.chain \in Seq(Level)
    <3>1. d.chain = interleave_chains[<<s.vars, s.primed>>]
      BY <1>6 DEF Loaded
    <3>2. s.vars \in Seq(Level) /\ s.primed \in Seq(Level) /\ Len(s.primed) \in {0, Len(s.vars)}
      BY <1>1, <1>4, <1>5, SectionFacts
    <3> QED
      BY <3>1, <3>2, ChainIs
  <2> QED
    BY <1>6, <2>1, <2>2 DEF Loaded
<1>9. Closes(p, d)
  BY <1>6, <1>7 DEF EndSection, Closes, inputVars, tableVars
<1>10. /\ roots'[p] = Append(roots[p], d) /\ \A q \in Thread \ {p} : roots'[q] = roots[q]
       /\ UNCHANGED <<file, seed, build, refs, store, index, data, used, flight, held>>
       /\ Shapes'
  BY <1>1, <1>9 DEF Closes, Shapes, inputVars, tableVars
<1>11. /\ roots'[p] \in Seq([bdd : Ref, chain : Seq(Level)]) /\ Len(roots'[p]) = n + 1
       /\ roots'[p][n + 1] = d /\ \A i \in 1 .. n : roots'[p][i] = roots[p][i]
  <2>1. PICK T : T = [bdd : Ref, chain : Seq(Level)]
    OBVIOUS
  <2>2. roots[p] \in Seq(T) /\ d \in T
    BY <1>1, <1>8, <2>1 DEF RootsOK
  <2> QED
    BY <1>2, <1>10, <2>1, <2>2, AppendProperties
<1>12. /\ n + 1 = Len(file.sections) =>
            /\ pc' = [pc EXCEPT ![p] = IF p = 0 THEN "mark" ELSE "compute"]
            /\ p = 0 => todo' = <<Visit(roots'[0][1].bdd)>> /\ item' = 1
            /\ p # 0 => UNCHANGED <<todo, item>>
       /\ n + 1 # Len(file.sections) => UNCHANGED <<pc, todo, item>>
  BY <1>9, <1>11 DEF Closes
<1>13. pc \in [Thread -> Phases]
  BY DEF Start
<1>14. /\ \A q \in Thread \ {p} : pc'[q] = pc[q]
       /\ pc'[p] = IF n + 1 # Len(file.sections) THEN "load" ELSE IF p = 0 THEN "mark" ELSE "compute"
       /\ p # 0 => item' = item /\ todo' = todo
       /\ p = 0 => item' = IF n + 1 # Len(file.sections) THEN item ELSE 1
  BY <1>3, <1>12, <1>13
<1>15. PhaseOK'
  <2>1. CASE p = 0
    <3>1. pc'[0] \in {"load", "mark"} /\ (pc'[0] # "load" => item' > 0)
      BY <1>14, <2>1
    <3>2. \A q \in Thread : q # 0 => pc'[q] \in {"load", "compute", "search"}
      BY <1>1, <1>14, <2>1 DEF PhaseOK
    <3>3. \A q \in Thread : pc'[q] # "search"
      BY <1>1, <1>3, <1>14, <2>1, <3>1 DEF PhaseOK
    <3> QED
      BY <1>10, <3>1, <3>2, <3>3 DEF PhaseOK
  <2>2. CASE p # 0
    <3>1. pc'[0] = pc[0] /\ item' = item
      BY <1>1, <1>14, <2>2
    <3>2. \A q \in Thread : q # 0 => pc'[q] \in {"load", "compute", "search"}
      BY <1>1, <1>14, <2>2 DEF PhaseOK
    <3>3. \A q \in Thread : pc'[q] # "search"
      BY <1>1, <1>3, <1>14, <2>2 DEF PhaseOK
    <3> QED
      BY <1>1, <1>10, <3>1, <3>2, <3>3 DEF PhaseOK
  <2> QED
    BY <2>1, <2>2
<1>16. pc[0] # "search" /\ pc'[0] # "search"
  BY <1>1, <1>3, <1>15, <1>14
<1>17. UsedOK' /\ UniqueOK' /\ IndexOK' /\ TableOK' /\ HeldOK'
  BY <1>10, <1>16, BeforeSearch
<1>18. RootsOK(p)'
  <2>1. n + 1 <= Len(file.sections) /\ ((pc'[p] = "load") = (n + 1 < Len(file.sections)))
    BY <1>1, <1>4, <1>14
  <2>2. pc'[p] # "load" => Len(refs[p]) = Len(file.nodes)
    <3>1. SUFFICES ASSUME n + 1 = Len(file.sections) PROVE Len(refs[p]) = Len(file.nodes)
      BY <1>14
    <3>2. s.last = Len(file.nodes)
      BY <1>1, <1>5, <3>1, SectionFacts
    <3>3. Len(refs[p]) \in Nat /\ Len(refs[p]) <= Len(file.nodes)
      BY <1>1 DEF LocalOK
    <3> QED
      BY <1>1, <1>7, <3>2, <3>3
  <2>3. ASSUME NEW i \in 1 .. n + 1
        PROVE  file.sections[i].last <= Len(refs[p]) /\ roots'[p][i] = Loaded(refs[p], file.sections[i])
    <3>1. CASE i = n + 1
      BY <1>5, <1>6, <1>7, <1>11, <3>1
    <3>2. CASE i # n + 1
      <4>1. i \in 1 .. n
        BY <3>2
      <4> QED
        BY <1>1, <1>2, <1>11, <4>1 DEF RootsOK
    <3> QED
      BY <3>1, <3>2
  <2> QED
    BY <1>10, <1>11, <2>1, <2>2, <2>3 DEF RootsOK
<1>19. ASSUME NEW q \in Thread PROVE LocalOK(q)' /\ LeavesOK(q)' /\ RootsOK(q)'
  <2>1. LocalOK(q) /\ LeavesOK(q) /\ RootsOK(q)
    BY DEF Core
  <2>2. pc'[q] = "load" => pc[q] = "load"
    BY <1>3, <1>14
  <2>3. LocalOK(q)' /\ LeavesOK(q)'
    BY <1>10, <2>1, <2>2, SameLocal, SameLeaves
  <2>4. CASE q = p
    BY <1>18, <2>3, <2>4
  <2>5. CASE q # p
    <3>1. UNCHANGED <<file, refs[q], roots[q]>> /\ ((pc'[q] = "load") = (pc[q] = "load"))
      BY <1>10, <1>14, <2>5
    <3> QED
      BY <2>1, <2>3, <3>1, SameRoots
  <2> QED
    BY <2>4, <2>5
<1>20. CountOK'
  <2>1. CASE p # 0
    BY <1>1, <1>10, <1>14, <2>1 DEF Core, CountOK
  <2>2. CASE p = 0 /\ n + 1 # Len(file.sections)
    BY <1>14, <2>2 DEF CountOK
  <2>3. CASE p = 0 /\ n + 1 = Len(file.sections)
    <3>1. PICK a : a = roots'[0][1].bdd
      OBVIOUS
    <3>2. 1 \in 1 .. Len(roots'[0]) /\ 1 \in 1 .. Len(file.sections)
      BY <1>1, <1>11, <2>3
    <3>3. RootsOK(0)'
      BY <1>18, <2>3
    <3>4. file.sections[1].last <= Len(refs[0]) /\ roots'[0][1] = Loaded(refs[0], file.sections[1])
      BY <1>10, <3>2, <3>3 DEF RootsOK
    <3>5. \E mark, k : ChildRight(file, store[0], data, a, mark, k)
      BY <1>1, <2>3, <3>1, <3>2, <3>4, RootIs
    <3>6. Usable(store[0], {}, a)
      BY <3>5 DEF ChildRight
    <3>7. todo' = <<Visit(a)>> /\ store' = store
      BY <1>10, <1>12, <2>3, <3>1
    <3> QED
      BY <3>6, <3>7, OneCall DEF CountOK
  <2> QED
    BY <2>1, <2>2, <2>3
<1> QED
  BY <1>10, <1>15, <1>17, <1>19, <1>20 DEF Core

-----------------------------------------------------------------------------
(* The count of nodes *)

LEMMA AlikeGrows ==
  ASSUME NEW l \in [LocalIndex -> Node \cup {None}], NEW s, LocalGood(l, s),
         NEW k \in [LocalIndex -> Node \cup {None}], Alike(k, l)
  PROVE  /\ Grows(l, s, {}, k, s, {}) /\ LocalGood(k, s)
         /\ k[0] = None => l[0] = None
<1>1. Grows(l, s, {}, k, s, {})
  BY DEF Alike, Grows
<1>2. ASSUME NEW i \in LocalIndex, k[i] # None
      PROVE  k[i] \in Node /\ \E n : SameNode(k[i], n) /\ GoodNode(l, s, {}, n)
  BY <1>2 DEF Alike, LocalGood
<1>3. LocalGood(k, s)
  BY <1>1, <1>2, LocalGrows
<1>4. 0 \in LocalIndex
  BY LocalAssumption DEF LocalIndex
<1> QED
  BY <1>1, <1>3, <1>4 DEF Alike

\* Thread 0 changes at most the marks of its local store.
Counts ==
  /\ UNCHANGED <<file, seed, build, refs, roots, index, data, used, flight, held>>
  /\ pc[0] \in {"mark", "unmark"}
  /\ \E phase \in {"mark", "unmark", "compute"} : pc' = [pc EXCEPT ![0] = phase]
  /\ store' = [p \in Thread |-> store'[p]]
  /\ \A p \in Thread \ {0} : store'[p] = store[p]
  /\ store'[0] \in [LocalIndex -> Node \cup {None}] /\ Alike(store'[0], store[0])

LEMMA CountCore ==
  ASSUME Start, Core, Counts, CountOK', item' > 0, pc'[0] = "compute" => item' = Len(file.sections)
  PROVE  Core'
<1>1. /\ 0 \in Thread /\ Shapes /\ PhaseOK /\ pc \in [Thread -> Phases]
  BY StartFacts DEF Core, Start
<1>2. Shapes'
  BY <1>1 DEF Shapes, Counts
<1>3. pc'[0] \in {"mark", "unmark", "compute"} /\ \A p \in Thread : p # 0 => pc'[p] = pc[p]
  BY <1>1 DEF Counts
<1>4. PhaseOK'
  BY <1>1, <1>3 DEF PhaseOK, Counts
<1>5. UsedOK' /\ UniqueOK' /\ IndexOK' /\ TableOK' /\ HeldOK'
  BY <1>3, BeforeSearch DEF Counts
<1>6. ASSUME NEW p \in Thread PROVE LocalOK(p)' /\ LeavesOK(p)' /\ RootsOK(p)'
  <2>1. LocalOK(p) /\ LeavesOK(p) /\ RootsOK(p)
    BY DEF Core
  <2>2. (pc'[p] = "load") = (pc[p] = "load")
    BY <1>3 DEF Counts
  <2>3. RootsOK(p)'
    BY <2>1, <2>2, SameRoots DEF Counts
  <2>4. CASE p # 0
    BY <2>1, <2>2, <2>3, <2>4, SameLocal, SameLeaves DEF Counts
  <2>5. CASE p = 0
    <3>1. PICK l : l = store[0]
      OBVIOUS
    <3>2. PICK k : k = store'[0]
      OBVIOUS
    <3>3. PICK rs : rs = refs[0]
      OBVIOUS
    <3>4. /\ rs \in Seq(Ref) /\ Len(rs) <= Len(file.nodes)
          /\ l \in [LocalIndex -> Node \cup {None}]
          /\ LocalGood(l, data)
          /\ NumbersRight(file, l, data, rs)
      BY <2>1, <2>5, <3>1, <3>3 DEF LocalOK
    <3>5. k \in [LocalIndex -> Node \cup {None}] /\ Alike(k, l)
      BY <3>1, <3>2 DEF Counts
    <3>6. Grows(l, data, {}, k, data, {}) /\ LocalGood(k, data) /\ (k[0] = None => l[0] = None)
      BY <3>4, <3>5, AlikeGrows
    <3>7. NumbersRight(file, k, data, rs)
      <4>1. ASSUME NEW j \in 1 .. Len(rs) PROVE NumberRight(file, k, data, rs[j], j)
        <5>1. PICK a : a = rs[j]
          OBVIOUS
        <5>2. NumberRight(file, l, data, a, j)
          BY <3>4, <5>1 DEF NumbersRight
        <5> QED
          BY <3>4, <3>6, <5>1, <5>2, NumberGrows
      <4> QED
        BY <4>1 DEF NumbersRight
    <3>8. UNCHANGED <<file, seed, data, refs>>
      BY DEF Counts
    <3>9. LocalOK(0)'
      BY <3>2, <3>3, <3>4, <3>5, <3>6, <3>7, <3>8 DEF LocalOK
    <3>10. LeavesOK(0)'
      <4>1. PICK m : Leaves(file, seed, Len(rs), [refs |-> rs, store |-> m]) /\ Alike(l, m)
        BY <2>1, <2>5, <3>1, <3>3 DEF LeavesOK
      <4>2. Alike(k, m)
        BY <3>5, <4>1 DEF Alike, SameNode
      <4> QED
        BY <1>3, <3>2, <3>3, <3>8, <4>1, <4>2 DEF LeavesOK
    <3> QED
      BY <2>3, <2>5, <3>9, <3>10
  <2> QED
    BY <2>4, <2>5
<1> QED
  BY <1>2, <1>4, <1>5, <1>6 DEF Core

\* The first call, when one is made or returns.
LEMMA CallFacts ==
  ASSUME Core, pc[0] \in {"mark", "unmark"}, todo # << >>
  PROVE  /\ todo \in Seq([ref : Ref, leaving : BOOLEAN])
         /\ Usable(store[0], {}, Here)
         /\ Tail(todo) \in Seq([ref : Ref, leaving : BOOLEAN])
         /\ \A k \in 1 .. Len(Tail(todo)) : Usable(store[0], {}, Tail(todo)[k].ref)
<1>1. todo \in Seq([ref : Ref, leaving : BOOLEAN]) /\ \A k \in 1 .. Len(todo) : Usable(store[0], {}, todo[k].ref)
  BY DEF Core, CountOK
<1>2. PICK T : T = [ref : Ref, leaving : BOOLEAN]
  OBVIOUS
<1>3. todo \in Seq(T)
  BY <1>1, <1>2
<1>4. /\ Head(todo) = todo[1] /\ 1 \in 1 .. Len(todo)
      /\ Tail(todo) \in Seq(T) /\ Len(Tail(todo)) = Len(todo) - 1 /\ Len(todo) \in Nat
      /\ \A k \in 1 .. Len(Tail(todo)) : Tail(todo)[k] = todo[k + 1]
  BY <1>3, HeadTailProperties, EmptySeq, LenProperties
<1>5. \A k \in 1 .. Len(Tail(todo)) : k + 1 \in 1 .. Len(todo)
  BY <1>4
<1> QED
  BY <1>1, <1>2, <1>4, <1>5 DEF Here

LEMMA TailCore ==
  ASSUME Start, Core, pc[0] \in {"mark", "unmark"}, todo # << >>, todo' = Tail(todo),
         UNCHANGED <<file, seed, build, pc, refs, roots, store, index, data, used, flight, item, held>>
  PROVE  Core'
<1>1. Shapes /\ PhaseOK /\ 0 \in Thread /\ LocalOK(0) /\ pc \in [Thread -> Phases]
  BY StartFacts DEF Core, Start
<1>2. CountOK'
  BY CallFacts DEF CountOK
<1>3. Counts
  <2>1. Alike(store'[0], store[0])
    BY DEF Alike, SameNode
  <2>2. pc' = [pc EXCEPT ![0] = pc[0]]
    BY <1>1
  <2>3. store'[0] \in [LocalIndex -> Node \cup {None}] /\ store' = [p \in Thread |-> store'[p]]
    BY <1>1 DEF LocalOK, Shapes
  <2> QED
    BY <2>1, <2>2, <2>3 DEF Counts
<1>4. item' > 0
  BY <1>1 DEF PhaseOK
<1> QED
  BY <1>2, <1>3, <1>4, CountCore

\* Calls to usable references.
Calling(l, c) ==
  /\ c \in Seq([ref : Ref, leaving : BOOLEAN])
  /\ \A k \in 1 .. Len(c) : Usable(l, {}, c[k].ref)

LEMMA CallingTwo ==
  ASSUME NEW l, NEW c, Calling(l, c), NEW d, Calling(l, d)
  PROVE  Calling(l, c \o d)
<1>1. PICK T : T = [ref : Ref, leaving : BOOLEAN]
  OBVIOUS
<1>2. c \in Seq(T) /\ d \in Seq(T)
  BY <1>1 DEF Calling
<1>3. /\ c \o d \in Seq(T) /\ Len(c \o d) = Len(c) + Len(d) /\ Len(c) \in Nat /\ Len(d) \in Nat
      /\ \A k \in 1 .. Len(c) + Len(d) : (c \o d)[k] = IF k <= Len(c) THEN c[k] ELSE d[k - Len(c)]
  BY <1>2, ConcatProperties, LenProperties
<1>4. ASSUME NEW k \in 1 .. Len(c) + Len(d) PROVE Usable(l, {}, (c \o d)[k].ref)
  <2>1. CASE k <= Len(c)
    BY <1>3, <2>1 DEF Calling
  <2>2. CASE ~(k <= Len(c))
    <3>1. k - Len(c) \in 1 .. Len(d) /\ (c \o d)[k] = d[k - Len(c)]
      BY <1>3, <2>2
    <3> QED
      BY <3>1 DEF Calling
  <2> QED
    BY <2>1, <2>2
<1> QED
  BY <1>1, <1>3, <1>4 DEF Calling

LEMMA CallingOne ==
  ASSUME NEW l, NEW a, Usable(l, {}, a), NEW leaving \in BOOLEAN
  PROVE  Calling(l, <<[ref |-> a, leaving |-> leaving]>>)
<1>1. PICK x : x = [ref |-> a, leaving |-> leaving]
  OBVIOUS
<1>2. x \in [ref : Ref, leaving : BOOLEAN] /\ x.ref = a
  BY <1>1 DEF Usable
<1>3. <<x>> \in Seq([ref : Ref, leaving : BOOLEAN]) /\ Len(<<x>>) = 1 /\ <<x>>[1] = x
  BY <1>2
<1> QED
  BY <1>1, <1>2, <1>3 DEF Calling

LEMMA CallingVisit ==
  ASSUME NEW l, NEW a, Usable(l, {}, a)
  PROVE  Calling(l, <<Visit(a)>>) /\ Calling(l, <<Leave(a)>>)
<1>1. \A o \in BOOLEAN : Calling(l, <<[ref |-> a, leaving |-> o]>>)
  BY CallingOne
<1>2. Calling(l, <<[ref |-> a, leaving |-> FALSE]>>) /\ Calling(l, <<[ref |-> a, leaving |-> TRUE]>>)
  <2>1. PICK o \in BOOLEAN : o = FALSE
    OBVIOUS
  <2>2. PICK u \in BOOLEAN : u = TRUE
    OBVIOUS
  <2>3. Calling(l, <<[ref |-> a, leaving |-> o]>>) /\ Calling(l, <<[ref |-> a, leaving |-> u]>>)
    BY <1>1
  <2> QED
    BY <2>1, <2>2, <2>3
<1> QED
  BY <1>2 DEF Visit, Leave

\* The same calls while the marks change.
LEMMA CallingAlike ==
  ASSUME NEW l, NEW k, Alike(k, l), NEW c, Calling(l, c)
  PROVE  Calling(k, c)
<1>1. \A a : Usable(l, {}, a) => Usable(k, {}, a)
  BY DEF Usable, Alike
<1> QED
  BY <1>1 DEF Calling

LEMMA VisitNodeCore ==
  ASSUME Start, Core, VisitNode
  PROVE  Core'
<1>1. /\ Shapes /\ PhaseOK /\ 0 \in Thread /\ LocalOK(0) /\ pc \in [Thread -> Phases]
      /\ pc[0] \in {"mark", "unmark"} /\ todo # << >>
  BY StartFacts DEF Core, Start, VisitNode, Visiting, Counting
<1>2. PICK a : a = Here
  OBVIOUS
<1>3. PICK l : l = store[0]
  OBVIOUS
<1>4. /\ Usable(l, {}, a) /\ Calling(l, Tail(todo))
  BY <1>1, <1>2, <1>3, CallFacts DEF Calling
<1>5. ~IsConst(a) /\ l \in [LocalIndex -> Node \cup {None}] /\ LocalGood(l, data)
  BY <1>1, <1>2, <1>3 DEF VisitNode, LocalOK
<1>6. a.local /\ a.idx \in LocalIndex /\ l[a.idx] # None
  BY <1>4, <1>5 DEF Usable
<1>7. PICK n : n = NodeAt(0, a)
  OBVIOUS
<1>8. n = l[a.idx] /\ n \in Node /\ GoodNode(l, data, {}, n)
  BY <1>3, <1>5, <1>6, <1>7 DEF NodeAt, LocalGood
<1>9. PICK d \in BOOLEAN : d = (pc[0] = "mark")
  BY ZenonT(20)
<1>10. PICK m : m = [n EXCEPT !.data = d]
  OBVIOUS
<1>11. m \in Node /\ SameNode(m, n)
  BY <1>8, <1>10 DEF Node, SameNode
<1>12. m # None
  BY <1>11, EntryAssumption
<1>13. /\ SetData(a, m)
       /\ todo' = Calls(n) \o <<Leave(a)>> \o Tail(todo)
  BY <1>2, <1>7, <1>9, <1>10 DEF VisitNode
<1>14. store' = [store EXCEPT ![0][a.idx] = m] /\ UNCHANGED <<data, flight>>
  BY <1>6, <1>13 DEF SetData
<1>15. UNCHANGED <<file, seed, build, pc, refs, roots, index, used, item, held>>
  BY DEF VisitNode, inputVars, loadVars
<1>16. PICK k : k = [l EXCEPT ![a.idx] = m]
  OBVIOUS
<1>17. /\ store' = [p \in Thread |-> store'[p]] /\ \A p \in Thread \ {0} : store'[p] = store[p]
       /\ store'[0] = k
  BY <1>1, <1>3, <1>14, <1>16 DEF Shapes
<1>18. k \in [LocalIndex -> Node \cup {None}]
  BY <1>5, <1>11, <1>16
<1>19. Alike(k, l)
  <2>1. k[a.idx] = m /\ \A i \in LocalIndex : i # a.idx => k[i] = l[i]
    BY <1>5, <1>6, <1>16
  <2> QED
    BY <1>6, <1>8, <1>11, <1>12, <2>1 DEF Alike, SameNode
<1>20. Counts
  <2>1. pc' = [pc EXCEPT ![0] = pc[0]]
    BY <1>1, <1>15
  <2> QED
    BY <1>1, <1>3, <1>14, <1>15, <1>17, <1>18, <1>19, <2>1 DEF Counts
<1>21. Calling(l, todo')
  <2>1. Calling(l, <<Visit(n.low)>>) /\ Calling(l, <<Visit(n.high)>>) /\ Calling(l, <<Leave(a)>>)
    BY <1>4, <1>8, CallingVisit DEF GoodNode
  <2>2. Calling(l, <<Visit(n.low)>> \o <<Visit(n.high)>>)
    BY <2>1, CallingTwo
  <2>3. Calls(n) = <<Visit(n.low)>> \o <<Visit(n.high)>>
    BY DEF Calls
  <2>4. PICK c : c = Calls(n)
    OBVIOUS
  <2>5. PICK e : e = <<Leave(a)>>
    OBVIOUS
  <2>6. PICK g : g = Tail(todo)
    OBVIOUS
  <2>7. Calling(l, c) /\ Calling(l, e) /\ Calling(l, g)
    BY <1>4, <2>1, <2>2, <2>3, <2>4, <2>5, <2>6
  <2>8. Calling(l, c \o e)
    BY <2>7, CallingTwo
  <2>9. Calling(l, (c \o e) \o g)
    BY <2>7, <2>8, CallingTwo
  <2> QED
    BY <1>13, <2>4, <2>5, <2>6, <2>9
<1>22. CountOK'
  BY <1>17, <1>19, <1>21, CallingAlike DEF CountOK, Calling
<1> QED
  BY <1>1, <1>15, <1>20, <1>22, CountCore DEF PhaseOK

\* Thread 0 begins to visit a diagram that it has loaded.
LEMMA BeginCore ==
  ASSUME Start, Core, pc[0] \in {"mark", "unmark"}, NEW i \in 1 .. Len(file.sections),
         todo' = <<Visit(roots[0][i].bdd)>>, NEW phase \in {"mark", "unmark"}, pc' = [pc EXCEPT ![0] = phase],
         item' > 0,
         UNCHANGED <<file, seed, build, refs, roots, store, index, data, used, flight, held>>
  PROVE  Core'
<1>1. Shapes /\ PhaseOK /\ 0 \in Thread /\ LocalOK(0) /\ RootsOK(0) /\ pc \in [Thread -> Phases]
      /\ Len(file.sections) \in Nat
  BY StartFacts DEF Core, Start
<1>2. Len(roots[0]) = Len(file.sections)
  <2>1. ~(Len(roots[0]) < Len(file.sections)) /\ Len(roots[0]) <= Len(file.sections)
    BY <1>1 DEF RootsOK
  <2>2. Len(roots[0]) \in Nat
    BY <1>1 DEF RootsOK
  <2> QED
    BY <1>1, <2>1, <2>2
<1>3. file.sections[i].last <= Len(refs[0]) /\ roots[0][i] = Loaded(refs[0], file.sections[i])
  BY <1>1, <1>2 DEF RootsOK
<1>4. \E mark, k : ChildRight(file, store[0], data, roots[0][i].bdd, mark, k)
  BY <1>1, <1>3, RootIs
<1>5. Usable(store[0], {}, roots[0][i].bdd)
  BY <1>4 DEF ChildRight
<1>6. CountOK'
  BY <1>5, CallingVisit DEF CountOK, Calling
<1>7. Counts
  <2>1. Alike(store'[0], store[0])
    BY DEF Alike, SameNode
  <2>2. store'[0] \in [LocalIndex -> Node \cup {None}] /\ store' = [p \in Thread |-> store'[p]]
    BY <1>1 DEF LocalOK, Shapes
  <2> QED
    BY <2>1, <2>2 DEF Counts
<1>8. pc'[0] # "compute"
  BY <1>1
<1> QED
  BY <1>6, <1>7, <1>8, CountCore

LEMMA MarkedCore ==
  ASSUME Start, Core, Marked, item <= Len(file.sections)
  PROVE  Core'
<1>1. PhaseOK /\ Len(file.sections) \in Nat /\ item \in Nat
  BY StartFacts DEF Core, Start
<1>2. pc[0] = "mark" /\ item > 0
  BY <1>1 DEF Marked, PhaseOK
<1>3. item \in 1 .. Len(file.sections)
  BY <1>1, <1>2
<1>4. todo' = <<Visit(roots[0][item].bdd)>>
  BY DEF Marked, Diagram
<1>5. /\ pc' = [pc EXCEPT ![0] = "unmark"] /\ item' > 0
      /\ UNCHANGED <<file, seed, build, refs, roots, store, index, data, used, flight, held>>
  BY <1>2 DEF Marked, inputVars, loadVars, tableVars
<1> QED
  BY <1>2, <1>3, <1>4, <1>5, BeginCore

LEMMA UnmarkedCore ==
  ASSUME Start, Core, Unmarked, item' <= Len(file.sections)
  PROVE  Core'
<1>1. PhaseOK /\ Len(file.sections) \in Nat /\ item \in Nat /\ Shapes /\ LocalOK(0) /\ 0 \in Thread
      /\ pc \in [Thread -> Phases]
  BY StartFacts DEF Core, Start
<1>2. pc[0] = "unmark" /\ item > 0
  BY <1>1 DEF Unmarked, PhaseOK
<1>3. UNCHANGED <<file, seed, build, refs, roots, store, index, data, used, flight, held>>
  BY DEF Unmarked, inputVars, loadVars, tableVars
<1>4. CASE item < Len(file.sections)
  <2>1. item + 1 \in 1 .. Len(file.sections) /\ item + 1 <= Len(file.sections)
    BY <1>1, <1>4
  <2>2. item' = item + 1 /\ todo' = <<Visit(Diagram(item + 1))>> /\ pc' = [pc EXCEPT ![0] = "mark"]
    BY <1>1, <1>4 DEF Unmarked
  <2>3. Diagram(item + 1) = roots[0][item + 1].bdd
    BY <2>1 DEF Diagram
  <2>4. item' > 0
    BY <1>1, <2>2
  <2> QED
    BY <1>2, <1>3, <2>1, <2>2, <2>3, <2>4, BeginCore
<1>5. CASE item >= Len(file.sections)
  <2>1. item' = item /\ pc' = [pc EXCEPT ![0] = IF item = Len(file.sections) THEN "compute" ELSE "finish"]
    BY <1>1, <1>5 DEF Unmarked
  <2>2. item = Len(file.sections)
    BY <1>1, <1>5, <2>1
  <2>3. pc' = [pc EXCEPT ![0] = "compute"] /\ pc'[0] = "compute"
    BY <1>1, <2>1, <2>2
  <2>4. CountOK'
    BY <2>3 DEF CountOK
  <2>5. Counts
    <3>1. Alike(store'[0], store[0])
      BY <1>3 DEF Alike, SameNode
    <3>2. store'[0] \in [LocalIndex -> Node \cup {None}] /\ store' = [p \in Thread |-> store'[p]]
      BY <1>1, <1>3 DEF LocalOK, Shapes
    <3> QED
      BY <1>2, <1>3, <2>3, <3>1, <3>2 DEF Counts
  <2> QED
    BY <1>2, <1>3, <2>1, <2>2, <2>4, <2>5, CountCore
<1> QED
  BY <1>1, <1>4, <1>5

-----------------------------------------------------------------------------
(* The search begins *)

\* All threads have read the same.
LEMMA AllAlike ==
  ASSUME Start, Core, NEW p \in Thread, pc[p] # "load", NEW q \in Thread, pc[q] # "load"
  PROVE  /\ refs[p] = refs[q] /\ Len(refs[p]) = Len(file.nodes)
         /\ \E l : Alike(store[p], l) /\ Alike(store[q], l)
<1>1. LeavesOK(p) /\ LeavesOK(q) /\ RootsOK(p) /\ RootsOK(q)
  BY DEF Core
<1>2. Len(refs[p]) = Len(file.nodes) /\ Len(refs[q]) = Len(file.nodes) /\ Len(file.nodes) \in Nat
  BY <1>1, StartFacts DEF RootsOK
<1>3. PICK n \in Nat : n = Len(file.nodes)
  BY <1>2
<1>4. PICK l : Leaves(file, seed, n, [refs |-> refs[p], store |-> l]) /\ Alike(store[p], l)
  BY <1>1, <1>2, <1>3 DEF LeavesOK
<1>5. PICK k : Leaves(file, seed, n, [refs |-> refs[q], store |-> k]) /\ Alike(store[q], k)
  BY <1>1, <1>2, <1>3 DEF LeavesOK
<1>6. PICK x : x = [refs |-> refs[p], store |-> l]
  OBVIOUS
<1>7. PICK y : y = [refs |-> refs[q], store |-> k]
  OBVIOUS
<1>8. x = y
  BY <1>4, <1>5, <1>6, <1>7, LeavesSame
<1>9. refs[p] = refs[q] /\ l = k
  BY <1>6, <1>7, <1>8
<1> QED
  BY <1>2, <1>4, <1>5, <1>9

LEMMA ConstHeld ==
  ASSUME NEW l, NEW s, NEW U
  PROVE  Usable(l, U, bdd_false) /\ Mean(l, s, bdd_false) = {}
<1>1. PICK o \in BOOLEAN : o = FALSE
  OBVIOUS
<1>2. PICK a : a = [bdd_false EXCEPT !.mark = o]
  OBVIOUS
<1>3. a = [mark |-> o, local |-> FALSE, idx |-> 0] /\ a \in Ref /\ IsConst(a)
  BY <1>2, ConstantIs
<1>4. a = bdd_false
  BY <1>1, <1>3 DEF bdd_false
<1>5. Mean(l, s, a) = {}
  BY <1>1, <1>3, MeanConst
<1> QED
  BY <1>3, <1>4, <1>5 DEF Usable

LEMMA AllArrivedCore ==
  ASSUME Start, Core, AllArrived
  PROVE  Core'
<1>1. /\ Shapes /\ PhaseOK /\ 0 \in Thread /\ Len(file.sections) \in Nat \ {0}
      /\ UsedOK /\ UniqueOK /\ IndexOK /\ TableOK
  BY StartFacts DEF Core
<1>2. /\ \A p \in Thread : pc[p] = "compute" /\ pc'[p] = "search"
      /\ UNCHANGED <<file, seed, build, refs, roots, store, index, data, used, flight, todo, item>>
  BY DEF AllArrived, inputVars, loadVars, tableVars, countVars
<1>3. Shapes' /\ PhaseOK'
  BY <1>1, <1>2 DEF Shapes, PhaseOK
<1>4. ASSUME NEW p \in Thread PROVE LocalOK(p)' /\ LeavesOK(p)' /\ RootsOK(p)'
  BY <1>2, SameLocal, SameLeaves, SameRoots DEF Core
<1>5. CountOK' /\ UsedOK'
  BY <1>1, <1>2 DEF CountOK, UsedOK
<1>6. Stored' = Stored /\ ZeroFree' = ZeroFree
  BY <1>2 DEF Stored, ZeroFree
<1>7. UniqueOK' /\ TableOK'
  BY <1>1, <1>2, <1>6 DEF UniqueOK, TableOK
<1>8. IndexOK'
  BY <1>1, <1>2, <1>6 DEF IndexOK, Found
<1>9. ASSUME NEW x \in held' PROVE HeldRight(x)'
  <2>1. CASE x = [ref |-> bdd_false, sem |-> {}]
    BY <2>1, ConstHeld DEF HeldRight
  <2>2. ASSUME NEW p \in Thread, NEW i \in 1 .. Len(file.sections),
               x = [ref |-> roots[p][i].bdd, sem |-> RootSem(file, i)]
        PROVE  HeldRight(x)'
    <3>1. PICK s : s = file.sections[i]
      OBVIOUS
    <3>2. PICK a : a = roots[p][i].bdd
      OBVIOUS
    <3>3. RootsOK(p) /\ pc[p] # "load"
      BY <1>2 DEF Core
    <3>4. i \in 1 .. Len(roots[p])
      <4>1. ~(Len(roots[p]) < Len(file.sections)) /\ Len(roots[p]) <= Len(file.sections) /\ Len(roots[p]) \in Nat
        BY <3>3 DEF RootsOK
      <4> QED
        BY <1>1, <4>1
    <3>5. s.last <= Len(refs[p]) /\ a = Loaded(refs[p], s).bdd
      BY <3>1, <3>2, <3>3, <3>4 DEF RootsOK
    <3>6. ASSUME NEW q \in Thread
          PROVE  ChildRight(file, store[q], data, a, s.root.mark, s.root.value)
      <4>1. refs[p] = refs[q]
        BY <1>2, AllAlike
      <4>2. LocalOK(q)
        BY DEF Core
      <4> QED
        BY <3>1, <3>5, <4>1, <4>2, RootIs
    <3>7. x = [ref |-> a, sem |-> FileSem(file, s.root.mark, s.root.value)]
      BY <2>2, <3>1, <3>2 DEF RootSem
    <3>8. x.ref = a /\ x.sem = FileSem(file, s.root.mark, s.root.value) /\ x = [ref |-> x.ref, sem |-> x.sem]
      BY <3>7
    <3>9. x.sem \in SUBSET Env
      BY <3>8 DEF FileSem
    <3>10. ASSUME NEW q \in Thread PROVE Usable(store'[q], Stored', x.ref)
      BY <1>2, <3>6, <3>8, LocalUsable DEF ChildRight
    <3>11. ASSUME ZeroFree' \/ AllShared(a)', NEW q \in Thread
           PROVE  Mean(store'[q], data', x.ref) = x.sem
      <4>1. ~a.local \/ store[q][0] = None
        BY <1>6, <3>11 DEF AllShared, ZeroFree
      <4> QED
        BY <1>2, <3>6, <3>8, <4>1 DEF ChildRight
    <3> QED
      BY <3>8, <3>9, <3>10, <3>11 DEF HeldRight
  <2> QED
    BY <2>1, <2>2 DEF AllArrived
<1>10. HeldOK'
  BY <1>1, <1>2, <1>9 DEF HeldOK
<1> QED
  BY <1>3, <1>4, <1>5, <1>7, <1>8, <1>10 DEF Core

-----------------------------------------------------------------------------
(* The search makes a node *)

LEMMA MemoryIs ==
  ASSUME Core, NEW p \in Thread
  PROVE  Memory(store[p], data, Stored)
  BY DEF Core, LocalOK, TableOK, Memory

LEMMA SharedNot ==
  ASSUME NEW a \in Ref, NEW b \in Ref, Side(a, b)
  PROVE  AllShared(a) = AllShared(b)
  BY DEF AllShared, Side

\* Also what tasks may use is right.
LEMMA OperandRight ==
  ASSUME Core, NEW x \in Operand
  PROVE  HeldRight(x)
<1>1. CASE x \in held
  BY <1>1 DEF Core, HeldOK
<1>2. ASSUME NEW y \in held, x = [ref |-> bdd_not(y.ref), sem |-> Env \ y.sem]
      PROVE  HeldRight(x)
  <2>1. HeldRight(y)
    BY DEF Core, HeldOK
  <2>2. PICK a : a = y.ref
    OBVIOUS
  <2>3. PICK b : b = bdd_not(a)
    OBVIOUS
  <2>4. \A p \in Thread : Usable(store[p], Stored, a)
    BY <2>1, <2>2 DEF HeldRight
  <2>5. a \in Ref
    <3>1. 0 \in Thread
      BY MainAssumption DEF Thread
    <3> QED
      BY <2>4, <3>1 DEF Usable
  <2>6. b \in Ref /\ Side(b, a)
    BY <2>3, <2>5, NotProps DEF Side
  <2>7. x.ref = b /\ x.sem = Env \ y.sem /\ x = [ref |-> x.ref, sem |-> x.sem]
    BY <1>2, <2>2, <2>3
  <2>8. \A p \in Thread : Usable(store[p], Stored, b)
    BY <2>4, <2>5, <2>6, UsableSide
  <2>9. AllShared(b) = AllShared(a)
    BY <2>5, <2>6, SharedNot
  <2>10. ASSUME ZeroFree \/ AllShared(b), NEW p \in Thread PROVE Mean(store[p], data, b) = x.sem
    <3>1. Mean(store[p], data, a) = y.sem
      BY <2>1, <2>2, <2>9, <2>10 DEF HeldRight
    <3>2. PICK U : U = Stored
      OBVIOUS
    <3>3. Memory(store[p], data, U) /\ Usable(store[p], U, a)
      BY <2>4, <3>2, MemoryIs
    <3>4. Mean(store[p], data, b) = Env \ Mean(store[p], data, a)
      BY <2>3, <3>3, MeanNot
    <3> QED
      BY <2>7, <3>1, <3>4
  <2>11. x.sem \in SUBSET Env
    BY <2>7
  <2> QED
    BY <2>7, <2>8, <2>10, <2>11 DEF HeldRight
<1> QED
  BY <1>1, <1>2 DEF Operand

\* The level of a reference is the same on all threads.
LEMMA DepthAlike ==
  ASSUME NEW l, NEW m, NEW k, Alike(l, m), Alike(k, m), NEW s, NEW U, NEW a, Usable(l, U, a)
  PROVE  Depth(k, s, a) = Depth(l, s, a)
<1>1. CASE IsConst(a)
  BY <1>1 DEF Depth
<1>2. CASE ~IsConst(a) /\ ~a.local
  BY <1>2 DEF Depth, At
<1>3. CASE ~IsConst(a) /\ a.local /\ a.idx \in LocalIndex /\ l[a.idx] # None
  <2>1. SameNode(l[a.idx], m[a.idx]) /\ SameNode(k[a.idx], m[a.idx])
    BY <1>3 DEF Alike
  <2> QED
    BY <1>3, <2>1 DEF Depth, At, SameNode
<1> QED
  BY <1>1, <1>2, <1>3 DEF Usable

\* What a task has when it makes node n at place i of the table.
Makes(p, l, x, y, i, n) ==
  /\ pc[p] = "search" /\ n = NodeOf(l, x.ref, y.ref)
  /\ l < LevelAt(p, x.ref) /\ l < LevelAt(p, y.ref) /\ x.ref # y.ref
  /\ Made(l, x, y, i)

\* The table gains the node, or has it.
Gains(i, n) ==
  /\ UsedOK' /\ UniqueOK' /\ IndexOK' /\ data' \in [0 .. TableSize - 1 -> Node \cup {None}]
  /\ Stored \subseteq Stored' /\ \A j \in Stored : data'[j] = data[j]
  /\ i \in Stored' /\ data'[i] = n /\ \A j \in Stored' : j \in Stored \/ data'[j] = n

\* References to what was stored are shared if they were.
LEMMA SharedBefore ==
  ASSUME Core, NEW i, NEW n, Gains(i, n), NEW p \in Thread, NEW a, Usable(store[p], Stored, a), AllShared(a)'
  PROVE  AllShared(a)
<1>1. PICK S \in SUBSET Stored' :
        /\ \A j \in S : \A b \in {data'[j].low, data'[j].high} : ~b.local /\ b.idx \in S \cup {0}
        /\ a.idx \in S \cup {0}
  <2>1. 0 \in Thread
    BY MainAssumption DEF Thread
  <2>2. CASE a.idx = 0
    <3>1. PICK S : S = {}
      OBVIOUS
    <3>2. S \in SUBSET Stored' /\ a.idx \in S \cup {0}
      BY <2>2, <3>1
    <3>3. \A j \in S : \A b \in {data'[j].low, data'[j].high} : ~b.local /\ b.idx \in S \cup {0}
      BY <3>1
    <3> QED
      BY <3>2, <3>3
  <2>3. CASE a.idx # 0
    BY <2>3 DEF AllShared, SharedOnly
  <2> QED
    BY <2>2, <2>3
<1>2. PICK R : R = S \cap Stored
  OBVIOUS
<1>3. ASSUME NEW j \in R, NEW b, b = data[j].low \/ b = data[j].high PROVE ~b.local /\ b.idx \in R \cup {0}
  <2>1. j \in Stored /\ j \in S /\ data'[j] = data[j]
    BY <1>2 DEF Gains
  <2>2. ~b.local /\ b.idx \in S \cup {0}
    BY <1>1, <1>3, <2>1
  <2>3. GoodNode(store[p], data, Stored, data[j])
    BY <2>1 DEF Core, TableOK, SharedGood
  <2>4. Usable(store[p], Stored, b)
    BY <1>3, <2>3 DEF GoodNode
  <2> QED
    BY <1>2, <2>2, <2>4 DEF Usable, IsConst
<1>4. R \in SUBSET Stored
  BY <1>2
<1>5. R \subseteq SharedOnly
  <2>1. \A j \in R : \A b \in {data[j].low, data[j].high} : ~b.local /\ b.idx \in R \cup {0}
    BY <1>3
  <2> QED
    BY <1>4, <2>1 DEF SharedOnly
<1>6. ~a.local
  BY DEF AllShared
<1>7. a.idx \in R \cup {0}
  BY <1>1, <1>2, <1>6 DEF Usable, IsConst
<1> QED
  BY <1>5, <1>6, <1>7 DEF AllShared

\* The children of a node that is shared are.
Closed(U, s) ==
  UNION {S \in SUBSET U : \A i \in S : \A a \in {s[i].low, s[i].high} : ~a.local /\ a.idx \in S \cup {0}}

LEMMA SharedBelow ==
  ASSUME NEW U, NEW s, NEW i \in Closed(U, s), NEW b, b = s[i].low \/ b = s[i].high
  PROVE  ~b.local /\ b.idx \in Closed(U, s) \cup {0}
<1>1. PICK S \in SUBSET U :
        /\ \A j \in S : \A c \in {s[j].low, s[j].high} : ~c.local /\ c.idx \in S \cup {0}
        /\ i \in S
  BY DEF Closed
<1>2. ~b.local /\ b.idx \in S \cup {0}
  BY <1>1
<1>3. S \subseteq Closed(U, s)
  BY <1>1 DEF Closed
<1> QED
  BY <1>2, <1>3

LEMMA MakeCore ==
  ASSUME Start, Core, NEW p \in Thread, NEW l \in Level, NEW x \in Operand, NEW y \in Operand,
         NEW i, NEW n, Makes(p, l, x, y, i, n), Gains(i, n)
  PROVE  Core'
<1>1. /\ Shapes /\ PhaseOK /\ 0 \in Thread
      /\ UsedOK /\ UniqueOK /\ IndexOK /\ TableOK /\ HeldOK
  BY StartFacts DEF Core
<1>2. UNCHANGED <<file, seed, build, pc, refs, roots, store, flight, todo, item>>
  BY DEF Makes, Made, inputVars, loadVars, countVars
<1>3. \A q \in Thread : pc[q] = "search"
  BY <1>1 DEF Makes, PhaseOK
<1>4. PICK a : a = x.ref
  OBVIOUS
<1>5. PICK b : b = y.ref
  OBVIOUS
<1>6. HeldRight(x) /\ HeldRight(y)
  BY OperandRight
<1>7. \A q \in Thread : Memory(store[q], data, Stored) /\ Usable(store[q], Stored, a) /\ Usable(store[q], Stored, b)
  BY <1>4, <1>5, <1>6, MemoryIs DEF HeldRight
<1>8. a \in Ref /\ b \in Ref
  BY <1>1, <1>7 DEF Usable
<1>9. ASSUME NEW q \in Thread PROVE GoodNode(store[q], data, Stored, n)
  <2>1. PICK m : Alike(store[p], m) /\ Alike(store[q], m)
    BY <1>3, AllAlike
  <2>2. Depth(store[q], data, a) = Depth(store[p], data, a) /\ Depth(store[q], data, b) = Depth(store[p], data, b)
    BY <1>7, <2>1, DepthAlike
  <2>3. \A c : Depth(store[p], data, c) = LevelAt(p, c)
    BY DEF Depth, LevelAt, NodeAt, At
  <2>4. l < Depth(store[q], data, a) /\ l < Depth(store[q], data, b)
    BY <1>4, <1>5, <2>2, <2>3 DEF Makes
  <2>5. n = NodeOf(l, a, b)
    BY <1>4, <1>5 DEF Makes
  <2>6. GoodNode(store[q], data, Stored, NodeOf(l, a, b))
    BY <1>7, <2>4, NewGood
  <2> QED
    BY <2>5, <2>6
<1>10. /\ n \in Node /\ n # None /\ n.level = l
       /\ n.low = bdd_stripmark(a) /\ n.high = bdd_transfermark(a, b)
  BY <1>4, <1>5, <1>8, NewNode DEF Makes
<1>11. ASSUME NEW q \in Thread
       PROVE  /\ Grows(store[q], data, Stored, store[q], data', Stored')
              /\ Grows(store[q], data, {}, store[q], data', {})
  BY DEF Grows, SameNode, Gains
<1>12. Stored' \subseteq 1 .. TableSize - 1
  <2>1. UsedRight(build', used') /\ Stored' = Places(used')
    BY DEF Gains, UsedOK, Stored, Places
  <2> QED
    BY <2>1, StoredIs
<1>13. ASSUME NEW q \in Thread PROVE SharedGood(store[q], data', Stored')
  <2>1. ASSUME NEW j \in Stored'
        PROVE  data'[j] \in Node /\ \E o : SameNode(data'[j], o) /\ GoodNode(store[q], data, Stored, o)
    <3>1. CASE j \in Stored
      <4>1. data'[j] = data[j]
        BY <3>1 DEF Gains
      <4>2. GoodNode(store[q], data, Stored, data[j])
        BY <1>1, <3>1 DEF TableOK, SharedGood
      <4> QED
        BY <4>1, <4>2 DEF SameNode, GoodNode
    <3>2. CASE data'[j] = n
      BY <1>9, <1>10, <3>2 DEF SameNode
    <3> QED
      BY <3>1, <3>2 DEF Gains
  <2>2. Stored' \subseteq Nat
    BY <1>12
  <2> QED
    BY <1>7, <1>11, <2>1, <2>2, SharedGrows
<1>14. TableOK'
  BY <1>1, <1>2, <1>13 DEF TableOK, Gains
<1>15. ASSUME NEW q \in Thread PROVE LocalOK(q)' /\ LeavesOK(q)' /\ RootsOK(q)'
  <2>1. LocalOK(q) /\ LeavesOK(q) /\ RootsOK(q)
    BY DEF Core
  <2>2. LeavesOK(q)' /\ RootsOK(q)'
    BY <1>2, <2>1, SameLeaves, SameRoots
  <2>3. /\ refs[q] \in Seq(Ref) /\ Len(refs[q]) <= Len(file.nodes)
        /\ store[q] \in [LocalIndex -> Node \cup {None}]
        /\ LocalGood(store[q], data) /\ NumbersRight(file, store[q], data, refs[q])
    BY <2>1 DEF LocalOK
  <2>4. LocalGood(store[q], data')
    <3>1. ASSUME NEW j \in LocalIndex, store[q][j] # None
          PROVE  store[q][j] \in Node /\ \E o : SameNode(store[q][j], o) /\ GoodNode(store[q], data, {}, o)
      BY <2>3, <3>1 DEF LocalGood, SameNode
    <3> QED
      BY <1>11, <2>3, <3>1, LocalGrows
  <2>5. NumbersRight(file, store[q], data', refs[q])
    <3>1. ASSUME NEW j \in 1 .. Len(refs[q]) PROVE NumberRight(file, store[q], data', refs[q][j], j)
      <4>1. PICK c : c = refs[q][j]
        OBVIOUS
      <4>2. NumberRight(file, store[q], data, c, j)
        BY <2>3, <4>1 DEF NumbersRight
      <4> QED
        BY <1>11, <2>3, <4>1, <4>2, NumberGrows
    <3> QED
      BY <3>1 DEF NumbersRight
  <2>6. LocalOK(q)'
    BY <1>2, <2>3, <2>4, <2>5 DEF LocalOK
  <2> QED
    BY <2>2, <2>6
<1>16. ZeroFree' = ZeroFree
  BY <1>2 DEF ZeroFree
<1>17. ASSUME NEW z, HeldRight(z) PROVE HeldRight(z)'
  <2>1. PICK c : c = z.ref
    OBVIOUS
  <2>2. z = [ref |-> z.ref, sem |-> z.sem] /\ z.sem \in SUBSET Env /\ \A q \in Thread : Usable(store[q], Stored, c)
    BY <1>17, <2>1 DEF HeldRight
  <2>3. \A q \in Thread : Usable(store[q], Stored', c)
    BY <1>7, <1>11, <2>2, GrowsAgree
  <2>4. ASSUME ZeroFree' \/ AllShared(c)', NEW q \in Thread PROVE Mean(store[q], data', c) = z.sem
    <3>1. ZeroFree \/ AllShared(c)
      BY <1>16, <2>2, <2>4, SharedBefore
    <3>2. Mean(store[q], data, c) = z.sem
      BY <1>17, <2>1, <3>1 DEF HeldRight
    <3>3. Mean(store[q], data', c) = Mean(store[q], data, c)
      BY <1>7, <1>11, <2>2, GrowsMean
    <3> QED
      BY <3>2, <3>3
  <2> QED
    BY <1>2, <2>1, <2>2, <2>3, <2>4 DEF HeldRight
<1>18. PICK z : z = [ref |-> Reference(a, FALSE, i), sem |-> Mux(l, x.sem, y.sem)]
  OBVIOUS
<1>19. held' = held \cup {z}
  BY <1>4, <1>18 DEF Makes, Made
<1>20. HeldRight(z)'
  <2>1. PICK c : c = Reference(a, FALSE, i)
    OBVIOUS
  <2>2. i \in Stored' /\ i \in 0 .. TableSize - 1 /\ i # 0 /\ data'[i] = n
    BY <1>12 DEF Gains
  <2>3. c \in Ref /\ SameMark(c, a) /\ ~c.local /\ c.idx = i
    BY <1>8, <2>1, <2>2, SharedReference
  <2>4. ~IsConst(c) /\ \A q \in Thread : Usable(store[q], Stored', c) /\ At(store[q], data', c) = n
    BY <2>2, <2>3 DEF Usable, IsConst, At
  <2>5. z.ref = c /\ z.sem = Mux(l, x.sem, y.sem) /\ z = [ref |-> z.ref, sem |-> z.sem] /\ z.sem \in SUBSET Env
    <3>1. z.ref = c /\ z.sem = Mux(l, x.sem, y.sem) /\ z = [ref |-> z.ref, sem |-> z.sem]
      BY <1>18, <2>1
    <3> QED
      BY <3>1 DEF Mux
  <2>6. ASSUME ZeroFree' \/ AllShared(c)', NEW q \in Thread PROVE Mean(store[q], data', c) = z.sem
    <3>1. ASSUME AllShared(c)' PROVE AllShared(a) /\ AllShared(b)
      <4>1. PICK d : d = data'[c.idx].low
        OBVIOUS
      <4>2. PICK e : e = data'[c.idx].high
        OBVIOUS
      <4>3. AllShared(d)' /\ AllShared(e)'
        <5>1. \A f : AllShared(f)' = (~f.local /\ f.idx \in Closed(Stored', data') \cup {0})
          BY DEF AllShared, SharedOnly, Closed
        <5>2. c.idx \in Closed(Stored', data')
          BY <2>2, <2>3, <3>1, <5>1
        <5>3. /\ ~d.local /\ d.idx \in Closed(Stored', data') \cup {0}
              /\ ~e.local /\ e.idx \in Closed(Stored', data') \cup {0}
          BY <4>1, <4>2, <5>2, SharedBelow
        <5> QED
          BY <5>1, <5>3
      <4>4. d \in Ref /\ Side(d, a) /\ e \in Ref /\ Side(e, b)
        <5>1. d = bdd_stripmark(a) /\ e = bdd_transfermark(a, b)
          BY <1>10, <2>2, <2>3, <4>1, <4>2
        <5> QED
          BY <1>8, <5>1, MovedMark
      <4>5. AllShared(a)' /\ AllShared(b)'
        <5>1. \A g, f : g.local = f.local /\ g.idx = f.idx /\ AllShared(g)' => AllShared(f)'
          BY DEF AllShared
        <5> QED
          BY <4>3, <4>4, <5>1 DEF Side
      <4> QED
        BY <1>1, <1>7, <4>5, SharedBefore
    <3>2. ZeroFree \/ (AllShared(a) /\ AllShared(b))
      BY <1>16, <2>6, <3>1
    <3>3. Mean(store[q], data, a) = x.sem /\ Mean(store[q], data, b) = y.sem
      BY <1>4, <1>5, <1>6, <3>2 DEF HeldRight
    <3>4. Mean(store[q], data', a) = x.sem /\ Mean(store[q], data', b) = y.sem
      BY <1>7, <1>11, <3>3, GrowsMean
    <3>5. Usable(store[q], Stored', a) /\ Usable(store[q], Stored', b)
      BY <1>7, <1>11, GrowsAgree
    <3>6. Memory(store[q], data', Stored')
      BY <1>2, <1>13, <1>15 DEF Memory, LocalOK
    <3>7. PICK W : W = Stored'
      OBVIOUS
    <3>8. PICK t : t = data'
      OBVIOUS
    <3>9. /\ Memory(store[q], t, W) /\ Usable(store[q], W, a) /\ Usable(store[q], W, b) /\ Usable(store[q], W, c)
          /\ n = At(store[q], t, c)
      BY <2>4, <3>5, <3>6, <3>7, <3>8
    <3>10. Mean(store[q], t, c) = Mux(n.level, Mean(store[q], t, a), Mean(store[q], t, b))
      BY <1>10, <2>3, <2>4, <3>9, MeanMade
    <3> QED
      BY <1>10, <2>5, <3>4, <3>8, <3>10
  <2> QED
    BY <1>2, <2>4, <2>5, <2>6 DEF HeldRight
<1>21. HeldOK'
  <2>1. \A w \in held : HeldRight(w)'
    BY <1>1, <1>17 DEF HeldOK
  <2>2. pc'[0] = "search"
    BY <1>1, <1>2, <1>3
  <2> QED
    BY <1>19, <1>20, <2>1, <2>2 DEF HeldOK
<1>22. Shapes' /\ PhaseOK' /\ CountOK'
  BY <1>1, <1>2, <1>3 DEF Shapes, PhaseOK, CountOK
<1> QED
  BY <1>14, <1>15, <1>21, <1>22 DEF Core, Gains

LEMMA MakesIs ==
  ASSUME Core, NEW p \in Thread, NEW l \in MadeLevels, NEW x \in Operand, NEW y \in Operand, MayMake(p, l, x, y),
         NEW i, Made(l, x, y, i), NEW n, n = NodeOf(l, x.ref, y.ref)
  PROVE  /\ l \in Level /\ Makes(p, l, x, y, i, n)
         /\ n \in Node /\ ~n.data /\ ~n.low.mark /\ n.low # n.high
<1>1. l \in Level
  BY MainAssumption DEF Level
<1>2. PICK a : a = x.ref
  OBVIOUS
<1>3. PICK b : b = y.ref
  OBVIOUS
<1>4. a \in Ref /\ b \in Ref /\ a # b
  <2>1. 0 \in Thread
    BY MainAssumption DEF Thread
  <2>2. HeldRight(x) /\ HeldRight(y)
    BY OperandRight
  <2>3. Usable(store[0], Stored, a) /\ Usable(store[0], Stored, b)
    BY <1>2, <1>3, <2>1, <2>2 DEF HeldRight
  <2> QED
    BY <1>2, <1>3, <2>3 DEF Usable, MayMake
<1>5. n \in Node /\ ~n.data /\ n.low = bdd_stripmark(a) /\ n.high = bdd_transfermark(a, b)
  BY <1>1, <1>2, <1>3, <1>4, NewNode
<1>6. n.low.mark = FALSE /\ n.low # n.high
  <2>1. bdd_stripmark(a).mark = FALSE
    BY <1>4, MovedMark
  <2>2. (bdd_stripmark(a) = bdd_transfermark(a, b)) = (a = b)
    BY <1>4, MovedMark
  <2>3. bdd_stripmark(a) # bdd_transfermark(a, b)
    BY <1>4, <2>2
  <2> QED
    BY <1>5, <2>1, <2>3
<1> QED
  BY <1>1, <1>5, <1>6 DEF Makes, MayMake

LEMMA MakeFindGains ==
  ASSUME Start, Core, NEW p \in Thread, NEW l \in MadeLevels, NEW x \in Operand, NEW y \in Operand,
         MakeFind(p, l, x, y)
  PROVE  \E i, n : Makes(p, l, x, y, i, n) /\ Gains(i, n)
<1>1. PICK n : n = NodeOf(l, x.ref, y.ref)
  OBVIOUS
<1>2. PICK i \in Stored : data[i] = n /\ Made(l, x, y, i)
  BY <1>1 DEF MakeFind
<1>3. MayMake(p, l, x, y) /\ UNCHANGED <<index, data, used>>
  BY DEF MakeFind, tableVars
<1>4. l \in Level /\ Makes(p, l, x, y, i, n)
  BY <1>1, <1>2, <1>3, MakesIs
<1>5. UNCHANGED <<seed, build, pc>>
  BY <1>2 DEF Made, inputVars
<1>6. UsedOK /\ UniqueOK /\ IndexOK /\ TableOK
  BY DEF Core
<1>7. Stored' = Stored
  BY <1>3 DEF Stored
<1>8. UsedOK' /\ UniqueOK'
  BY <1>3, <1>5, <1>6, <1>7 DEF UsedOK, UniqueOK
<1>9. IndexOK'
  BY <1>3, <1>5, <1>6, <1>7 DEF IndexOK, Found
<1>10. Gains(i, n)
  BY <1>2, <1>3, <1>6, <1>7, <1>8, <1>9 DEF Gains, TableOK
<1> QED
  BY <1>4, <1>10

\* The place is new, and so is the node.
LEMMA NewUnique ==
  ASSUME UniqueOK, NEW n, ~n.data, ~n.low.mark, n.low # n.high, NEW i, Stored' = Stored \cup {i}, i \notin Stored,
         data'[i] = n, \A j \in Stored : data'[j] = data[j] /\ data[j] # n
  PROVE  UniqueOK'
  BY DEF UniqueOK

LEMMA Blocks ==
  ASSUME NEW p \in Nat, NEW q \in Nat, p < q, NEW d \in Nat
  PROVE  p * d + d <= q * d
<1>1. PICK c \in Nat : q = (p + 1) + c
  <2>1. q - (p + 1) \in Nat /\ q = (p + 1) + (q - (p + 1))
    OBVIOUS
  <2> QED
    BY <2>1
<1>2. q * d = (p * d + d) + c * d
  BY <1>1
<1>3. c * d \in Nat /\ p * d \in Nat
  OBVIOUS
<1> QED
  BY <1>2, <1>3

\* The next place of a thread.
LEMMA NextPlace ==
  ASSUME NEW u \in [Thread -> Nat \ {0}], NEW p \in Thread, NEW w, w = [u EXCEPT ![p] = @ + 1]
  PROVE  Places(w) = Places(u) \cup {p * DataSize + u[p]}
<1>1. w \in [Thread -> Nat \ {0}] /\ w[p] = u[p] + 1 /\ \A q \in Thread \ {p} : w[q] = u[q]
  OBVIOUS
<1>2. \A z, v : z \in Places(v) <=> \E q \in Thread : \E j \in 1 .. v[q] - 1 : z = q * DataSize + j
  BY DEF Places
<1>3. ASSUME NEW z \in Places(w) PROVE z \in Places(u) \cup {p * DataSize + u[p]}
  <2>0. PICK q \in Thread : \E j \in 1 .. w[q] - 1 : z = q * DataSize + j
    BY <1>2
  <2>1. PICK j \in 1 .. w[q] - 1 : z = q * DataSize + j
    BY <2>0
  <2>2. CASE q = p /\ j = u[p]
    BY <2>1, <2>2
  <2>3. CASE ~(q = p /\ j = u[p])
    <3>1. j \in 1 .. u[q] - 1
      BY <1>1, <2>3
    <3> QED
      BY <1>2, <2>1, <3>1
  <2> QED
    BY <2>2, <2>3
<1>4. ASSUME NEW z \in Places(u) PROVE z \in Places(w)
  <2>0. PICK q \in Thread : \E j \in 1 .. u[q] - 1 : z = q * DataSize + j
    BY <1>2
  <2>1. PICK j \in 1 .. u[q] - 1 : z = q * DataSize + j
    BY <2>0
  <2>2. j \in 1 .. w[q] - 1
    BY <1>1
  <2> QED
    BY <1>2, <2>1, <2>2
<1>5. p * DataSize + u[p] \in Places(w)
  <2>1. u[p] \in 1 .. w[p] - 1
    BY <1>1
  <2>2. PICK j \in 1 .. w[p] - 1 : j = u[p]
    BY <2>1
  <2> QED
    BY <1>2, <2>2
<1> QED
  BY <1>3, <1>4, <1>5

LEMMA PlaceFree ==
  ASSUME NEW u \in [Thread -> Nat \ {0}], \A q \in Thread : u[q] <= DataSize, NEW p \in Thread, u[p] < DataSize
  PROVE  p * DataSize + u[p] \notin Places(u)
<1> SUFFICES ASSUME p * DataSize + u[p] \in Places(u) PROVE FALSE
  OBVIOUS
<1>0. PICK q \in Thread : \E j \in 1 .. u[q] - 1 : p * DataSize + u[p] = q * DataSize + j
  BY DEF Places
<1>1. PICK j \in 1 .. u[q] - 1 : p * DataSize + u[p] = q * DataSize + j
  BY <1>0
<1>2. PICK d \in Nat : d = DataSize
  BY MainAssumption
<1>3. PICK b \in Nat : b = p * d
  BY <1>2 DEF Thread
<1>4. PICK c \in Nat : c = q * d
  BY <1>2 DEF Thread
<1>5. b + u[p] = c + j /\ u[p] \in Nat /\ u[p] < d /\ j \in Nat /\ j < d /\ u[p] > 0 /\ j > 0
  BY <1>1, <1>2, <1>3, <1>4
<1>6. p \in Nat /\ q \in Nat
  BY DEF Thread
<1>7. CASE p = q
  BY <1>1, <1>3, <1>4, <1>5, <1>7
<1>8. CASE p < q
  <2>1. b + d <= c
    BY <1>3, <1>4, <1>6, <1>8, Blocks
  <2> QED
    BY <1>5, <2>1
<1>9. CASE q < p
  <2>1. c + d <= b
    BY <1>3, <1>4, <1>6, <1>9, Blocks
  <2> QED
    BY <1>5, <2>1
<1> QED
  BY <1>6, <1>7, <1>8, <1>9

LEMMA MakePutGains ==
  ASSUME Start, Core, NEW p \in Thread, NEW l \in MadeLevels, NEW x \in Operand, NEW y \in Operand,
         MakePut(p, l, x, y)
  PROVE  \E i, n : Makes(p, l, x, y, i, n) /\ Gains(i, n)
<1>1. PICK n : n = NodeOf(l, x.ref, y.ref)
  OBVIOUS
<1>2. PICK i : i = p * DataSize + used[p]
  OBVIOUS
<1>3. /\ build = "par" /\ MayMake(p, l, x, y) /\ used[p] < DataSize
      /\ \A j \in Stored : data[j] # n
      /\ data' = [data EXCEPT ![i] = n] /\ Made(l, x, y, i)
      /\ used' = [used EXCEPT ![p] = @ + 1] /\ index' = index
  BY <1>1, <1>2 DEF MakePut
<1>4. /\ l \in Level /\ Makes(p, l, x, y, i, n)
      /\ n \in Node /\ ~n.data /\ ~n.low.mark /\ n.low # n.high
  BY <1>1, <1>3, MakesIs
<1>5. UNCHANGED <<seed, build, pc>>
  BY <1>3 DEF Made, inputVars
<1>6. UsedOK /\ UniqueOK /\ IndexOK /\ TableOK /\ PhaseOK /\ 0 \in Thread
  BY StartFacts DEF Core
<1>7. used \in [Thread -> Nat \ {0}] /\ \A q \in Thread : used[q] <= DataSize
  BY <1>3, <1>6 DEF UsedOK, UsedRight
<1>8. Stored' = Stored \cup {i} /\ i \notin Stored
  <2>1. Stored = Places(used) /\ Stored' = Places(used')
    BY DEF Stored, Places
  <2>2. Places(used') = Places(used) \cup {i}
    BY <1>2, <1>3, <1>7, NextPlace
  <2>3. i \notin Places(used)
    BY <1>2, <1>3, <1>7, PlaceFree
  <2> QED
    BY <2>1, <2>2, <2>3
<1>9. UsedOK'
  <2>1. used'[p] = used[p] + 1 /\ \A q \in Thread \ {p} : used'[q] = used[q]
    BY <1>3, <1>7
  <2>2. used' \in [Thread -> Nat \ {0}]
    BY <1>3, <1>7
  <2>3. used'[p] <= DataSize
    <3>1. DataSize \in Nat
      BY MainAssumption
    <3> QED
      BY <1>3, <1>7, <2>1, <3>1
  <2>4. UsedRight(build', used')
    BY <1>3, <1>5, <1>7, <2>1, <2>2, <2>3 DEF UsedRight
  <2>5. pc'[0] = "search"
    BY <1>3, <1>5, <1>6 DEF MayMake, PhaseOK
  <2> QED
    BY <2>4, <2>5 DEF UsedOK
<1>10. i \in 0 .. TableSize - 1
  <2>1. UsedRight(build', used') /\ i \in Places(used')
    BY <1>8, <1>9 DEF UsedOK, Stored, Places
  <2>2. Places(used') \subseteq 1 .. TableSize - 1
    BY <2>1, StoredIs
  <2> QED
    BY <2>1, <2>2
<1>11. data' \in [0 .. TableSize - 1 -> Node \cup {None}] /\ data'[i] = n /\ \A j \in Stored : data'[j] = data[j]
  BY <1>3, <1>4, <1>6, <1>8, <1>10 DEF TableOK
<1>12. UniqueOK'
  BY <1>3, <1>4, <1>6, <1>8, <1>11, NewUnique
<1>13. IndexOK'
  BY <1>3, <1>5, <1>6, <1>8 DEF IndexOK
<1>14. Gains(i, n)
  BY <1>8, <1>9, <1>11, <1>12, <1>13 DEF Gains
<1> QED
  BY <1>4, <1>14

\* A lookup in the table of the sequential build inspects buckets.
LEMMA ProbeIs ==
  ASSUME NEW n \in Node, NEW s \in Seeds, NEW m \in 0 .. Attempts * ChunkSize - 1
  PROVE  Probe(n, s, m) \in 0 .. TableSize - 1
<1>1. Attempts \in Nat \ {0} /\ ChunkSize \in Nat \ {0} /\ TableSize \in Nat \ {0}
  BY SeqAssumption
<1>2. PICK k \in Nat : k = m \div ChunkSize
  BY <1>1
<1>3. PICK r \in 0 .. ChunkSize - 1 : r = m % ChunkSize
  BY <1>1
<1>4. m = ChunkSize * k + r
  BY <1>1, <1>2, <1>3
<1>5. k + 1 \in 1 .. Attempts
  <2> SUFFICES ASSUME k >= Attempts PROVE FALSE
    BY <1>1
  <2>1. PICK c \in Nat : k = Attempts + c
    <3>1. k - Attempts \in Nat /\ k = Attempts + (k - Attempts)
      BY <1>1
    <3> QED
      BY <3>1
  <2>2. PICK g \in Nat : g = Attempts * ChunkSize
    BY <1>1
  <2>3. ChunkSize * k = g + ChunkSize * c
    BY <1>1, <2>1, <2>2
  <2>4. ChunkSize * c \in Nat
    BY <1>1
  <2>5. m <= g - 1
    BY <2>2
  <2> QED
    BY <1>4, <2>3, <2>4, <2>5
<1>6. PICK h \in Nat : h = NodeHash(n, k + 1, s)
  BY <1>5, EntryAssumption
<1>7. PICK z \in Nat : z = (h % TableSize) + r
  BY <1>1
<1>8. z % TableSize \in 0 .. TableSize - 1
  BY <1>1
<1> QED
  BY <1>2, <1>3, <1>6, <1>7, <1>8 DEF Probe

\* It ends at a free bucket or at the node, after others.
LEMMA BucketIs ==
  ASSUME NEW x, NEW t, NEW n \in Node, NEW s \in Seeds, SeqRoom(x, t, n, s)
  PROVE  \E m \in 0 .. Attempts * ChunkSize - 1 :
           /\ SeqBucket(x, t, n, s) = Probe(n, s, m)
           /\ x[Probe(n, s, m)] = Empty \/ t[x[Probe(n, s, m)]] = n
           /\ \A k \in 0 .. m - 1 : x[Probe(n, s, k)] # Empty /\ t[x[Probe(n, s, k)]] # n
<1>1. PICK S : S = SeqStop(x, t, n, s)
  OBVIOUS
<1>2. PICK z : z = Attempts * ChunkSize - 1
  OBVIOUS
<1>3. z \in Int
  <2>1. Attempts \in Nat /\ ChunkSize \in Nat
    BY SeqAssumption
  <2>2. PICK g \in Nat : g = Attempts * ChunkSize
    BY <2>1
  <2> QED
    BY <1>2, <2>2
<1>4. S = {m \in 0 .. z : x[Probe(n, s, m)] = Empty \/ t[x[Probe(n, s, m)]] = n}
  BY <1>1, <1>2 DEF SeqStop
<1>5. S \in SUBSET Nat /\ S # {}
  BY <1>1, <1>3, <1>4 DEF SeqRoom
<1>6. PICK m : m = Min(S)
  OBVIOUS
<1>7. m \in S /\ \A k \in S : m <= k
  BY <1>5, <1>6, MinIs
<1>8. m \in 0 .. z /\ (x[Probe(n, s, m)] = Empty \/ t[x[Probe(n, s, m)]] = n)
  BY <1>4, <1>7
<1>9. ASSUME NEW k \in 0 .. m - 1 PROVE x[Probe(n, s, k)] # Empty /\ t[x[Probe(n, s, k)]] # n
  <2>1. k \in 0 .. z /\ ~(m <= k)
    BY <1>3, <1>8
  <2> QED
    BY <1>4, <1>7, <2>1
<1>10. SeqBucket(x, t, n, s) = Probe(n, s, m)
  BY <1>1, <1>6 DEF SeqBucket
<1> QED
  BY <1>2, <1>8, <1>9, <1>10

\* In the sequential build the other threads store nothing.
LEMMA SeqPlaces ==
  ASSUME NEW u, UsedRight("seq", u)
  PROVE  \A z : z \in Places(u) <=> z \in 1 .. u[0] - 1
<1>1. 0 \in Thread /\ DataSize \in Nat
  BY MainAssumption DEF Thread
<1>2. u \in [Thread -> Nat \ {0}] /\ \A q \in Thread \ {0} : u[q] = 1
  BY DEF UsedRight
<1>3. \A z : z \in Places(u) <=> \E q \in Thread : \E j \in 1 .. u[q] - 1 : z = q * DataSize + j
  BY DEF Places
<1>4. ASSUME NEW z \in Places(u) PROVE z \in 1 .. u[0] - 1
  <2>1. PICK q \in Thread : \E j \in 1 .. u[q] - 1 : z = q * DataSize + j
    BY <1>3
  <2>2. PICK j \in 1 .. u[q] - 1 : z = q * DataSize + j
    BY <2>1
  <2>3. q = 0
    BY <1>2, <2>2
  <2>4. PICK b : b = q * DataSize
    OBVIOUS
  <2>5. b = 0
    BY <1>1, <2>3, <2>4
  <2>6. z = j /\ j \in 1 .. u[0] - 1
    BY <1>1, <1>2, <2>2, <2>3, <2>4, <2>5
  <2> QED
    BY <2>6
<1>5. ASSUME NEW z \in 1 .. u[0] - 1 PROVE z \in Places(u)
  <2>1. z = 0 * DataSize + z
    BY <1>1
  <2> QED
    BY <1>1, <1>3, <2>1
<1> QED
  BY <1>4, <1>5

LEMMA MakeSeqGains ==
  ASSUME Start, Core, NEW l \in MadeLevels, NEW x \in Operand, NEW y \in Operand, MakeSeq(l, x, y)
  PROVE  \E i, n : Makes(0, l, x, y, i, n) /\ Gains(i, n)
<1>1. PICK n : n = NodeOf(l, x.ref, y.ref)
  OBVIOUS
<1>2. PICK b : b = SeqBucket(index, data, n, seed)
  OBVIOUS
<1>3. PICK u : u = used[0]
  OBVIOUS
<1>4. PICK i : i = index'[b]
  OBVIOUS
<1>5. /\ build = "seq" /\ MayMake(0, l, x, y) /\ u < TableSize /\ SeqRoom(index, data, n, seed)
      /\ data' = [data EXCEPT ![u] = n] /\ Made(l, x, y, i)
      /\ index[b] = Empty => index' = [index EXCEPT ![b] = u] /\ used' = [used EXCEPT ![0] = @ + 1]
      /\ index[b] # Empty => index' = index /\ used' = used
  BY <1>1, <1>2, <1>3, <1>4 DEF MakeSeq
<1>6. UsedOK /\ UniqueOK /\ IndexOK /\ TableOK /\ PhaseOK /\ 0 \in Thread /\ seed \in Seeds
  BY StartFacts DEF Core, Start
<1>7. /\ l \in Level /\ Makes(0, l, x, y, i, n)
      /\ n \in Node /\ ~n.data /\ ~n.low.mark /\ n.low # n.high
  BY <1>1, <1>5, <1>6, MakesIs
<1>8. UNCHANGED <<seed, build, pc>>
  BY <1>5 DEF Made, inputVars
<1>9. UsedRight("seq", used) /\ used \in [Thread -> Nat \ {0}] /\ u \in Nat \ {0}
  BY <1>3, <1>5, <1>6 DEF UsedOK, UsedRight
<1>10. \A z : z \in Stored <=> z \in 1 .. u - 1
  <2>1. Stored = Places(used)
    BY DEF Stored, Places
  <2> QED
    BY <1>3, <1>9, <2>1, SeqPlaces
<1>11. PICK m \in 0 .. Attempts * ChunkSize - 1 :
         /\ b = Probe(n, seed, m)
         /\ index[b] = Empty \/ data[index[b]] = n
         /\ \A k \in 0 .. m - 1 : index[Probe(n, seed, k)] # Empty /\ data[index[Probe(n, seed, k)]] # n
  BY <1>2, <1>5, <1>6, <1>7, BucketIs
<1>12. /\ index \in [0 .. TableSize - 1 -> Stored \cup {Empty}] /\ b \in 0 .. TableSize - 1
       /\ \A j \in Stored : Found(data, index, j)
  BY <1>5, <1>6, <1>7, <1>11, ProbeIs DEF IndexOK
<1>13. /\ data' \in [0 .. TableSize - 1 -> Node \cup {None}]
       /\ data'[u] = n /\ \A j \in Stored : data'[j] = data[j]
  <2>1. data \in [0 .. TableSize - 1 -> Node \cup {None}]
    BY <1>6 DEF TableOK
  <2>2. u \in 0 .. TableSize - 1
    BY <1>5, <1>9, SeqAssumption
  <2>3. u \notin Stored
    BY <1>9, <1>10
  <2> QED
    BY <1>5, <1>7, <2>1, <2>2, <2>3
<1>14. Empty \notin Nat /\ Stored \subseteq Nat
  BY <1>10, EntryAssumption
<1>15. pc'[0] = "search"
  BY <1>5, <1>8 DEF MayMake
<1>16. CASE index[b] = Empty
  <2>1. index' = [index EXCEPT ![b] = u] /\ used' = [used EXCEPT ![0] = @ + 1] /\ i = u
    BY <1>4, <1>5, <1>12, <1>16
  <2>2. used' \in [Thread -> Nat \ {0}] /\ used'[0] = u + 1 /\ \A q \in Thread \ {0} : used'[q] = 1
    BY <1>3, <1>6, <1>9, <2>1 DEF UsedRight
  <2>3. UsedOK' /\ UsedRight("seq", used')
    <3>1. u + 1 <= TableSize
      BY <1>5, <1>9, SeqAssumption
    <3> QED
      BY <1>5, <1>8, <1>15, <2>2, <3>1 DEF UsedOK, UsedRight
  <2>4. \A z : z \in Stored' <=> z \in 1 .. u
    <3>1. Stored' = Places(used')
      BY DEF Stored, Places
    <3>2. (u + 1) - 1 = u
      BY <1>9
    <3> QED
      BY <2>2, <2>3, <3>1, <3>2, SeqPlaces
  <2>5. Stored' = Stored \cup {u} /\ u \notin Stored
    BY <1>9, <1>10, <2>4
  <2>6. ASSUME NEW j \in Stored, data[j] = n PROVE FALSE
    <3>1. PICK k \in 0 .. Attempts * ChunkSize - 1 :
            /\ index[Probe(n, seed, k)] = j
            /\ \A g \in 0 .. k - 1 : index[Probe(n, seed, g)] # Empty
      BY <1>12, <2>6 DEF Found
    <3>2. m \in Int /\ k \in Int
      OBVIOUS
    <3>3. CASE k = m
      BY <1>11, <1>14, <1>16, <3>1, <3>3
    <3>4. CASE k < m
      <4>1. k \in 0 .. m - 1
        BY <3>1, <3>2, <3>4
      <4> QED
        BY <1>11, <2>6, <3>1, <4>1
    <3>5. CASE m < k
      <4>1. m \in 0 .. k - 1
        BY <1>11, <3>2, <3>5
      <4> QED
        BY <1>11, <1>16, <3>1, <4>1
    <3> QED
      BY <3>2, <3>3, <3>4, <3>5
  <2>7. UniqueOK'
    BY <1>6, <1>7, <1>13, <2>5, <2>6, NewUnique
  <2>8. \A c \in 0 .. TableSize - 1 : index[c] # Empty => index'[c] = index[c] /\ index'[c] # Empty
    BY <1>12, <1>16, <2>1
  <2>9. ASSUME NEW j \in Stored PROVE Found(data, index, j)'
    <3>1. PICK k \in 0 .. Attempts * ChunkSize - 1 :
            /\ index[Probe(data[j], seed, k)] = j
            /\ \A g \in 0 .. k - 1 : index[Probe(data[j], seed, g)] # Empty
      BY <1>12 DEF Found
    <3>2. data[j] \in Node
      <4>1. GoodNode(store[0], data, Stored, data[j])
        BY <1>6 DEF TableOK, SharedGood
      <4> QED
        BY <4>1 DEF GoodNode
    <3>3. \A g \in 0 .. Attempts * ChunkSize - 1 : Probe(data[j], seed, g) \in 0 .. TableSize - 1
      BY <1>6, <3>2, ProbeIs
    <3>4. index'[Probe(data[j], seed, k)] = j
      BY <1>14, <2>8, <3>1, <3>3
    <3>5. ASSUME NEW g \in 0 .. k - 1 PROVE index'[Probe(data[j], seed, g)] # Empty
      <4>1. PICK z : z = Attempts * ChunkSize - 1
        OBVIOUS
      <4>2. z \in Int
        <5>1. Attempts \in Nat /\ ChunkSize \in Nat
          BY SeqAssumption
        <5>2. PICK h \in Nat : h = Attempts * ChunkSize
          BY <5>1
        <5> QED
          BY <4>1, <5>2
      <4>3. k \in 0 .. z
        BY <4>1
      <4>4. g \in 0 .. z
        BY <4>2, <4>3
      <4> QED
        BY <2>8, <3>1, <3>3, <4>1, <4>4
    <3> QED
      BY <1>8, <1>13, <3>4, <3>5 DEF Found
  <2>10. Found(data, index, u)'
    <3>1. index'[Probe(n, seed, m)] = u
      BY <1>11, <1>12, <2>1
    <3>2. ASSUME NEW g \in 0 .. m - 1 PROVE index'[Probe(n, seed, g)] # Empty
      <4>1. PICK z : z = Attempts * ChunkSize - 1
        OBVIOUS
      <4>2. z \in Int
        <5>1. Attempts \in Nat /\ ChunkSize \in Nat
          BY SeqAssumption
        <5>2. PICK h \in Nat : h = Attempts * ChunkSize
          BY <5>1
        <5> QED
          BY <4>1, <5>2
      <4>3. m \in 0 .. z
        BY <4>1
      <4>4. g \in 0 .. z
        BY <4>2, <4>3
      <4>5. Probe(n, seed, g) \in 0 .. TableSize - 1
        BY <1>6, <1>7, <4>1, <4>4, ProbeIs
      <4> QED
        BY <1>11, <2>8, <4>5
    <3> QED
      BY <1>8, <1>13, <3>1, <3>2 DEF Found
  <2>11. IndexOK'
    <3>1. index' \in [0 .. TableSize - 1 -> Stored' \cup {Empty}]
      BY <1>12, <2>1, <2>5
    <3>2. \A j \in Stored' : Found(data, index, j)'
      BY <2>5, <2>9, <2>10 DEF Found
    <3> QED
      BY <3>1, <3>2 DEF IndexOK
  <2>12. Gains(i, n)
    BY <1>13, <2>1, <2>3, <2>5, <2>7, <2>11 DEF Gains
  <2> QED
    BY <1>7, <2>12
<1>17. CASE index[b] # Empty
  <2>1. index' = index /\ used' = used /\ i = index[b] /\ data[i] = n
    BY <1>4, <1>5, <1>11, <1>17
  <2>2. i \in Stored
    BY <1>12, <1>17, <2>1
  <2>3. Stored' = Stored
    BY <2>1 DEF Stored
  <2>4. UsedOK'
    BY <1>6, <1>8, <1>15, <2>1 DEF UsedOK
  <2>5. UniqueOK'
    BY <1>6, <1>13, <2>3 DEF UniqueOK
  <2>6. IndexOK'
    <3>1. \A j \in Stored : Found(data, index, j)'
      BY <1>8, <1>12, <1>13, <2>1 DEF Found
    <3> QED
      BY <1>12, <2>1, <2>3, <3>1 DEF IndexOK
  <2>7. Gains(i, n)
    BY <1>13, <2>1, <2>2, <2>3, <2>4, <2>5, <2>6 DEF Gains
  <2> QED
    BY <1>7, <2>7
<1> QED
  BY <1>16, <1>17

LEMMA MakeGains ==
  ASSUME Start, Core, Make
  PROVE  \/ \E l, x, y : MakeFull(l, x, y)
         \/ \E p \in Thread, l \in Level, x \in Operand, y \in Operand : \E i, n :
              Makes(p, l, x, y, i, n) /\ Gains(i, n)
<1>1. PICK l \in MadeLevels, x \in Operand, y \in Operand :
        \/ \E p \in Thread : MakeFind(p, l, x, y) \/ MakePut(p, l, x, y)
        \/ MakeSeq(l, x, y) \/ MakeFull(l, x, y)
  BY DEF Make
<1>2. l \in Level /\ 0 \in Thread
  BY StartFacts, MainAssumption DEF Level
<1>3. ASSUME NEW p \in Thread, MakeFind(p, l, x, y) \/ MakePut(p, l, x, y)
      PROVE  \E i, n : Makes(p, l, x, y, i, n) /\ Gains(i, n)
  BY <1>3, MakeFindGains, MakePutGains
<1>4. ASSUME MakeSeq(l, x, y) PROVE \E i, n : Makes(0, l, x, y, i, n) /\ Gains(i, n)
  BY <1>4, MakeSeqGains
<1> QED
  BY <1>1, <1>2, <1>3, <1>4

-----------------------------------------------------------------------------
(* All steps *)

LEMMA CoreStep ==
  ASSUME Start, Core, [Next]_vars, item' <= Len(file.sections)
  PROVE  Core'
<1>1. ASSUME NEW p \in Thread, ReadFull(p) PROVE Core'
  BY <1>1, QuietCore DEF ReadFull, inputVars, loadVars, tableVars, countVars
<1>2. ASSUME NEW p \in Thread, Load(p) PROVE Core'
  BY <1>1, <1>2, ReadEqualCore, ReadPutCore, EndSectionCore DEF Load
<1>3. ASSUME VisitConst \/ VisitSkip \/ Return PROVE Core'
  <2>1. /\ pc[0] \in {"mark", "unmark"} /\ todo # << >> /\ todo' = Tail(todo)
        /\ UNCHANGED <<file, seed, build, pc, refs, roots, store, index, data, used, flight, item, held>>
    BY <1>3 DEF VisitConst, VisitSkip, Return, Visiting, Counting, inputVars, loadVars, tableVars
  <2> QED
    BY <2>1, TailCore
<1>4. ASSUME Marked PROVE Core'
  <2>1. item' = item
    BY <1>4 DEF Marked
  <2> QED
    BY <1>4, <2>1, MarkedCore
<1>5. ASSUME NodeCount PROVE Core'
  BY <1>3, <1>4, <1>5, VisitNodeCore, UnmarkedCore DEF NodeCount
<1>6. ASSUME Make PROVE Core'
  <2>1. CASE \E l, x, y : MakeFull(l, x, y)
    BY <2>1, QuietCore DEF MakeFull, inputVars, loadVars, tableVars, countVars
  <2> QED
    BY <1>6, <2>1, MakeGains, MakeCore
<1>7. ~EndSearch
  <2>1. SUFFICES ASSUME EndSearch PROVE FALSE
    OBVIOUS
  <2>2. item = Len(file.sections) /\ item' = item + 1
    BY <2>1 DEF EndSearch, Core, PhaseOK
  <2>3. Len(file.sections) \in Nat
    BY StartFacts
  <2> QED
    BY <2>2, <2>3
<1>8. ~Network
  BY DEF Network, Core, TableOK
<1>9. ASSUME UNCHANGED vars PROVE Core'
  BY <1>9, QuietCore DEF vars, inputVars, loadVars, tableVars, countVars
<1> QED
  BY <1>2, <1>5, <1>6, <1>7, <1>8, <1>9, AllArrivedCore DEF Next, Stop

\* The inductive invariant: until the search is over every thread has read some
\* of the nodes of the file, in the same places as every other and right by what
\* the file says; the marks of the count change no place; the shared table has
\* each node once, on every thread below what refers to it; and what tasks hold
\* means the same on all threads.
THEOREM Always == Spec => []Inv
<1>1. Init => Inv
  BY StartInit, CoreInit DEF Inv
<1>2. Inv /\ [Next]_vars => Inv'
  <2> SUFFICES ASSUME Inv, [Next]_vars PROVE Inv'
    OBVIOUS
  <2>1. Start /\ Start'
    BY StartStep DEF Inv
  <2>2. file' = file /\ item \in Nat /\ item <= item'
    <3>1. item \in Nat /\ (pc[0] = "load" => item = 0)
      BY <2>1 DEF Start
    <3>2. ASSUME NEW p \in Thread, Load(p) PROVE file' = file /\ item <= item'
      <4>1. CASE ReadEqual(p) \/ ReadPut(p) \/ ReadFull(p)
        <5>1. file' = file /\ item' = item
          BY <4>1 DEF ReadEqual, ReadPut, ReadFull, Assign, inputVars, countVars
        <5> QED
          BY <3>1, <5>1
      <4>2. CASE EndSection(p)
        BY <2>1, <4>2 DEF Start, EndSection, inputVars
      <4> QED
        BY <3>2, <4>1, <4>2 DEF Load
    <3>3. ASSUME NodeCount PROVE file' = file /\ item <= item'
      <4>1. file' = file /\ (item' = item \/ item' = item + 1)
        <5>1. VisitConst \/ VisitSkip \/ VisitNode \/ Return \/ Marked => file' = file /\ item' = item
          BY DEF VisitConst, VisitSkip, VisitNode, Return, Marked, inputVars
        <5>2. Unmarked => file' = file /\ (item' = item \/ item' = item + 1)
          BY DEF Unmarked, inputVars
        <5> QED
          BY <3>3, <5>1, <5>2 DEF NodeCount
      <4> QED
        BY <3>1, <4>1
    <3>4. ASSUME Make PROVE file' = file /\ item <= item'
      <4>1. \A l, x, y, i : Made(l, x, y, i) => UNCHANGED <<file, item>>
        BY DEF Made, inputVars, countVars
      <4>2. \A l, x, y : MakeFull(l, x, y) => UNCHANGED <<file, item>>
        BY DEF MakeFull, inputVars, countVars
      <4>3. \A p, l, x, y : MakeFind(p, l, x, y) => \E i : Made(l, x, y, i)
        BY DEF MakeFind
      <4>4. \A p, l, x, y : MakePut(p, l, x, y) => \E i : Made(l, x, y, i)
        BY DEF MakePut
      <4>5. \A l, x, y : MakeSeq(l, x, y) => \E i : Made(l, x, y, i)
        BY DEF MakeSeq
      <4>6. UNCHANGED <<file, item>>
        BY <3>4, <4>1, <4>2, <4>3, <4>4, <4>5, ZenonT(30) DEF Make
      <4> QED
        BY <2>1, <4>6 DEF Start
    <3>5. ASSUME AllArrived \/ EndSearch \/ Network \/ UNCHANGED vars PROVE file' = file /\ item <= item'
      <4>1. file' = file /\ (item' = item \/ item' = item + 1)
        <5>1. AllArrived \/ UNCHANGED vars => file' = file /\ item' = item
          BY DEF AllArrived, vars, inputVars, countVars
        <5>2. EndSearch => file' = file /\ item' = item + 1
          BY DEF EndSearch, inputVars
        <5>3. \A x : LandPut(x) => file' = file /\ item' = item
          BY DEF LandPut, inputVars, countVars
        <5>4. Network => file' = file /\ item' = item
          BY <5>3 DEF Network
        <5> QED
          BY <3>5, <5>1, <5>2, <5>4
      <4> QED
        BY <3>1, <4>1
    <3> QED
      BY <2>1, <3>2, <3>3, <3>4, <3>5 DEF Start, Next, Stop
  <2>3. SUFFICES ASSUME item' <= Len(file.sections) PROVE Core'
    BY <2>1, <2>2 DEF Inv
  <2>4. item <= Len(file.sections)
    <3>1. Len(file.sections) \in Nat /\ item' \in Nat
      BY <2>1, StartFacts DEF Start
    <3> QED
      BY <2>2, <2>3, <3>1
  <2> QED
    BY <2>1, <2>3, <2>4, CoreStep DEF Inv
<1> QED
  BY <1>1, <1>2, PTL DEF Spec

-----------------------------------------------------------------------------
(* What follows *)

\* read_model: on every thread each number, root and chain of variables is what
\* the file says, although marks are moved, equal children make no node, and nodes
\* share places, provided that no node is at index 0.
THEOREM LoadedHolds == Spec => []LoadedRight
<1>1. Inv => LoadedRight
  <2> SUFFICES ASSUME Inv, NEW p \in Thread, item <= Len(file.sections)
               PROVE  /\ store[p][0] = None =>
                           /\ \A n \in 1 .. Len(refs[p]) : Sem(p, refs[p][n]) = FileSem(file, FALSE, n)
                           /\ \A i \in 1 .. Len(roots[p]) : Sem(p, roots[p][i].bdd) = RootSem(file, i)
                      /\ \A i \in 1 .. Len(roots[p]) :
                           LET s == file.sections[i]
                               chain == roots[p][i].chain
                           IN  IF s.primed = << >> THEN chain = s.vars
                               ELSE /\ Len(chain) = 2 * Len(s.vars)
                                    /\ \A j \in 1 .. Len(s.vars) :
                                         chain[2 * j - 1] = s.vars[j] /\ chain[2 * j] = s.primed[j]
    BY DEF LoadedRight
  <2>1. Start /\ Core /\ LocalOK(p) /\ RootsOK(p) /\ WellWritten(file) /\ Len(file.sections) \in Nat
    BY StartFacts DEF Inv, Core
  <2>2. ASSUME store[p][0] = None, NEW n \in 1 .. Len(refs[p])
        PROVE  Sem(p, refs[p][n]) = FileSem(file, FALSE, n)
    <3>1. NumberRight(file, store[p], data, refs[p][n], n)
      BY <2>1 DEF LocalOK, NumbersRight
    <3> QED
      BY <2>2, <3>1, SemIs DEF NumberRight
  <2>3. ASSUME NEW i \in 1 .. Len(roots[p])
        PROVE  /\ i \in 1 .. Len(file.sections) /\ file.sections[i].last <= Len(refs[p])
               /\ roots[p][i] = Loaded(refs[p], file.sections[i])
    <3>1. Len(roots[p]) \in Nat /\ Len(roots[p]) <= Len(file.sections)
      BY <2>1 DEF RootsOK
    <3> QED
      BY <2>1, <3>1 DEF RootsOK
  <2>4. ASSUME store[p][0] = None, NEW i \in 1 .. Len(roots[p])
        PROVE  Sem(p, roots[p][i].bdd) = RootSem(file, i)
    <3>1. PICK s : s = file.sections[i]
      OBVIOUS
    <3>2. ChildRight(file, store[p], data, roots[p][i].bdd, s.root.mark, s.root.value)
      BY <2>1, <2>3, <3>1, RootIs
    <3> QED
      BY <2>4, <3>1, <3>2, SemIs DEF ChildRight, RootSem
  <2>5. ASSUME NEW i \in 1 .. Len(roots[p]), NEW s, s = file.sections[i], NEW chain, chain = roots[p][i].chain
        PROVE  IF s.primed = << >> THEN chain = s.vars ELSE InTurn(chain, s.vars, s.primed)
    <3>1. chain = interleave_chains[<<s.vars, s.primed>>]
      <4>1. roots[p][i] = Loaded(refs[p], s)
        BY <2>3, <2>5
      <4>2. Loaded(refs[p], s).chain = interleave_chains[<<s.vars, s.primed>>]
        BY DEF Loaded
      <4> QED
        BY <2>5, <4>1, <4>2
    <3>2. s.vars \in Seq(Level) /\ s.primed \in Seq(Level) /\ Len(s.primed) \in {0, Len(s.vars)}
      BY <2>1, <2>3, <2>5, SectionFacts
    <3> QED
      BY <3>1, <3>2, ChainIs
  <2>6. ASSUME NEW i \in 1 .. Len(roots[p])
        PROVE  LET s == file.sections[i]
                   chain == roots[p][i].chain
               IN  IF s.primed = << >> THEN chain = s.vars
                   ELSE /\ Len(chain) = 2 * Len(s.vars)
                        /\ \A j \in 1 .. Len(s.vars) :
                             chain[2 * j - 1] = s.vars[j] /\ chain[2 * j] = s.primed[j]
    <3>1. PICK s : s = file.sections[i]
      OBVIOUS
    <3>2. PICK chain : chain = roots[p][i].chain
      OBVIOUS
    <3>3. IF s.primed = << >> THEN chain = s.vars ELSE InTurn(chain, s.vars, s.primed)
      BY <2>5, <3>1, <3>2
    <3> QED
      BY <3>1, <3>2, <3>3 DEF InTurn
  <2> QED
    BY <2>2, <2>4, <2>6
<1> QED
  BY <1>1, Always, PTL

\* bdd_makenode in the search: a reference means what it was made for on every
\* thread, also where its nodes are in the local stores, of which each thread has
\* its own.
THEOREM MadeHolds == Spec => []MadeRight
<1>1. Inv => MadeRight
  <2> SUFFICES ASSUME Inv, ZeroFree, NEW x \in held, NEW p \in Thread PROVE Sem(p, x.ref) = x.sem
    BY DEF MadeRight
  <2>1. Start /\ Len(file.sections) \in Nat /\ item \in Nat
    BY StartFacts DEF Inv, Start
  <2>2. item <= Len(file.sections)
    BY <2>1 DEF Start
  <2>3. HeldRight(x)
    BY <2>2 DEF Inv, Core, HeldOK
  <2> QED
    BY <2>3, SemIs DEF HeldRight
<1> QED
  BY <1>1, Always, PTL

-----------------------------------------------------------------------------
(* Diagrams in the shared table alone are canonical *)

SameBut(e, v, w) == \A k \in Level : k # e => (k \in v <=> k \in w)

\* A diagram does not depend on a level above it.
LEMMA WalkAbove ==
  ASSUME NEW l, NEW s, NEW U, Memory(l, s, U), NEW e \in Level, NEW v, NEW w, SameBut(e, v, w)
  PROVE  \A n \in 0 .. NVars : \A a \in Ref : Usable(l, U, a) /\ e < Depth(l, s, a) =>
           Walk(l, s, v)[n][a] = Walk(l, s, w)[n][a]
<1> DEFINE Same(n) == \A a \in Ref : Usable(l, U, a) /\ e < Depth(l, s, a) =>
                        Walk(l, s, v)[n][a] = Walk(l, s, w)[n][a]
    S == {n \in Nat : n <= NVars => Same(n)}
<1>1. ASSUME NEW a \in Ref, NEW n \in 0 .. NVars, n = 0 \/ IsConst(a)
      PROVE  Walk(l, s, v)[n][a] = Walk(l, s, w)[n][a]
  <2>1. Walk(l, s, v)[n][a] = a.mark
    BY <1>1, WalkIs
  <2>2. Walk(l, s, w)[n][a] = a.mark
    BY <1>1, WalkIs
  <2> QED
    BY <2>1, <2>2
<1>2. 0 \in S
  BY <1>1, MainAssumption
<1>3. ASSUME NEW n \in Nat, n \in S PROVE n + 1 \in S
  <2> SUFFICES ASSUME n + 1 <= NVars, NEW a \in Ref, Usable(l, U, a), e < Depth(l, s, a)
               PROVE  Walk(l, s, v)[n + 1][a] = Walk(l, s, w)[n + 1][a]
    OBVIOUS
  <2>1. n + 1 \in 0 .. NVars /\ n <= NVars /\ n + 1 # 0 /\ (n + 1) - 1 = n
    BY MainAssumption
  <2>2. CASE IsConst(a)
    BY <1>1, <2>1, <2>2
  <2>3. CASE ~IsConst(a)
    <3>1. PICK m : m = At(l, s, a)
      OBVIOUS
    <3>2. PICK b : b = Branch(m, a, v)
      OBVIOUS
    <3>3. Usable(l, U, b) /\ Depth(l, s, a) < Depth(l, s, b) /\ Depth(l, s, a) \in Level
      BY <2>3, <3>1, <3>2, BranchDeeper
    <3>4. m.level = Depth(l, s, a) /\ m.level # e
      <4>1. m.level = Depth(l, s, a)
        BY <2>3, <3>1 DEF Depth
      <4>2. e \in Int /\ Depth(l, s, a) \in Int
        BY <3>3 DEF Level
      <4> QED
        BY <4>1, <4>2
    <3>5. Branch(m, a, w) = b
      BY <3>2, <3>3, <3>4 DEF Branch, SameBut
    <3>6. e < Depth(l, s, b) /\ b \in Ref
      <4>1. Depth(l, s, b) \in 0 .. NVars
        BY <3>3, DepthIs
      <4>2. PICK d : d = Depth(l, s, b)
        OBVIOUS
      <4>3. PICK c \in Level : c = Depth(l, s, a)
        BY <3>3
      <4>4. d \in Int /\ c \in Int /\ e \in Int /\ c < d /\ e < c
        BY <3>3, <4>1, <4>2, <4>3, MainAssumption DEF Level
      <4>5. e < d
        BY <4>4
      <4> QED
        BY <3>3, <4>2, <4>5 DEF Usable
    <3>7. Walk(l, s, v)[n][b] = Walk(l, s, w)[n][b]
      BY <1>3, <2>1, <3>3, <3>6
    <3>8. Walk(l, s, v)[n + 1][a] = Walk(l, s, v)[n][b]
      <4>1. Walk(l, s, v)[n + 1][a] = IF n + 1 = 0 \/ IsConst(a) THEN a.mark
              ELSE Walk(l, s, v)[(n + 1) - 1][Branch(At(l, s, a), a, v)]
        BY <2>1, WalkIs
      <4> QED
        BY <2>1, <2>3, <3>1, <3>2, <4>1
    <3>9. Walk(l, s, w)[n + 1][a] = Walk(l, s, w)[n][b]
      <4>1. Walk(l, s, w)[n + 1][a] = IF n + 1 = 0 \/ IsConst(a) THEN a.mark
              ELSE Walk(l, s, w)[(n + 1) - 1][Branch(At(l, s, a), a, w)]
        BY <2>1, WalkIs
      <4> QED
        BY <2>1, <2>3, <3>1, <3>5, <4>1
    <3> QED
      BY <3>7, <3>8, <3>9
  <2> QED
    BY <2>2, <2>3
<1>4. \A n \in Nat : n \in S
  <2> HIDE DEF S
  <2> QED
    BY <1>2, <1>3, NatSet
<1> QED
  BY <1>4, MainAssumption

Without(e, A) == \A v, w \in Env : SameBut(e, v, w) => (v \in A <=> w \in A)

LEMMA MeanAbove ==
  ASSUME NEW l, NEW s, NEW U, Memory(l, s, U), NEW e \in Level, NEW a, Usable(l, U, a), e < Depth(l, s, a)
  PROVE  Without(e, Mean(l, s, a))
<1>1. PICK n \in 0 .. NVars : n = NVars
  BY MainAssumption
<1>2. a \in Ref
  BY DEF Usable
<1>3. ASSUME NEW v \in Env, NEW w \in Env, SameBut(e, v, w)
      PROVE  Walk(l, s, v)[NVars][a] = Walk(l, s, w)[NVars][a]
  BY <1>1, <1>2, <1>3, WalkAbove
<1> QED
  BY <1>3 DEF Without, Mean

\* The two halves of a set of assignments.
LEMMA MuxSplit ==
  ASSUME NEW e \in Level, NEW A \in SUBSET Env, Without(e, A), NEW B \in SUBSET Env, Without(e, B),
         NEW C \in SUBSET Env, Without(e, C), NEW D \in SUBSET Env, Without(e, D), Mux(e, A, B) = Mux(e, C, D)
  PROVE  A = C /\ B = D
<1>1. ASSUME NEW v \in Env PROVE (v \in A <=> v \in C) /\ (v \in B <=> v \in D)
  <2>1. PICK w : w = v \ {e}
    OBVIOUS
  <2>2. PICK u : u = v \cup {e}
    OBVIOUS
  <2>3. w \in Env /\ e \notin w /\ SameBut(e, v, w)
    BY <2>1 DEF Env, SameBut
  <2>4. u \in Env /\ e \in u /\ SameBut(e, v, u)
    BY <2>2 DEF Env, SameBut
  <2>5. (w \in A <=> w \in C) /\ (u \in B <=> u \in D)
    <3>1. \A z \in Env : z \in Mux(e, A, B) <=> IF e \in z THEN z \in B ELSE z \in A
      BY DEF Mux
    <3>2. \A z \in Env : z \in Mux(e, C, D) <=> IF e \in z THEN z \in D ELSE z \in C
      BY DEF Mux
    <3> QED
      BY <2>3, <2>4, <3>1, <3>2
  <2> QED
    BY <2>3, <2>4, <2>5 DEF Without
<1> QED
  BY <1>1

\* Each place of the table holds a node of its own.
Unique(U, s) ==
  \A i \in U :
    /\ ~s[i].data /\ ~s[i].low.mark /\ s[i].low # s[i].high
    /\ \A j \in U : s[i] = s[j] => i = j

\* References into the shared table alone.
InShared(l, s, U, a) == Usable(l, U, a) /\ ~a.local /\ a.idx \in Closed(U, s) \cup {0}

\* Such a reference, and its cofactors for a level d not below its own.
Cofactors(l, s, U, d, a, b, c) ==
  /\ InShared(l, s, U, a) /\ InShared(l, s, U, b) /\ InShared(l, s, U, c)
  /\ d < Depth(l, s, b) /\ d < Depth(l, s, c)
  /\ Mean(l, s, a) = Mux(d, Mean(l, s, b), Mean(l, s, c))
  /\ \/ d < Depth(l, s, a) /\ b = a /\ c = a
     \/ /\ Depth(l, s, a) = d /\ ~IsConst(a) /\ a.idx \in U
        /\ b = bdd_transfermark(a, s[a.idx].low) /\ c = bdd_transfermark(a, s[a.idx].high)

LEMMA CofactorsExist ==
  ASSUME NEW l, NEW s, NEW U, Memory(l, s, U), NEW d \in Level, NEW a, InShared(l, s, U, a), d <= Depth(l, s, a)
  PROVE  \E b, c : Cofactors(l, s, U, d, a, b, c)
<1>1. Depth(l, s, a) \in 0 .. NVars /\ d \in Int /\ Usable(l, U, a) /\ a \in Ref
  BY DepthIs DEF InShared, Level, Usable
<1>2. CASE d < Depth(l, s, a)
  <2>1. Mean(l, s, a) = Mux(d, Mean(l, s, a), Mean(l, s, a))
    <3>1. \A A \in SUBSET Env : Mux(d, A, A) = A
      BY DEF Mux
    <3>2. Mean(l, s, a) \in SUBSET Env
      BY DEF Mean
    <3> QED
      BY <3>1, <3>2
  <2> QED
    BY <1>2, <2>1 DEF Cofactors
<1>3. CASE Depth(l, s, a) = d
  <2>1. ~IsConst(a)
    <3>1. d # NVars
      BY MainAssumption DEF Level
    <3> QED
      BY <1>3, <3>1 DEF Depth
  <2>2. PICK n : n = At(l, s, a)
    OBVIOUS
  <2>3. /\ n = s[a.idx] /\ a.idx \in Closed(U, s) /\ a.idx \in U /\ n.level = d
    BY <1>1, <1>3, <2>1, <2>2 DEF At, InShared, Usable, IsConst, Depth
  <2>4. GoodNode(l, s, U, n)
    BY <1>1, <2>1, <2>2, NodeIs
  <2>5. ASSUME NEW b, b = n.low \/ b = n.high
        PROVE  InShared(l, s, U, bdd_transfermark(a, b)) /\ d < Depth(l, s, bdd_transfermark(a, b))
    <3>1. Usable(l, U, b) /\ d < Depth(l, s, b) /\ b \in Ref
      BY <2>3, <2>4, <2>5 DEF GoodNode, Usable
    <3>2. ~b.local /\ b.idx \in Closed(U, s) \cup {0}
      BY <2>3, <2>5, SharedBelow
    <3>3. PICK c : c = bdd_transfermark(a, b)
      OBVIOUS
    <3>4. c \in Ref /\ Side(c, b)
      BY <1>1, <3>1, <3>3, MovedMark
    <3>5. Usable(l, U, c) /\ Depth(l, s, c) = Depth(l, s, b)
      BY <3>1, <3>4, UsableSide
    <3> QED
      BY <3>1, <3>2, <3>3, <3>4, <3>5 DEF InShared, Side
  <2>6. PICK b : b = bdd_transfermark(a, n.low)
    OBVIOUS
  <2>7. PICK c : c = bdd_transfermark(a, n.high)
    OBVIOUS
  <2>8. InShared(l, s, U, b) /\ d < Depth(l, s, b) /\ InShared(l, s, U, c) /\ d < Depth(l, s, c)
    BY <2>5, <2>6, <2>7
  <2>9. Mean(l, s, a) = Mux(d, Mean(l, s, b), Mean(l, s, c))
    <3>1. Mean(l, s, a) = Mux(n.level, Mean(l, s, bdd_transfermark(a, n.low)),
                                       Mean(l, s, bdd_transfermark(a, n.high)))
      BY <1>1, <2>1, <2>2, MeanNode
    <3> QED
      BY <2>3, <2>6, <2>7, <3>1
  <2> QED
    BY <1>3, <2>1, <2>3, <2>6, <2>7, <2>8, <2>9 DEF Cofactors
<1>4. d < Depth(l, s, a) \/ Depth(l, s, a) = d
  <2>1. PICK e : e = Depth(l, s, a)
    OBVIOUS
  <2>2. e \in Int /\ d \in Int /\ d <= e
    BY <1>1, <2>1, MainAssumption
  <2>3. d < e \/ e = d
    BY <2>2
  <2> QED
    BY <2>1, <2>3
<1> QED
  BY <1>2, <1>3, <1>4

\* To move a mark is to lose nothing.
LEMMA MovedSame ==
  ASSUME NEW a \in Ref, NEW b \in Ref, NEW c \in Ref, bdd_transfermark(a, b) = bdd_transfermark(a, c)
  PROVE  b = c
<1>1. bdd_transfermark(a, bdd_transfermark(a, b)) = b
  BY MovedMark
<1>2. bdd_transfermark(a, bdd_transfermark(a, c)) = c
  BY MovedMark
<1>3. PICK m : m = bdd_transfermark(a, b)
  OBVIOUS
<1>4. bdd_transfermark(a, m) = b /\ bdd_transfermark(a, m) = c
  BY <1>1, <1>2, <1>3
<1> QED
  BY <1>4

LEMMA SameCofactors ==
  ASSUME NEW l, NEW s, NEW U, Memory(l, s, U), Unique(U, s), NEW d \in Level, NEW b, NEW c,
         NEW a, Cofactors(l, s, U, d, a, b, c), NEW e, Cofactors(l, s, U, d, e, b, c)
  PROVE  a = e
<1> DEFINE Deep(x) == b = x /\ c = x
           Here1(x) == /\ Depth(l, s, x) = d /\ ~IsConst(x) /\ x.idx \in U
                       /\ b = bdd_transfermark(x, s[x.idx].low) /\ c = bdd_transfermark(x, s[x.idx].high)
<1>1. (Deep(a) \/ Here1(a)) /\ (Deep(e) \/ Here1(e))
  BY DEF Cofactors
<1>2. a \in Ref /\ e \in Ref /\ ~a.local /\ ~e.local
  BY DEF Cofactors, InShared, Usable
<1>3. ASSUME NEW i \in U
      PROVE  /\ s[i] \in Node /\ s[i].low \in Ref /\ s[i].high \in Ref
             /\ s[i].low.mark = FALSE /\ s[i].data = FALSE /\ s[i].low # s[i].high
  <2>1. GoodNode(l, s, U, s[i])
    BY DEF Memory, SharedGood
  <2>2. s[i] \in Node /\ s[i].low \in Ref /\ s[i].high \in Ref
    BY <2>1 DEF GoodNode, Usable
  <2>3. ~s[i].low.mark /\ ~s[i].data /\ s[i].low # s[i].high
    BY DEF Unique
  <2>4. s[i].low.mark \in BOOLEAN /\ s[i].data \in BOOLEAN
    BY <2>2 DEF Node, Ref
  <2> QED
    BY <2>2, <2>3, <2>4
<1>4. ASSUME NEW x \in Ref, Here1(x) PROVE b # c
  <2>1. s[x.idx].low # s[x.idx].high /\ s[x.idx].low \in Ref /\ s[x.idx].high \in Ref
    BY <1>3, <1>4
  <2>2. PICK m : m = s[x.idx].low
    OBVIOUS
  <2>3. PICK n : n = s[x.idx].high
    OBVIOUS
  <2>4. m \in Ref /\ n \in Ref /\ m # n
    BY <2>1, <2>2, <2>3
  <2>5. bdd_transfermark(x, m) # bdd_transfermark(x, n)
    BY <2>4, MovedSame
  <2> QED
    BY <1>4, <2>2, <2>3, <2>5
<1>5. CASE Deep(a) /\ Deep(e)
  BY <1>5
<1>6. CASE Here1(a) /\ Here1(e)
  <2>1. PICK m : m = s[a.idx]
    OBVIOUS
  <2>2. PICK n : n = s[e.idx]
    OBVIOUS
  <2>3. /\ m \in Node /\ m.low \in Ref /\ m.high \in Ref /\ m.low.mark = FALSE /\ m.data = FALSE
        /\ n \in Node /\ n.low \in Ref /\ n.high \in Ref /\ n.low.mark = FALSE /\ n.data = FALSE
    BY <1>3, <1>6, <2>1, <2>2
  <2>4. bdd_transfermark(a, m.low) = bdd_transfermark(e, n.low) /\ bdd_transfermark(a, m.high) = bdd_transfermark(e, n.high)
    BY <1>6, <2>1, <2>2
  <2>5. SameMark(a, e)
    <3>1. ASSUME NEW x \in Ref, NEW y \in Ref, y.mark = FALSE PROVE bdd_transfermark(x, y).mark = x.mark
      <4>1. bdd_transfermark(x, y) = IF x.mark THEN bdd_not(y) ELSE y
        BY Marks
      <4>2. bdd_not(y).mark = ~y.mark /\ x.mark \in BOOLEAN
        BY NotProps DEF Ref
      <4> QED
        BY <3>1, <4>1, <4>2
    <3>2. bdd_transfermark(a, m.low).mark = a.mark /\ bdd_transfermark(e, n.low).mark = e.mark
      BY <1>2, <2>3, <3>1
    <3> QED
      BY <2>4, <3>2 DEF SameMark
  <2>6. \A x : bdd_transfermark(a, x) = bdd_transfermark(e, x)
    BY <2>5 DEF SameMark, bdd_transfermark
  <2>7. m.low = n.low /\ m.high = n.high
    BY <1>2, <2>3, <2>4, <2>6, MovedSame
  <2>8. m.level = d /\ n.level = d
    BY <1>2, <1>6, <2>1, <2>2 DEF Depth, At
  <2>9. m = n
    BY <2>3, <2>7, <2>8 DEF Node
  <2>10. a.idx = e.idx
    BY <1>6, <2>1, <2>2, <2>9 DEF Unique
  <2> QED
    BY <1>2, <2>5, <2>10 DEF Ref, SameMark
<1> QED
  BY <1>1, <1>2, <1>4, <1>5, <1>6

\* Two such references are equal if they mean the same.
LEMMA Canonical ==
  ASSUME NEW l, NEW s, NEW U, Memory(l, s, U), Unique(U, s), NEW a, InShared(l, s, U, a), NEW b, InShared(l, s, U, b),
         Mean(l, s, a) = Mean(l, s, b)
  PROVE  a = b
<1> DEFINE Equal(n) == \A x, y \in Ref :
              /\ InShared(l, s, U, x) /\ NVars - n <= Depth(l, s, x)
              /\ InShared(l, s, U, y) /\ NVars - n <= Depth(l, s, y)
              /\ Mean(l, s, x) = Mean(l, s, y)
              => x = y
           S == {n \in Nat : n <= NVars => Equal(n)}
<1>1. 0 \in S
  <2> SUFFICES ASSUME NEW x \in Ref, NEW y \in Ref, InShared(l, s, U, x), NVars <= Depth(l, s, x),
                      InShared(l, s, U, y), NVars <= Depth(l, s, y), Mean(l, s, x) = Mean(l, s, y)
               PROVE  x = y
    BY MainAssumption
  <2>1. ASSUME NEW z, InShared(l, s, U, z), NVars <= Depth(l, s, z) PROVE IsConst(z)
    <3>1. Depth(l, s, z) \in 0 .. NVars /\ (Depth(l, s, z) = NVars => IsConst(z))
      BY <2>1, DepthIs DEF InShared
    <3> QED
      BY <2>1, <3>1, MainAssumption
  <2>2. IsConst(x) /\ IsConst(y)
    BY <2>1
  <2>3. Mean(l, s, x) = (IF x.mark THEN Env ELSE {}) /\ Mean(l, s, y) = (IF y.mark THEN Env ELSE {})
    BY <2>2, MeanConst
  <2>4. {} \in Env
    BY DEF Env
  <2>5. x.mark \in BOOLEAN /\ y.mark \in BOOLEAN
    BY DEF Ref
  <2>6. x.mark = y.mark
    <3>1. CASE x.mark
      <4>1. Mean(l, s, x) = Env
        BY <2>3, <3>1
      <4>2. y.mark
        BY <2>3, <2>4, <4>1
      <4> QED
        BY <2>5, <3>1, <4>2
    <3>2. CASE ~x.mark
      <4>1. Mean(l, s, x) = {}
        BY <2>3, <3>2
      <4>2. ~y.mark
        BY <2>3, <2>4, <4>1
      <4> QED
        BY <2>5, <3>2, <4>2
    <3> QED
      BY <2>5, <3>1, <3>2
  <2>7. x.idx = y.idx /\ ~x.local /\ ~y.local
    BY <2>2 DEF IsConst, InShared
  <2> QED
    BY <2>6, <2>7 DEF Ref
<1>2. ASSUME NEW n \in Nat, n \in S PROVE n + 1 \in S
  <2> SUFFICES ASSUME n + 1 <= NVars, NEW x \in Ref, NEW y \in Ref,
                      InShared(l, s, U, x), NVars - (n + 1) <= Depth(l, s, x),
                      InShared(l, s, U, y), NVars - (n + 1) <= Depth(l, s, y), Mean(l, s, x) = Mean(l, s, y)
               PROVE  x = y
    OBVIOUS
  <2>1. PICK d \in Level : d = NVars - (n + 1)
    BY MainAssumption DEF Level
  <2>2. d <= Depth(l, s, x) /\ d <= Depth(l, s, y)
    BY <2>1
  <2>3. PICK p, q : Cofactors(l, s, U, d, x, p, q)
    BY <2>2, CofactorsExist
  <2>4. PICK t, u : Cofactors(l, s, U, d, y, t, u)
    BY <2>2, CofactorsExist
  <2>5. /\ InShared(l, s, U, p) /\ d < Depth(l, s, p) /\ InShared(l, s, U, q) /\ d < Depth(l, s, q)
        /\ InShared(l, s, U, t) /\ d < Depth(l, s, t) /\ InShared(l, s, U, u) /\ d < Depth(l, s, u)
        /\ Mux(d, Mean(l, s, p), Mean(l, s, q)) = Mux(d, Mean(l, s, t), Mean(l, s, u))
    BY <2>3, <2>4 DEF Cofactors
  <2>6. ASSUME NEW z, InShared(l, s, U, z), d < Depth(l, s, z)
        PROVE  /\ Without(d, Mean(l, s, z)) /\ Mean(l, s, z) \in SUBSET Env
               /\ NVars - n <= Depth(l, s, z) /\ z \in Ref
    <3>1. Usable(l, U, z) /\ z \in Ref
      BY <2>6 DEF InShared, Usable
    <3>2. Without(d, Mean(l, s, z))
      BY <2>6, <3>1, MeanAbove
    <3>3. PICK k \in 0 .. NVars : k = Depth(l, s, z)
      BY <3>1, DepthIs
    <3>4. d < k
      BY <2>6, <3>3
    <3>5. NVars - n <= k
      BY <2>1, <3>4, MainAssumption DEF Level
    <3> QED
      BY <3>1, <3>2, <3>3, <3>5 DEF Mean
  <2>7. Mean(l, s, p) = Mean(l, s, t) /\ Mean(l, s, q) = Mean(l, s, u)
    BY <2>5, <2>6, MuxSplit
  <2>8. n <= NVars
    BY MainAssumption
  <2>9. p = t /\ q = u
    <3>1. Equal(n)
      BY <1>2, <2>8
    <3>2. /\ NVars - n <= Depth(l, s, p) /\ p \in Ref /\ NVars - n <= Depth(l, s, q) /\ q \in Ref
          /\ NVars - n <= Depth(l, s, t) /\ t \in Ref /\ NVars - n <= Depth(l, s, u) /\ u \in Ref
      BY <2>5, <2>6
    <3> QED
      BY <2>5, <2>7, <3>1, <3>2
  <2> QED
    BY <2>3, <2>4, <2>9, SameCofactors
<1>3. \A n \in Nat : n \in S
  <2> HIDE DEF S
  <2> QED
    BY <1>1, <1>2, NatSet
<1>4. Equal(NVars)
  BY <1>3, MainAssumption
<1>5. ASSUME NEW z, InShared(l, s, U, z) PROVE z \in Ref /\ NVars - NVars <= Depth(l, s, z)
  <2>1. Depth(l, s, z) \in 0 .. NVars /\ z \in Ref
    BY <1>5, DepthIs DEF InShared, Usable
  <2> QED
    BY <2>1, MainAssumption
<1> QED
  BY <1>4, <1>5

\* htable_find_or_put of either build: references to diagrams in the shared table
\* alone are equal if they mean the same, in the sequential build although a node
\* is copied to its place before it is known to be new.
THEOREM CanonicalHolds == Spec => []SharedCanonical
<1>1. Inv => SharedCanonical
  <2> SUFFICES ASSUME Inv, NEW x \in Operand, NEW y \in Operand, AllShared(x.ref), AllShared(y.ref), x.sem = y.sem
               PROVE  x.ref = y.ref
    BY DEF SharedCanonical
  <2>1. Start /\ Len(file.sections) \in Nat /\ item \in Nat /\ 0 \in Thread /\ held # {}
    BY StartFacts DEF Inv, Start, Operand
  <2>2. Core
    BY <2>1 DEF Inv, Start
  <2>3. Memory(store[0], data, Stored) /\ Unique(Stored, data)
    BY <2>1, <2>2, MemoryIs DEF Core, UniqueOK, Unique
  <2>4. ASSUME NEW z \in Operand, AllShared(z.ref)
        PROVE  InShared(store[0], data, Stored, z.ref) /\ Mean(store[0], data, z.ref) = z.sem
    <3>1. HeldRight(z)
      BY <2>2, OperandRight
    <3>2. Closed(Stored, data) = SharedOnly
      BY DEF Closed, SharedOnly
    <3> QED
      BY <2>1, <2>4, <3>1, <3>2 DEF HeldRight, InShared, AllShared
  <2>5. InShared(store[0], data, Stored, x.ref) /\ InShared(store[0], data, Stored, y.ref)
        /\ Mean(store[0], data, x.ref) = Mean(store[0], data, y.ref)
    BY <2>4
  <2> QED
    BY <2>3, <2>5, Canonical
<1> QED
  BY <1>1, Always, PTL

-----------------------------------------------------------------------------
(* The count of nodes: the invariant *)

\* The places that the edges of a node lead to.
Kids(n) == {Place(n.low), Place(n.high)}

\* A memory whose nodes below a diagram are at the places B: of these D are done
\* and W are waited for.  What a done place leads to is done or waited for, and so
\* is the root a.
Covered(l, s, B, D, W, a) ==
  /\ D \subseteq B
  /\ \A q \in W : IsConst(q) \/ q \in B
  /\ IsConst(a) \/ Place(a) \in D \cup W
  /\ \A q \in D : \A c \in Kids(At(l, s, q)) : IsConst(c) \/ c \in D \cup W

Call == [ref : Ref, leaving : BOOLEAN]

\* The places of calls still to be made, and of those to return in the shared table.
Waiting(t) == {Place(t[k].ref) : k \in {j \in 1 .. Len(t) : ~t[j].leaving}}
Leaving(t) == {t[k].ref.idx : k \in {j \in 1 .. Len(t) : t[j].leaving /\ ~t[j].ref.local}}

\* Where a put is under way.
Flying(f) == {x.idx : x \in f}

\* The places where the mark is b, or is to be.
DoneOf(l, s, F, b, B) == {q \in B : (~q.local /\ q.idx \in F) \/ At(l, s, q).data = b}

\* No other place than those of B has a mark.
Taken(l, U, a) == IF a.local THEN a.idx \in LocalIndex /\ l[a.idx] # None ELSE a.idx \in U
Clean(l, s, U, B) == \A a \in Ref : Taken(l, U, a) /\ Place(a) \notin B => ~At(l, s, a).data
NoneMarked(l) == \A i \in LocalIndex : l[i] # None => ~l[i].data

\* The first half of a count sets the marks, b, of the places B below the diagram a,
\* and the second clears them.
HalfOf(B, l, s, U, F, t, a, b, c) ==
  /\ Usable(l, U, a)
  /\ t \in Seq(Call)
  /\ F \subseteq Leaving(t) /\ \A i \in F : \E q \in B : ~q.local /\ q.idx = i
  /\ Covered(l, s, B, DoneOf(l, s, F, b, B), Waiting(t), a)
  /\ Clean(l, s, U, B)
  /\ c = Cardinality(IF b THEN DoneOf(l, s, F, b, B) ELSE B)
Half(l, s, U, F, t, a, b, c) == HalfOf(Reach(l, s)[NVars][a], l, s, U, F, t, a, b, c)

\* Puts under way only change marks, to b.
FlightRight(f, s, U, b) ==
  \A x \in f : x.idx \in U /\ x.node \in Node /\ SameNode(x.node, s[x.idx]) /\ x.node.data = b

\* Each count that was printed is the number of nodes.
PrintedRight(l, s, U, q) ==
  /\ q \in Seq([bdd : Ref, count : Nat])
  /\ \A i \in 1 .. Len(q) : /\ Usable(l, U, q[i].bdd)
                           /\ q[i].count = Cardinality(Reach(l, s)[NVars][q[i].bdd])

\* The memory is of the right type.
Typed(l, s, U) ==
  /\ l \in [LocalIndex -> Node \cup {None}]
  /\ s \in [0 .. TableSize - 1 -> Node \cup {None}] /\ U \subseteq 0 .. TableSize - 1
  /\ Memory(l, s, U)

\* In a half that sets marks to b the puts f are under way; between counts none is,
\* and there are no marks.
Halfway(l, s, U, f, b, t, a, c) ==
  FlightRight(f, s, U, b) /\ Half(l, s, U, Flying(f), t, a, b, c)
Between(l, s, U, f, c) == f = {} /\ Clean(l, s, U, {}) /\ c = 0

\* As long as no put was overtaken.
SettledAt(l, s, U, f, phase, t, a, c, q) ==
  /\ Typed(l, s, U) /\ PrintedRight(l, s, U, q)
  /\ IF phase \in {"mark", "unmark"}
     THEN \E b \in BOOLEAN : (b <=> phase = "mark") /\ Halfway(l, s, U, f, b, t, a, c)
     ELSE Between(l, s, U, f, c)
Settled ==
  SettledAt(store[0], data, Stored, BagToSet(flight), pc[0], todo, Diagram(item), count, printed)

\* At all times: no other thread marks its local store.
RestOK ==
  /\ IsABag(flight) /\ store = [p \in Thread |-> store[p]]
  /\ \A p \in Thread \ {0} : NoneMarked(store[p])
  /\ pc[0] = "load" => printed = << >>
  /\ item > Len(file.sections) => \A p \in Thread : pc[p] # "load"
MarksOK == RestOK /\ (~late => Settled)

-----------------------------------------------------------------------------
(* What is below a reference *)

Onward(local, shared, r, n) ==
  [a \in Ref |-> IF n = 0 \/ IsConst(a) THEN {}
                 ELSE LET node == At(local, shared, a)
                      IN  {Place(a)} \cup r[n - 1][node.low] \cup r[n - 1][node.high]]
ReachUpto(local, shared, r, m) ==
  /\ r = [n \in 0 .. NVars |-> r[n]]
  /\ \A n \in 0 .. m : r[n] = Onward(local, shared, r, n)

LEMMA ReachExists ==
  ASSUME NEW local, NEW shared
  PROVE  \E r : r = [n \in 0 .. NVars |-> Onward(local, shared, r, n)]
<1> DEFINE S == {n \in Nat : n <= NVars => \E r : ReachUpto(local, shared, r, n)}
<1>1. 0 \in S
  <2> DEFINE r == [k \in 0 .. NVars |-> [a \in Ref |-> {}]]
  <2>1. r[0] = [a \in Ref |-> {}] /\ r = [k \in 0 .. NVars |-> r[k]]
    BY MainAssumption
  <2> HIDE DEF r
  <2>2. \A k \in 0 .. 0 : k = 0
    OBVIOUS
  <2>3. r[0] = Onward(local, shared, r, 0)
    BY <2>1 DEF Onward
  <2>4. ReachUpto(local, shared, r, 0)
    BY <2>1, <2>2, <2>3, Zenon DEF ReachUpto
  <2> QED
    BY <2>4
<1>2. ASSUME NEW n \in Nat, n \in S PROVE n + 1 \in S
  <2> SUFFICES ASSUME n + 1 <= NVars PROVE \E r : ReachUpto(local, shared, r, n + 1)
    OBVIOUS
  <2>1. PICK u : ReachUpto(local, shared, u, n)
    BY <1>2, MainAssumption
  <2> DEFINE r == [k \in 0 .. NVars |-> IF k = n + 1 THEN Onward(local, shared, u, n + 1) ELSE u[k]]
  <2>2. \A k \in 0 .. n : r[k] = u[k]
    BY MainAssumption
  <2>3. r[n + 1] = Onward(local, shared, u, n + 1) /\ r = [k \in 0 .. NVars |-> r[k]]
    BY MainAssumption
  <2> HIDE DEF r
  <2>4. ASSUME NEW k \in 0 .. n + 1 PROVE Onward(local, shared, r, k) = Onward(local, shared, u, k)
    <3>1. CASE k = 0
      BY <3>1 DEF Onward
    <3>2. CASE k # 0
      <4>1. k - 1 \in 0 .. n
        BY <3>2
      <4>2. r[k - 1] = u[k - 1]
        BY <2>2, <4>1
      <4> QED
        BY <4>2 DEF Onward
    <3> QED
      BY <3>1, <3>2
  <2>5. ASSUME NEW k \in 0 .. n + 1 PROVE r[k] = Onward(local, shared, r, k)
    <3>1. CASE k = n + 1
      BY <2>3, <2>4, <3>1
    <3>2. CASE k # n + 1
      <4>1. k \in 0 .. n
        BY <3>2
      <4>2. u[k] = Onward(local, shared, u, k)
        BY <2>1, <4>1 DEF ReachUpto
      <4> QED
        BY <2>2, <2>4, <4>1, <4>2
    <3> QED
      BY <3>1, <3>2
  <2> QED
    BY <2>3, <2>5 DEF ReachUpto
<1>3. NVars \in S
  <2> HIDE DEF S
  <2> QED
    BY <1>1, <1>2, NatSet, MainAssumption
<1>4. PICK r : ReachUpto(local, shared, r, NVars)
  BY <1>3, MainAssumption
<1>5. r = [n \in 0 .. NVars |-> Onward(local, shared, r, n)]
  BY <1>4 DEF ReachUpto
<1> QED
  BY <1>5

LEMMA ReachIs ==
  ASSUME NEW local, NEW shared, NEW n \in 0 .. NVars, NEW a \in Ref
  PROVE  Reach(local, shared)[n][a] =
           IF n = 0 \/ IsConst(a) THEN {}
           ELSE {Place(a)} \cup Reach(local, shared)[n - 1][At(local, shared, a).low]
                  \cup Reach(local, shared)[n - 1][At(local, shared, a).high]
<1> DEFINE Is(r) == r = [k \in 0 .. NVars |-> Onward(local, shared, r, k)]
<1>1. Reach(local, shared) = CHOOSE r : Is(r)
  BY DEF Reach, Onward
<1>2. \E r : Is(r)
  BY ReachExists
<1>3. Is(Reach(local, shared))
  <2> HIDE DEF Is
  <2> QED
    BY <1>1, <1>2
<1>4. PICK r : r = Reach(local, shared)
  OBVIOUS
<1>5. r[n] = Onward(local, shared, r, n)
  BY <1>3, <1>4
<1>6. r[n][a] = IF n = 0 \/ IsConst(a) THEN {}
                ELSE {Place(a)} \cup r[n - 1][At(local, shared, a).low] \cup r[n - 1][At(local, shared, a).high]
  BY <1>5 DEF Onward
<1> QED
  BY <1>4, <1>6

\* A step that does not end, and one that does.
LEMMA ReachNode ==
  ASSUME NEW l, NEW s, NEW n \in Nat, n + 1 <= NVars, NEW a \in Ref, ~IsConst(a), NEW m, m = At(l, s, a)
  PROVE  Reach(l, s)[n + 1][a] = {Place(a)} \cup Reach(l, s)[n][m.low] \cup Reach(l, s)[n][m.high]
<1>1. PICK k \in 0 .. NVars : k = n + 1
  BY MainAssumption
<1>2. k # 0 /\ k - 1 = n
  BY <1>1
<1>3. Reach(l, s)[k][a] = IF k = 0 \/ IsConst(a) THEN {}
        ELSE {Place(a)} \cup Reach(l, s)[k - 1][At(l, s, a).low] \cup Reach(l, s)[k - 1][At(l, s, a).high]
  BY ReachIs
<1> QED
  BY <1>1, <1>2, <1>3

LEMMA ReachNone ==
  ASSUME NEW l, NEW s, NEW n \in 0 .. NVars, NEW a \in Ref, n = 0 \/ IsConst(a)
  PROVE  Reach(l, s)[n][a] = {}
  BY ReachIs

\* The edges of a node in a memory in order.
LEMMA EdgesDeeper ==
  ASSUME NEW l, NEW s, NEW U, Memory(l, s, U), NEW a, Usable(l, U, a), ~IsConst(a),
         NEW b \in {At(l, s, a).low, At(l, s, a).high}
  PROVE  /\ Usable(l, U, b) /\ b \in Ref
         /\ Depth(l, s, a) \in Level /\ Depth(l, s, b) \in 0 .. NVars /\ Depth(l, s, a) < Depth(l, s, b)
<1>1. PICK n : n = At(l, s, a)
  OBVIOUS
<1>2. GoodNode(l, s, U, n)
  BY <1>1, NodeIs
<1>3. Usable(l, U, b) /\ n.level < Depth(l, s, b) /\ n.level \in Level /\ b \in Ref
  BY <1>1, <1>2 DEF GoodNode, Usable, Node
<1>4. Depth(l, s, a) = n.level
  BY <1>1 DEF Depth
<1>5. Depth(l, s, b) \in 0 .. NVars
  BY <1>3, DepthIs
<1> QED
  BY <1>3, <1>4, <1>5

\* As many steps as there are levels below are enough.
LEMMA ReachEnough ==
  ASSUME NEW l, NEW s, NEW U, Memory(l, s, U)
  PROVE  \A n \in 0 .. NVars : \A a : Usable(l, U, a) /\ NVars - n <= Depth(l, s, a) =>
           Reach(l, s)[n][a] = Reach(l, s)[NVars][a]
<1> DEFINE Enough(n) ==
      \A m \in n .. NVars, a \in Ref : Usable(l, U, a) /\ NVars - n <= Depth(l, s, a) =>
        Reach(l, s)[n][a] = Reach(l, s)[m][a]
    S == {n \in Nat : n <= NVars => Enough(n)}
<1>1. 0 \in S
  <2> SUFFICES ASSUME NEW m \in 0 .. NVars, NEW a \in Ref, Usable(l, U, a), NVars <= Depth(l, s, a)
               PROVE  Reach(l, s)[0][a] = Reach(l, s)[m][a]
    BY MainAssumption
  <2>1. IsConst(a)
    BY DepthIs, MainAssumption
  <2>2. 0 \in 0 .. NVars
    BY MainAssumption
  <2>3. Reach(l, s)[0][a] = {}
    BY <2>2, ReachIs
  <2>4. Reach(l, s)[m][a] = {}
    BY <2>1, ReachIs
  <2> QED
    BY <2>3, <2>4
<1>2. ASSUME NEW n \in Nat, n \in S PROVE n + 1 \in S
  <2> SUFFICES ASSUME n + 1 <= NVars, NEW m \in n + 1 .. NVars, NEW a \in Ref, Usable(l, U, a),
                      NVars - (n + 1) <= Depth(l, s, a)
               PROVE  Reach(l, s)[n + 1][a] = Reach(l, s)[m][a]
    BY MainAssumption
  <2>1. /\ n + 1 \in 0 .. NVars /\ m \in 0 .. NVars /\ n <= NVars /\ n + 1 # 0 /\ (n + 1) - 1 = n
        /\ m # 0 /\ m - 1 \in n .. NVars
    BY MainAssumption
  <2>2. PICK b : b = At(l, s, a).low
    OBVIOUS
  <2>3. PICK c : c = At(l, s, a).high
    OBVIOUS
  <2>4. Reach(l, s)[n + 1][a] = IF IsConst(a) THEN {}
                                ELSE {Place(a)} \cup Reach(l, s)[n][b] \cup Reach(l, s)[n][c]
    <3>1. PICK k \in 0 .. NVars : k = n + 1
      BY <2>1
    <3>2. k # 0 /\ k - 1 = n
      BY <2>1, <3>1
    <3>3. Reach(l, s)[k][a] = IF k = 0 \/ IsConst(a) THEN {}
              ELSE {Place(a)} \cup Reach(l, s)[k - 1][At(l, s, a).low] \cup Reach(l, s)[k - 1][At(l, s, a).high]
      BY ReachIs
    <3> QED
      BY <2>2, <2>3, <3>1, <3>2, <3>3
  <2>5. Reach(l, s)[m][a] = IF IsConst(a) THEN {}
                            ELSE {Place(a)} \cup Reach(l, s)[m - 1][b] \cup Reach(l, s)[m - 1][c]
    <3>1. PICK k \in 0 .. NVars : k = m
      BY <2>1
    <3>2. Reach(l, s)[k][a] = IF k = 0 \/ IsConst(a) THEN {}
              ELSE {Place(a)} \cup Reach(l, s)[k - 1][At(l, s, a).low] \cup Reach(l, s)[k - 1][At(l, s, a).high]
      BY ReachIs
    <3> QED
      BY <2>1, <2>2, <2>3, <3>1, <3>2
  <2>6. CASE IsConst(a)
    BY <2>4, <2>5, <2>6
  <2>7. CASE ~IsConst(a)
    <3>1. ASSUME NEW d \in {b, c} PROVE Reach(l, s)[n][d] = Reach(l, s)[m - 1][d]
      <4>1. PICK i \in Int : i = Depth(l, s, a)
        BY <2>7, <2>2, EdgesDeeper DEF Level
      <4>2. PICK j \in Int : j = Depth(l, s, d)
        BY <2>7, <2>2, <2>3, <3>1, EdgesDeeper
      <4>3. Usable(l, U, d) /\ i < j /\ d \in Ref
        BY <2>7, <2>2, <2>3, <3>1, <4>1, <4>2, EdgesDeeper
      <4>4. NVars - n <= j
        BY <4>1, <4>3, MainAssumption
      <4> QED
        BY <1>2, <2>1, <4>2, <4>3, <4>4
    <3> QED
      BY <2>4, <2>5, <2>7, <3>1
  <2> QED
    BY <2>6, <2>7
<1>3. \A n \in Nat : n \in S
  <2> HIDE DEF S
  <2> QED
    BY <1>1, <1>2, NatSet
<1> QED
  BY <1>3, MainAssumption DEF Usable

\* What is below, unfolded once.
LEMMA BelowConst ==
  ASSUME NEW l, NEW s, NEW a \in Ref, IsConst(a)
  PROVE  Reach(l, s)[NVars][a] = {}
<1>1. PICK n \in 0 .. NVars : n = NVars
  BY MainAssumption
<1> QED
  BY <1>1, ReachNone

LEMMA BelowEdges ==
  ASSUME NEW l, NEW s, NEW U, Memory(l, s, U), NEW a, Usable(l, U, a), ~IsConst(a),
         NEW m, m = At(l, s, a)
  PROVE  Reach(l, s)[NVars][a] = {Place(a)} \cup Reach(l, s)[NVars][m.low] \cup Reach(l, s)[NVars][m.high]
<1>1. PICK i \in Level : i = Depth(l, s, a)
  BY EdgesDeeper
<1>2. PICK n \in Nat : n = NVars - 1
  BY MainAssumption DEF Level
<1>3. n + 1 = NVars /\ n \in 0 .. NVars /\ a \in Ref
  BY <1>2, MainAssumption DEF Usable
<1>4. Reach(l, s)[n + 1][a] = {Place(a)} \cup Reach(l, s)[n][m.low] \cup Reach(l, s)[n][m.high]
  BY <1>3, ReachNode
<1>5. ASSUME NEW d \in {m.low, m.high} PROVE Reach(l, s)[n][d] = Reach(l, s)[NVars][d]
  <2>1. PICK j \in 0 .. NVars : j = Depth(l, s, d)
    BY <1>5, EdgesDeeper
  <2>2. Usable(l, U, d) /\ i < j
    BY <1>1, <1>5, <2>1, EdgesDeeper
  <2>3. NVars - n <= j
    BY <1>1, <1>2, <2>1, <2>2, MainAssumption DEF Level
  <2> QED
    BY <1>3, <2>1, <2>2, <2>3, ReachEnough
<1> QED
  BY <1>3, <1>4, <1>5

\* The place of a node in use.
Spot(l, U, q) == \E r \in Ref : Usable(l, U, r) /\ ~IsConst(r) /\ q = Place(r)

\* What the edges of the nodes at S lead to is there too, and so is the root a.
KidsIn(l, s, S) == \A q \in S : \A c \in Kids(At(l, s, q)) : IsConst(c) \/ c \in S
RootIn(S, a) == IsConst(a) \/ Place(a) \in S

\* The places B are the least such set, and are nodes in use.
BelowIs(l, s, U, a, B) ==
  /\ RootIn(B, a) /\ KidsIn(l, s, B)
  /\ \A S : RootIn(S, a) /\ KidsIn(l, s, S) => B \subseteq S
  /\ \A q \in B : Spot(l, U, q)
  /\ IsFiniteSet(B)

LEMMA PlaceSame ==
  ASSUME NEW l, NEW s, NEW a
  PROVE  /\ At(l, s, Place(a)) = At(l, s, a) /\ IsConst(Place(a)) = IsConst(a)
         /\ Place(a).local = a.local /\ Place(a).idx = a.idx
  BY DEF Place, At, IsConst

LEMMA BelowNode ==
  ASSUME NEW l, NEW s, NEW U, NEW a, Usable(l, U, a), ~IsConst(a), NEW n, n = At(l, s, a),
         NEW X, BelowIs(l, s, U, n.low, X), NEW Y, BelowIs(l, s, U, n.high, Y)
  PROVE  BelowIs(l, s, U, a, {Place(a)} \cup X \cup Y)
<1> DEFINE B == {Place(a)} \cup X \cup Y
<1>1. Kids(At(l, s, Place(a))) = {Place(n.low), Place(n.high)}
  BY PlaceSame DEF Kids
<1>2. \A b : IsConst(Place(b)) = IsConst(b)
  BY PlaceSame
<1>3. \A c \in {Place(n.low), Place(n.high)} : IsConst(c) \/ c \in X \cup Y
  BY <1>2 DEF BelowIs, RootIn
<1>4. RootIn(B, a)
  BY DEF RootIn
<1>5. KidsIn(l, s, B)
  <2> SUFFICES ASSUME NEW q \in B, NEW c \in Kids(At(l, s, q)) PROVE IsConst(c) \/ c \in B
    BY DEF KidsIn
  <2>1. CASE q = Place(a)
    BY <1>1, <1>3, <2>1
  <2>2. CASE q \in X
    BY <2>2 DEF BelowIs, KidsIn
  <2>3. CASE q \in Y
    BY <2>3 DEF BelowIs, KidsIn
  <2> QED
    BY <2>1, <2>2, <2>3
<1>6. ASSUME NEW S, RootIn(S, a), KidsIn(l, s, S) PROVE B \subseteq S
  <2>1. Place(a) \in S
    BY <1>6 DEF RootIn
  <2>2. RootIn(S, n.low) /\ RootIn(S, n.high)
    BY <1>1, <1>2, <1>6, <2>1 DEF RootIn, KidsIn
  <2>3. X \subseteq S /\ Y \subseteq S
    BY <1>6, <2>2 DEF BelowIs
  <2> QED
    BY <2>1, <2>3
<1>7. \A q \in B : Spot(l, U, q)
  BY DEF BelowIs, Spot, Usable
<1>8. IsFiniteSet(B)
  <2>1. IsFiniteSet(X \cup Y)
    BY FS_Union DEF BelowIs
  <2>2. IsFiniteSet((X \cup Y) \cup {Place(a)})
    BY <2>1, FS_AddElement
  <2>3. B = (X \cup Y) \cup {Place(a)}
    OBVIOUS
  <2> QED
    BY <2>2, <2>3
<1> QED
  <2> HIDE DEF B
  <2>1. BelowIs(l, s, U, a, B)
    BY <1>4, <1>5, <1>6, <1>7, <1>8 DEF BelowIs
  <2> QED
    BY <2>1 DEF B

LEMMA BelowRight ==
  ASSUME NEW l, NEW s, NEW U, Memory(l, s, U), NEW a, Usable(l, U, a)
  PROVE  BelowIs(l, s, U, a, Reach(l, s)[NVars][a])
<1> DEFINE Right(n) == \A b \in Ref : Usable(l, U, b) /\ NVars - n <= Depth(l, s, b) =>
                         BelowIs(l, s, U, b, Reach(l, s)[NVars][b])
    S == {n \in Nat : n <= NVars => Right(n)}
<1>1. ASSUME NEW b, Usable(l, U, b), IsConst(b) PROVE BelowIs(l, s, U, b, Reach(l, s)[NVars][b])
  <2>1. Reach(l, s)[NVars][b] = {}
    BY <1>1, BelowConst DEF Usable
  <2>2. IsFiniteSet({})
    BY FS_EmptySet
  <2> QED
    BY <1>1, <2>1, <2>2 DEF BelowIs, RootIn, KidsIn
<1>2. 0 \in S
  <2> SUFFICES ASSUME NEW b \in Ref, Usable(l, U, b), NVars <= Depth(l, s, b) PROVE IsConst(b)
    BY <1>1, MainAssumption
  <2> QED
    BY DepthIs, MainAssumption
<1>3. ASSUME NEW n \in Nat, n \in S PROVE n + 1 \in S
  <2> SUFFICES ASSUME n + 1 <= NVars, NEW b \in Ref, Usable(l, U, b), NVars - (n + 1) <= Depth(l, s, b)
               PROVE  BelowIs(l, s, U, b, Reach(l, s)[NVars][b])
    BY MainAssumption
  <2>1. CASE IsConst(b)
    BY <1>1, <2>1
  <2>2. CASE ~IsConst(b)
    <3>1. PICK m : m = At(l, s, b)
      OBVIOUS
    <3>2. ASSUME NEW d \in {m.low, m.high} PROVE BelowIs(l, s, U, d, Reach(l, s)[NVars][d])
      <4>1. PICK i \in Level : i = Depth(l, s, b)
        BY <2>2, EdgesDeeper
      <4>2. PICK j \in 0 .. NVars : j = Depth(l, s, d)
        BY <2>2, <3>1, <3>2, EdgesDeeper
      <4>3. Usable(l, U, d) /\ d \in Ref /\ i < j
        BY <2>2, <3>1, <3>2, <4>1, <4>2, EdgesDeeper
      <4>4. NVars - n <= j /\ n <= NVars
        BY <4>1, <4>2, <4>3, MainAssumption DEF Level
      <4> QED
        BY <1>3, <4>2, <4>3, <4>4
    <3>3. PICK X : X = Reach(l, s)[NVars][m.low]
      OBVIOUS
    <3>4. PICK Y : Y = Reach(l, s)[NVars][m.high]
      OBVIOUS
    <3>5. BelowIs(l, s, U, m.low, X) /\ BelowIs(l, s, U, m.high, Y)
      BY <3>2, <3>3, <3>4
    <3>6. BelowIs(l, s, U, b, {Place(b)} \cup X \cup Y)
      BY <2>2, <3>1, <3>5, BelowNode
    <3>7. Reach(l, s)[NVars][b] = {Place(b)} \cup X \cup Y
      <4>1. Reach(l, s)[NVars][b] = {Place(b)} \cup Reach(l, s)[NVars][m.low] \cup Reach(l, s)[NVars][m.high]
        BY <2>2, <3>1, BelowEdges
      <4> QED
        BY <3>3, <3>4, <4>1
    <3> QED
      BY <3>6, <3>7
  <2> QED
    BY <2>1, <2>2
<1>4. NVars \in S
  <2> HIDE DEF S
  <2> QED
    BY <1>2, <1>3, NatSet, MainAssumption
<1>5. Right(NVars)
  BY <1>4, MainAssumption
<1>6. a \in Ref /\ NVars - NVars <= Depth(l, s, a)
  <2>1. Depth(l, s, a) \in 0 .. NVars /\ a \in Ref
    BY DepthIs DEF Usable
  <2> QED
    BY <2>1, MainAssumption
<1> QED
  BY <1>5, <1>6

\* Nothing changes below a diagram when the memory grows.
LEMMA BelowGrows ==
  ASSUME NEW l, NEW s, NEW U, Memory(l, s, U), NEW k, NEW t, NEW W, Grows(l, s, U, k, t, W),
         NEW a, Usable(l, U, a)
  PROVE  Reach(k, t)[NVars][a] = Reach(l, s)[NVars][a]
<1> DEFINE Same(n) == \A b \in Ref : Usable(l, U, b) => Reach(k, t)[n][b] = Reach(l, s)[n][b]
    S == {n \in Nat : n <= NVars => Same(n)}
<1>1. 0 \in S
  <2> SUFFICES ASSUME NEW b \in Ref PROVE Reach(k, t)[0][b] = Reach(l, s)[0][b]
    OBVIOUS
  <2>1. 0 \in 0 .. NVars
    BY MainAssumption
  <2>2. Reach(k, t)[0][b] = {}
    BY <2>1, ReachIs
  <2>3. Reach(l, s)[0][b] = {}
    BY <2>1, ReachIs
  <2> QED
    BY <2>2, <2>3
<1>2. ASSUME NEW n \in Nat, n \in S PROVE n + 1 \in S
  <2> SUFFICES ASSUME n + 1 <= NVars, NEW b \in Ref, Usable(l, U, b)
               PROVE  Reach(k, t)[n + 1][b] = Reach(l, s)[n + 1][b]
    OBVIOUS
  <2>1. CASE IsConst(b)
    <3>1. PICK m \in 0 .. NVars : m = n + 1
      BY MainAssumption
    <3>2. Reach(k, t)[m][b] = {} /\ Reach(l, s)[m][b] = {}
      BY <2>1, ReachNone
    <3> QED
      BY <3>1, <3>2
  <2>2. CASE ~IsConst(b)
    <3>1. PICK m : m = At(l, s, b)
      OBVIOUS
    <3>2. PICK o : o = At(k, t, b)
      OBVIOUS
    <3>3. PICK c : c = m.low
      OBVIOUS
    <3>4. PICK d : d = m.high
      OBVIOUS
    <3>5. Usable(l, U, c) /\ c \in Ref /\ Usable(l, U, d) /\ d \in Ref
      BY <2>2, <3>1, <3>3, <3>4, EdgesDeeper
    <3>6. o.low = c /\ o.high = d
      BY <2>2, <3>1, <3>2, <3>3, <3>4, GrowsAgree DEF SameNode
    <3>7. Reach(k, t)[n][c] = Reach(l, s)[n][c] /\ Reach(k, t)[n][d] = Reach(l, s)[n][d]
      BY <1>2, <3>5, MainAssumption
    <3>8. Reach(l, s)[n + 1][b] = {Place(b)} \cup Reach(l, s)[n][c] \cup Reach(l, s)[n][d]
      BY <2>2, <3>1, <3>3, <3>4, ReachNode
    <3>9. Reach(k, t)[n + 1][b] = {Place(b)} \cup Reach(k, t)[n][o.low] \cup Reach(k, t)[n][o.high]
      BY <2>2, <3>2, ReachNode
    <3> QED
      BY <3>6, <3>7, <3>8, <3>9
  <2> QED
    BY <2>1, <2>2
<1>3. NVars \in S
  <2> HIDE DEF S
  <2> QED
    BY <1>1, <1>2, NatSet, MainAssumption
<1> QED
  BY <1>3, MainAssumption DEF Usable

-----------------------------------------------------------------------------
(* What is done and what is waited for *)

\* In the end all places are done.
LEMMA CoveredEnd ==
  ASSUME NEW l, NEW s, NEW U, NEW a, NEW B, BelowIs(l, s, U, a, B), NEW D, Covered(l, s, B, D, {}, a)
  PROVE  D = B
<1>1. RootIn(D, a) /\ KidsIn(l, s, D) /\ D \subseteq B
  BY DEF Covered, RootIn, KidsIn
<1> QED
  BY <1>1 DEF BelowIs

\* A place that is not waited for any more is a constant or done.
LEMMA CoveredLess ==
  ASSUME NEW l, NEW s, NEW B, NEW D, NEW W, NEW a, Covered(l, s, B, D, W, a),
         NEW X \in SUBSET W, \A q \in W : q \in X \/ IsConst(q) \/ q \in D
  PROVE  Covered(l, s, B, D, X, a)
<1>1. IsConst(a) \/ Place(a) \in D \cup X
  BY PlaceSame DEF Covered
<1>2. \A q \in D : \A c \in Kids(At(l, s, q)) : IsConst(c) \/ c \in D \cup X
  BY DEF Covered
<1>3. D \subseteq B /\ \A q \in X : IsConst(q) \/ q \in B
  BY DEF Covered
<1> QED
  BY <1>1, <1>2, <1>3 DEF Covered

\* The place q is done, and its edges are waited for.
LEMMA CoveredMore ==
  ASSUME NEW l, NEW s, NEW B, NEW D, NEW W, NEW a, Covered(l, s, B, D, W, a),
         KidsIn(l, s, B), NEW q \in B,
         NEW k, NEW t, \A p \in B : Kids(At(k, t, p)) = Kids(At(l, s, p)),
         NEW X, X \subseteq W \cup Kids(At(l, s, q)), Kids(At(l, s, q)) \subseteq X, W \subseteq X \cup {q}
  PROVE  Covered(k, t, B, D \cup {q}, X, a)
<1>1. D \cup {q} \subseteq B /\ \A p \in X : IsConst(p) \/ p \in B
  BY DEF Covered, KidsIn
<1>2. IsConst(a) \/ Place(a) \in (D \cup {q}) \cup X
  BY DEF Covered
<1>3. ASSUME NEW p \in D \cup {q}, NEW c \in Kids(At(k, t, p)) PROVE IsConst(c) \/ c \in (D \cup {q}) \cup X
  <2>1. c \in Kids(At(l, s, p))
    BY <1>1
  <2> QED
    BY <2>1 DEF Covered
<1> QED
  BY <1>1, <1>2, <1>3 DEF Covered

\* The calls of a list, and of one call.
WaitingOf(h) == {q \in {Place(h.ref)} : ~h.leaving}
LeavingOf(h) == {i \in {h.ref.idx} : h.leaving /\ ~h.ref.local}

LEMMA CallsIn ==
  ASSUME NEW t \in Seq(Call)
  PROVE  /\ \A q : q \in Waiting(t) <=> \E k \in 1 .. Len(t) : q \in WaitingOf(t[k])
         /\ \A i : i \in Leaving(t) <=> \E k \in 1 .. Len(t) : i \in LeavingOf(t[k])
  BY DEF Waiting, Leaving, WaitingOf, LeavingOf

LEMMA CallsTwo ==
  ASSUME NEW t \in Seq(Call), NEW u \in Seq(Call)
  PROVE  /\ t \o u \in Seq(Call)
         /\ Waiting(t \o u) = Waiting(t) \cup Waiting(u)
         /\ Leaving(t \o u) = Leaving(t) \cup Leaving(u)
<1>1. PICK T : T = Call
  OBVIOUS
<1>2. t \in Seq(T) /\ u \in Seq(T)
  BY <1>1
<1>3. /\ t \o u \in Seq(T) /\ Len(t \o u) = Len(t) + Len(u) /\ Len(t) \in Nat /\ Len(u) \in Nat
      /\ \A k \in 1 .. Len(t) + Len(u) : (t \o u)[k] = IF k <= Len(t) THEN t[k] ELSE u[k - Len(t)]
  BY <1>2, ConcatProperties, LenProperties
<1>4. PICK v : v = t \o u
  OBVIOUS
<1>5. ASSUME NEW k \in 1 .. Len(v)
      PROVE  (\E j \in 1 .. Len(t) : v[k] = t[j]) \/ (\E j \in 1 .. Len(u) : v[k] = u[j])
  <2>1. CASE k <= Len(t)
    BY <1>3, <1>4, <2>1
  <2>2. CASE ~(k <= Len(t))
    <3>1. k - Len(t) \in 1 .. Len(u) /\ v[k] = u[k - Len(t)]
      BY <1>3, <1>4, <2>2
    <3> QED
      BY <3>1
  <2> QED
    BY <2>1, <2>2
<1>6. ASSUME NEW j \in 1 .. Len(t) PROVE \E k \in 1 .. Len(v) : v[k] = t[j]
  <2>1. j \in 1 .. Len(v) /\ v[j] = t[j]
    BY <1>3, <1>4
  <2> QED
    BY <2>1
<1>7. ASSUME NEW j \in 1 .. Len(u) PROVE \E k \in 1 .. Len(v) : v[k] = u[j]
  <2>1. PICK k \in Nat : k = j + Len(t)
    BY <1>3
  <2>2. k \in 1 .. Len(v) /\ ~(k <= Len(t)) /\ k - Len(t) = j
    BY <1>3, <1>4, <2>1
  <2>3. v[k] = u[j]
    BY <1>3, <1>4, <2>2
  <2> QED
    BY <2>2, <2>3
<1>8. v \in Seq(Call)
  BY <1>1, <1>3, <1>4
<1>9. \A q : q \in Waiting(v) <=> q \in Waiting(t) \/ q \in Waiting(u)
  <2>1. \A q : q \in Waiting(v) <=> \E k \in 1 .. Len(v) : q \in WaitingOf(v[k])
    BY <1>8, CallsIn
  <2>2. \A q : q \in Waiting(t) <=> \E k \in 1 .. Len(t) : q \in WaitingOf(t[k])
    BY CallsIn
  <2>3. \A q : q \in Waiting(u) <=> \E k \in 1 .. Len(u) : q \in WaitingOf(u[k])
    BY CallsIn
  <2> QED
    BY <1>5, <1>6, <1>7, <2>1, <2>2, <2>3, ZenonT(30)
<1>10. \A i : i \in Leaving(v) <=> i \in Leaving(t) \/ i \in Leaving(u)
  <2>1. \A i : i \in Leaving(v) <=> \E k \in 1 .. Len(v) : i \in LeavingOf(v[k])
    BY <1>8, CallsIn
  <2>2. \A i : i \in Leaving(t) <=> \E k \in 1 .. Len(t) : i \in LeavingOf(t[k])
    BY CallsIn
  <2>3. \A i : i \in Leaving(u) <=> \E k \in 1 .. Len(u) : i \in LeavingOf(u[k])
    BY CallsIn
  <2> QED
    BY <1>5, <1>6, <1>7, <2>1, <2>2, <2>3, ZenonT(30)
<1> QED
  BY <1>4, <1>8, <1>9, <1>10

LEMMA CallsOne ==
  ASSUME NEW h \in Call
  PROVE  <<h>> \in Seq(Call) /\ Waiting(<<h>>) = WaitingOf(h) /\ Leaving(<<h>>) = LeavingOf(h)
<1>1. PICK T : T = Call
  OBVIOUS
<1>2. PICK t : t = <<h>>
  OBVIOUS
<1>3. t \in Seq(T) /\ Len(t) = 1 /\ t[1] = h
  BY <1>1, <1>2
<1>4. t \in Seq(Call)
  BY <1>1, <1>3
<1>5. /\ \A q : q \in Waiting(t) <=> \E k \in 1 .. Len(t) : q \in WaitingOf(t[k])
      /\ \A i : i \in Leaving(t) <=> \E k \in 1 .. Len(t) : i \in LeavingOf(t[k])
  BY <1>4, CallsIn
<1>6. \A k \in 1 .. Len(t) : k = 1
  BY <1>3
<1>7. 1 \in 1 .. Len(t)
  BY <1>3
<1>8. Waiting(t) = WaitingOf(h) /\ Leaving(t) = LeavingOf(h)
  BY <1>3, <1>5, <1>6, <1>7
<1> QED
  BY <1>2, <1>4, <1>8

LEMMA CallsNone ==
  << >> \in Seq(Call) /\ Waiting(<< >>) = {} /\ Leaving(<< >>) = {}
  BY DEF Waiting, Leaving

LEMMA CallsHead ==
  ASSUME NEW t \in Seq(Call), t # << >>, NEW h, h = Head(t), NEW u, u = Tail(t)
  PROVE  /\ h \in Call /\ u \in Seq(Call)
         /\ Waiting(t) = WaitingOf(h) \cup Waiting(u)
         /\ Leaving(t) = LeavingOf(h) \cup Leaving(u)
<1>1. PICK T : T = Call
  OBVIOUS
<1>2. t \in Seq(T)
  BY <1>1
<1>3. h \in T /\ u \in Seq(T) /\ t = <<h>> \o u
  BY <1>2, HeadTailProperties
<1>4. h \in Call /\ u \in Seq(Call)
  BY <1>1, <1>3
<1>5. PICK e : e = <<h>>
  OBVIOUS
<1>6. e \in Seq(Call) /\ Waiting(e) = WaitingOf(h) /\ Leaving(e) = LeavingOf(h)
  BY <1>4, <1>5, CallsOne
<1>7. Waiting(e \o u) = Waiting(e) \cup Waiting(u) /\ Leaving(e \o u) = Leaving(e) \cup Leaving(u)
  BY <1>4, <1>6, CallsTwo
<1> QED
  BY <1>3, <1>4, <1>5, <1>6, <1>7

\* The calls of a node that is visited.
NodeCalls(n, a, u, t) ==
  /\ t \in Seq(Call)
  /\ Waiting(t) = Kids(n) \cup Waiting(u)
  /\ Leaving(t) = {i \in {a.idx} : ~a.local} \cup Leaving(u)

LEMMA CallsNode ==
  ASSUME NEW n, n.low \in Ref, n.high \in Ref, NEW a \in Ref, NEW u \in Seq(Call),
         NEW t, t = Calls(n) \o <<Leave(a)>> \o u
  PROVE  NodeCalls(n, a, u, t)
<1>1. PICK o \in BOOLEAN : o = FALSE
  OBVIOUS
<1>2. PICK z \in BOOLEAN : z = TRUE
  OBVIOUS
<1>3. PICK x : x = [ref |-> n.low, leaving |-> o]
  OBVIOUS
<1>4. PICK y : y = [ref |-> n.high, leaving |-> o]
  OBVIOUS
<1>5. PICK w : w = [ref |-> a, leaving |-> z]
  OBVIOUS
<1>6. x \in Call /\ y \in Call /\ w \in Call
  BY <1>3, <1>4, <1>5 DEF Call
<1>7. /\ WaitingOf(x) = {Place(n.low)} /\ LeavingOf(x) = {}
      /\ WaitingOf(y) = {Place(n.high)} /\ LeavingOf(y) = {}
      /\ WaitingOf(w) = {} /\ LeavingOf(w) = {i \in {a.idx} : ~a.local}
  BY <1>1, <1>2, <1>3, <1>4, <1>5 DEF WaitingOf, LeavingOf
<1>8. t = ((<<x>> \o <<y>>) \o <<w>>) \o u
  <2>1. Visit(n.low) = x /\ Visit(n.high) = y /\ Leave(a) = w
    BY <1>1, <1>2, <1>3, <1>4, <1>5 DEF Visit, Leave
  <2>2. Calls(n) = <<Visit(n.low)>> \o <<Visit(n.high)>>
    BY DEF Calls
  <2> QED
    BY <2>1, <2>2
<1>9. PICK c : c = <<x>>
  OBVIOUS
<1>10. PICK d : d = <<y>>
  OBVIOUS
<1>11. PICK e : e = <<w>>
  OBVIOUS
<1>12. /\ c \in Seq(Call) /\ Waiting(c) = WaitingOf(x) /\ Leaving(c) = LeavingOf(x)
       /\ d \in Seq(Call) /\ Waiting(d) = WaitingOf(y) /\ Leaving(d) = LeavingOf(y)
       /\ e \in Seq(Call) /\ Waiting(e) = WaitingOf(w) /\ Leaving(e) = LeavingOf(w)
  BY <1>6, <1>9, <1>10, <1>11, CallsOne
<1>13. PICK f : f = c \o d
  OBVIOUS
<1>14. f \in Seq(Call) /\ Waiting(f) = Waiting(c) \cup Waiting(d) /\ Leaving(f) = Leaving(c) \cup Leaving(d)
  BY <1>12, <1>13, CallsTwo
<1>15. PICK g : g = f \o e
  OBVIOUS
<1>16. g \in Seq(Call) /\ Waiting(g) = Waiting(f) \cup Waiting(e) /\ Leaving(g) = Leaving(f) \cup Leaving(e)
  BY <1>12, <1>14, <1>15, CallsTwo
<1>17. t = g \o u
  BY <1>8, <1>9, <1>10, <1>11, <1>13, <1>15
<1>18. t \in Seq(Call) /\ Waiting(t) = Waiting(g) \cup Waiting(u) /\ Leaving(t) = Leaving(g) \cup Leaving(u)
  BY <1>16, <1>17, CallsTwo, ZenonT(40)
<1>19. Waiting(t) = Kids(n) \cup Waiting(u)
  <2>1. Waiting(g) = {Place(n.low)} \cup {Place(n.high)}
    BY <1>7, <1>12, <1>14, <1>16
  <2> QED
    BY <1>18, <2>1 DEF Kids
<1>20. Leaving(t) = {i \in {a.idx} : ~a.local} \cup Leaving(u)
  <2>1. Leaving(f) = {}
    BY <1>7, <1>12, <1>14
  <2>2. Leaving(g) = LeavingOf(w)
    BY <1>12, <1>16, <2>1
  <2> QED
    BY <1>7, <1>18, <2>2
<1> QED
  BY <1>18, <1>19, <1>20 DEF NodeCalls

-----------------------------------------------------------------------------
(* One half of a count *)

LEMMA HalfBelow ==
  ASSUME NEW l, NEW s, NEW U, Memory(l, s, U), NEW F, NEW t, NEW a, NEW b, NEW c, Half(l, s, U, F, t, a, b, c)
  PROVE  \E B : B = Reach(l, s)[NVars][a] /\ BelowIs(l, s, U, a, B) /\ HalfOf(B, l, s, U, F, t, a, b, c)
<1>1. Usable(l, U, a)
  BY DEF Half, HalfOf
<1>2. BelowIs(l, s, U, a, Reach(l, s)[NVars][a])
  BY <1>1, BelowRight
<1> QED
  BY <1>2 DEF Half

\* It begins with a call for the diagram.
LEMMA HalfStart ==
  ASSUME NEW l, NEW s, NEW U, NEW a, Usable(l, U, a), NEW B, BelowIs(l, s, U, a, B), Clean(l, s, U, B),
         NEW b \in BOOLEAN, \A q \in B : At(l, s, q).data # b, NEW c, c = Cardinality(IF b THEN {} ELSE B),
         NEW t, t = <<Visit(a)>>, NEW F, F = {}
  PROVE  HalfOf(B, l, s, U, F, t, a, b, c)
<1>1. PICK o \in BOOLEAN : o = FALSE
  OBVIOUS
<1>2. PICK h : h = [ref |-> a, leaving |-> o]
  OBVIOUS
<1>3. h \in Call /\ WaitingOf(h) = {Place(a)} /\ t = <<h>>
  BY <1>1, <1>2 DEF Call, WaitingOf, Usable, Visit
<1>4. t \in Seq(Call) /\ Waiting(t) = {Place(a)}
  BY <1>3, CallsOne
<1>5. DoneOf(l, s, F, b, B) = {}
  BY DEF DoneOf
<1>6. Covered(l, s, B, {}, {Place(a)}, a)
  BY PlaceSame DEF Covered, BelowIs, RootIn
<1> QED
  BY <1>4, <1>5, <1>6 DEF HalfOf

\* A call that does nothing, or returns.
LEMMA HalfLess ==
  ASSUME NEW B, NEW l, NEW s, NEW U, NEW F, NEW t, NEW a, NEW b \in BOOLEAN, NEW c, HalfOf(B, l, s, U, F, t, a, b, c),
         t # << >>, NEW h, h = Head(t), NEW u, u = Tail(t),
         \/ ~h.leaving /\ (IsConst(h.ref) \/ At(l, s, h.ref).data = b)
         \/ h.leaving /\ (h.ref.local \/ h.ref.idx \notin F)
  PROVE  HalfOf(B, l, s, U, F, u, a, b, c)
<1>1. PICK D : D = DoneOf(l, s, F, b, B)
  OBVIOUS
<1>2. t \in Seq(Call) /\ F \subseteq Leaving(t) /\ Covered(l, s, B, D, Waiting(t), a)
  BY <1>1 DEF HalfOf
<1>3. /\ u \in Seq(Call) /\ Waiting(t) = WaitingOf(h) \cup Waiting(u)
      /\ Leaving(t) = LeavingOf(h) \cup Leaving(u)
  BY <1>2, CallsHead
<1>4. F \subseteq Leaving(u)
  BY <1>2, <1>3 DEF LeavingOf
<1>5. ASSUME NEW q \in Waiting(t) PROVE q \in Waiting(u) \/ IsConst(q) \/ q \in D
  <2>1. CASE q \in WaitingOf(h)
    <3>1. q = Place(h.ref) /\ ~h.leaving
      BY <2>1 DEF WaitingOf
    <3>2. IsConst(q) \/ At(l, s, q).data = b
      BY <3>1, PlaceSame
    <3>3. IsConst(q) \/ q \in B
      BY <1>2 DEF Covered
    <3> QED
      BY <1>1, <3>2, <3>3 DEF DoneOf
  <2> QED
    BY <1>3, <2>1
<1>6. Waiting(u) \in SUBSET Waiting(t)
  BY <1>3
<1>7. Covered(l, s, B, D, Waiting(u), a)
  BY <1>2, <1>5, <1>6, CoveredLess
<1> QED
  BY <1>1, <1>3, <1>4, <1>7 DEF HalfOf

\* In the end all places have the mark.
MarkedAll(l, s, b, B) == \A q \in B : At(l, s, q).data = b

LEMMA HalfEnd ==
  ASSUME NEW B, NEW l, NEW s, NEW U, NEW F, NEW t, NEW a, NEW b \in BOOLEAN, NEW c, HalfOf(B, l, s, U, F, t, a, b, c),
         BelowIs(l, s, U, a, B), t = << >>
  PROVE  /\ F = {} /\ c = Cardinality(B) /\ MarkedAll(l, s, b, B)
         /\ Clean(l, s, U, B) /\ Usable(l, U, a)
<1>1. F = {}
  BY CallsNone DEF HalfOf
<1>2. PICK D : D = DoneOf(l, s, F, b, B)
  OBVIOUS
<1>3. Covered(l, s, B, D, {}, a)
  BY <1>2, CallsNone DEF HalfOf
<1>4. D = B
  BY <1>3, CoveredEnd
<1> QED
  BY <1>1, <1>2, <1>4 DEF HalfOf, DoneOf, MarkedAll

\* At most the mark of the place q changes.
Remark(l, s, U, k, r, q) ==
  \A p \in Ref : /\ Taken(l, U, p) = Taken(k, U, p)
                 /\ Taken(l, U, p) => /\ SameNode(At(k, r, p), At(l, s, p))
                                      /\ Place(p) # q => At(k, r, p) = At(l, s, p)

LEMMA RemarkSpot ==
  ASSUME NEW l, NEW s, NEW U, NEW k, NEW r, NEW q, Remark(l, s, U, k, r, q), NEW p, Spot(l, U, p)
  PROVE  SameNode(At(k, r, p), At(l, s, p)) /\ (p # q => At(k, r, p) = At(l, s, p))
<1>1. PICK a \in Ref : Usable(l, U, a) /\ ~IsConst(a) /\ p = Place(a)
  BY DEF Spot
<1>2. Taken(l, U, a)
  BY <1>1 DEF Usable, Taken
<1>3. SameNode(At(k, r, a), At(l, s, a)) /\ (Place(a) # q => At(k, r, a) = At(l, s, a))
  BY <1>2 DEF Remark
<1>4. At(k, r, p) = At(k, r, a) /\ At(l, s, p) = At(l, s, a)
  BY <1>1, PlaceSame
<1> QED
  BY <1>1, <1>3, <1>4

LEMMA SpotSame ==
  ASSUME NEW l, NEW U, NEW p, Spot(l, U, p), NEW q, Spot(l, U, q), ~p.local, ~q.local, p.idx = q.idx
  PROVE  p = q
<1>1. PICK a \in Ref : p = Place(a)
  BY DEF Spot
<1>2. PICK c \in Ref : q = Place(c)
  BY DEF Spot
<1>3. a.local = c.local /\ a.idx = c.idx
  BY <1>1, <1>2, PlaceSame DEF Ref
<1> QED
  BY <1>1, <1>2, <1>3 DEF Place

LEMMA RemarkHalf ==
  ASSUME NEW B, NEW l, NEW s, NEW U, NEW a, BelowIs(l, s, U, a, B), Usable(l, U, a), Clean(l, s, U, B),
         NEW k, NEW r, NEW q \in B, Remark(l, s, U, k, r, q)
  PROVE  /\ Usable(k, U, a) /\ Clean(k, r, U, B)
         /\ \A p \in B : Kids(At(k, r, p)) = Kids(At(l, s, p))
         /\ \A p \in B : p # q => At(k, r, p) = At(l, s, p)
<1>1. Usable(k, U, a)
  BY DEF Remark, Taken, Usable
<1>2. Clean(k, r, U, B)
  <2> SUFFICES ASSUME NEW p \in Ref, Taken(k, U, p), Place(p) \notin B PROVE ~At(k, r, p).data
    BY DEF Clean
  <2>1. Taken(l, U, p) /\ At(k, r, p) = At(l, s, p)
    BY DEF Remark
  <2> QED
    BY <2>1 DEF Clean
<1>3. ASSUME NEW p \in B
      PROVE  Kids(At(k, r, p)) = Kids(At(l, s, p)) /\ (p # q => At(k, r, p) = At(l, s, p))
  <2>1. Spot(l, U, p)
    BY DEF BelowIs
  <2>2. SameNode(At(k, r, p), At(l, s, p)) /\ (p # q => At(k, r, p) = At(l, s, p))
    BY <2>1, RemarkSpot
  <2> QED
    BY <2>2 DEF SameNode, Kids
<1> QED
  BY <1>1, <1>2, <1>3

\* Of the puts G to come at most that to the node of x is new.
Joined(F, x, G) == F \subseteq G /\ G \subseteq F \cup {i \in {x.idx} : ~x.local}

\* A call that sets a mark or clears it, at once or by a put.
LEMMA HalfMore ==
  ASSUME NEW B, NEW l, NEW s, NEW U, NEW F, NEW t, NEW a, NEW b \in BOOLEAN, NEW c, HalfOf(B, l, s, U, F, t, a, b, c),
         BelowIs(l, s, U, a, B), t # << >>, ~Head(t).leaving, NEW u, u = Tail(t),
         NEW x, x = Head(t).ref, ~IsConst(x), x.local \/ x.idx \notin F,
         NEW n, n = At(l, s, x), n.low \in Ref, n.high \in Ref, n.data # b,
         NEW k, NEW r, Remark(l, s, U, k, r, Place(x)),
         NEW G, Joined(F, x, G),
         (~x.local /\ x.idx \in G) \/ At(k, r, x).data = b,
         NEW v, v = Calls(n) \o <<Leave(x)>> \o u, NEW e, e = IF b THEN c + 1 ELSE c
  PROVE  HalfOf(B, k, r, U, G, v, a, b, e)
<1>0. F \subseteq G /\ G \subseteq F \cup {i \in {x.idx} : ~x.local}
  BY DEF Joined
<1>1. PICK D : D = DoneOf(l, s, F, b, B)
  OBVIOUS
<1>2. PICK q : q = Place(x)
  OBVIOUS
<1>3. /\ t \in Seq(Call) /\ F \subseteq Leaving(t) /\ Covered(l, s, B, D, Waiting(t), a)
      /\ Usable(l, U, a) /\ Clean(l, s, U, B) /\ c = Cardinality(IF b THEN D ELSE B)
      /\ \A i \in F : \E p \in B : ~p.local /\ p.idx = i
  BY <1>1 DEF HalfOf
<1>4. PICK h : h = Head(t)
  OBVIOUS
<1>5. /\ h \in Call /\ u \in Seq(Call) /\ Waiting(t) = WaitingOf(h) \cup Waiting(u)
      /\ Leaving(t) = LeavingOf(h) \cup Leaving(u)
  BY <1>3, <1>4, CallsHead
<1>6. WaitingOf(h) = {q} /\ LeavingOf(h) = {} /\ x \in Ref
  BY <1>2, <1>4, <1>5 DEF WaitingOf, LeavingOf, Call
<1>7. q.local = x.local /\ q.idx = x.idx /\ ~IsConst(q) /\ At(l, s, q) = n /\ At(k, r, q) = At(k, r, x)
  BY <1>2, PlaceSame
<1>8. q \in B
  BY <1>3, <1>5, <1>6, <1>7 DEF Covered
<1>9. q \notin D
  BY <1>1, <1>7 DEF DoneOf
<1>10. /\ Usable(k, U, a) /\ Clean(k, r, U, B)
       /\ \A p \in B : Kids(At(k, r, p)) = Kids(At(l, s, p))
       /\ \A p \in B : p # q => At(k, r, p) = At(l, s, p)
  BY <1>2, <1>3, <1>8, RemarkHalf
<1>11. ASSUME NEW p \in B PROVE p \in DoneOf(k, r, G, b, B) <=> p \in D \cup {q}
  <2>1. CASE p = q
    BY <1>0, <1>7, <1>8, <2>1 DEF DoneOf
  <2>2. CASE p # q
    <3>1. ~p.local /\ p.idx \in G => p.idx \in F
      <4>1. SUFFICES ASSUME ~p.local, ~x.local, p.idx = x.idx PROVE FALSE
        BY <1>0
      <4>2. Spot(l, U, p) /\ Spot(l, U, q)
        BY <1>8 DEF BelowIs
      <4> QED
        BY <1>7, <2>2, <4>1, <4>2, SpotSame
    <3> QED
      BY <1>0, <1>1, <1>10, <2>2, <3>1 DEF DoneOf
  <2> QED
    BY <2>1, <2>2
<1>12. DoneOf(k, r, G, b, B) = D \cup {q}
  BY <1>1, <1>8, <1>11 DEF DoneOf
<1>13. /\ v \in Seq(Call) /\ Waiting(v) = Kids(n) \cup Waiting(u)
       /\ Leaving(v) = {i \in {x.idx} : ~x.local} \cup Leaving(u)
  <2>1. n.low \in Ref /\ n.high \in Ref /\ x \in Ref /\ u \in Seq(Call) /\ v = Calls(n) \o <<Leave(x)>> \o u
    BY <1>5, <1>6
  <2>2. NodeCalls(n, x, u, v)
    BY <2>1, CallsNode
  <2> QED
    BY <2>2 DEF NodeCalls
<1>14. Covered(k, r, B, D \cup {q}, Waiting(v), a)
  <2>1. KidsIn(l, s, B)
    BY DEF BelowIs
  <2>2. PICK X : X = Waiting(v)
    OBVIOUS
  <2>3. X \subseteq Waiting(t) \cup Kids(At(l, s, q)) /\ Kids(At(l, s, q)) \subseteq X /\ Waiting(t) \subseteq X \cup {q}
    BY <1>5, <1>6, <1>7, <1>13, <2>2
  <2>4. Covered(k, r, B, D \cup {q}, X, a)
    BY <1>3, <1>8, <1>10, <2>1, <2>3, CoveredMore
  <2> QED
    BY <2>2, <2>4
<1>15. e = Cardinality(IF b THEN D \cup {q} ELSE B)
  <2>1. IsFiniteSet(D)
    <3>1. D \in SUBSET B /\ IsFiniteSet(B)
      BY <1>1 DEF DoneOf, BelowIs
    <3> QED
      BY <3>1, FS_Subset
  <2>2. Cardinality(D \cup {q}) = Cardinality(D) + 1
    BY <1>9, <2>1, FS_AddElement
  <2> QED
    BY <1>3, <2>2
<1>16. G \subseteq Leaving(v) /\ \A i \in G : \E p \in B : ~p.local /\ p.idx = i
  <2>1. F \subseteq Leaving(u)
    BY <1>3, <1>5, <1>6
  <2>2. ASSUME NEW i \in G PROVE \E p \in B : ~p.local /\ p.idx = i
    <3>1. CASE i \in F
      BY <1>3, <3>1
    <3>2. CASE i \notin F
      BY <1>0, <1>7, <1>8, <3>2
    <3> QED
      BY <3>1, <3>2
  <2> QED
    BY <1>0, <1>13, <2>1, <2>2
<1> QED
  BY <1>10, <1>12, <1>13, <1>14, <1>15, <1>16 DEF HalfOf

\* A put arrives.
LEMMA HalfLand ==
  ASSUME NEW B, NEW l, NEW s, NEW U, NEW F, NEW t, NEW a, NEW b \in BOOLEAN, NEW c, HalfOf(B, l, s, U, F, t, a, b, c),
         BelowIs(l, s, U, a, B), NEW q \in B, ~q.local, q.idx \in F,
         NEW k, NEW r, Remark(l, s, U, k, r, q), At(k, r, q).data = b,
         NEW G, G \subseteq F, F \subseteq G \cup {q.idx}
  PROVE  HalfOf(B, k, r, U, G, t, a, b, c)
<1>1. PICK D : D = DoneOf(l, s, F, b, B)
  OBVIOUS
<1>2. /\ t \in Seq(Call) /\ F \subseteq Leaving(t) /\ Covered(l, s, B, D, Waiting(t), a)
      /\ Usable(l, U, a) /\ Clean(l, s, U, B) /\ c = Cardinality(IF b THEN D ELSE B)
      /\ \A i \in F : \E p \in B : ~p.local /\ p.idx = i
  BY <1>1 DEF HalfOf
<1>3. /\ Usable(k, U, a) /\ Clean(k, r, U, B)
      /\ \A p \in B : Kids(At(k, r, p)) = Kids(At(l, s, p))
      /\ \A p \in B : p # q => At(k, r, p) = At(l, s, p)
  BY <1>2, RemarkHalf
<1>4. ASSUME NEW p \in B PROVE p \in DoneOf(k, r, G, b, B) <=> p \in D
  <2>1. CASE p = q
    BY <1>1, <2>1 DEF DoneOf
  <2>2. CASE p # q
    <3>1. ~p.local /\ p.idx \in F => p.idx \in G
      <4>1. SUFFICES ASSUME ~p.local, p.idx = q.idx PROVE FALSE
        OBVIOUS
      <4>2. Spot(l, U, p) /\ Spot(l, U, q)
        BY DEF BelowIs
      <4> QED
        BY <2>2, <4>1, <4>2, SpotSame
    <3> QED
      BY <1>1, <1>3, <2>2, <3>1 DEF DoneOf
  <2> QED
    BY <2>1, <2>2
<1>5. DoneOf(k, r, G, b, B) = D
  BY <1>1, <1>4 DEF DoneOf
<1>6. Covered(k, r, B, D, Waiting(t), a)
  <2>1. \A p \in D : Kids(At(k, r, p)) = Kids(At(l, s, p))
    BY <1>1, <1>3 DEF DoneOf
  <2> QED
    BY <1>2, <2>1 DEF Covered
<1> QED
  BY <1>2, <1>3, <1>5, <1>6 DEF HalfOf

-----------------------------------------------------------------------------
(* A mark changes *)

\* What a changed mark leaves as it is.
Remarked(l, s, U, k, r, q) ==
  Typed(k, r, U) /\ Grows(l, s, U, k, r, U) /\ Remark(l, s, U, k, r, q)

\* Memory k is l with node m at place i.
Changed(k, l, i, m) == k = [l EXCEPT ![i] = m]

LEMMA TypedNode ==
  ASSUME NEW l, NEW s, NEW U, Typed(l, s, U)
  PROVE  /\ \A i \in LocalIndex : l[i] # None => l[i] \in Node
         /\ \A i \in U : s[i] \in Node /\ s[i] # None
<1>1. \A i \in U : s[i] \in Node
  BY DEF Typed, Memory, SharedGood, GoodNode
<1> QED
  BY <1>1, EntryAssumption DEF Typed

LEMMA PlaceOf ==
  ASSUME NEW a \in Ref, NEW b \in Ref, a.local = b.local, a.idx = b.idx
  PROVE  Place(a) = Place(b)
  BY DEF Place

LEMMA MarkLocal ==
  ASSUME NEW l, NEW s, NEW U, Typed(l, s, U), NEW x \in Ref, x.local, x.idx \in LocalIndex, l[x.idx] # None,
         NEW m \in Node, SameNode(m, l[x.idx]), NEW k, Changed(k, l, x.idx, m)
  PROVE  Remarked(l, s, U, k, s, Place(x)) /\ At(k, s, x) = m
<1>1. PICK i \in LocalIndex : i = x.idx
  OBVIOUS
<1>2. /\ k \in [LocalIndex -> Node \cup {None}] /\ k[i] = m /\ m # None /\ \A j \in LocalIndex : j # i => k[j] = l[j]
      /\ s \in [0 .. TableSize - 1 -> Node \cup {None}] /\ U \subseteq 0 .. TableSize - 1 /\ Memory(l, s, U)
  BY <1>1, EntryAssumption DEF Typed, Changed
<1>3. \A j \in LocalIndex : (l[j] = None) = (k[j] = None) /\ SameNode(k[j], l[j])
  BY <1>1, <1>2 DEF SameNode
<1>4. Grows(l, s, U, k, s, U) /\ Grows(l, s, {}, k, s, {})
  BY <1>3 DEF Grows, SameNode
<1>5. LocalGood(k, s)
  <2>1. ASSUME NEW j \in LocalIndex, k[j] # None
        PROVE  k[j] \in Node /\ \E n : SameNode(k[j], n) /\ GoodNode(l, s, {}, n)
    BY <1>2, <1>3, <2>1 DEF Memory, LocalGood
  <2>2. LocalGood(l, s)
    BY <1>2 DEF Memory
  <2> QED
    BY <1>4, <2>1, <2>2, LocalGrows
<1>6. SharedGood(k, s, U)
  <2>1. U \subseteq Nat
    BY <1>2 DEF Memory, SharedGood
  <2>2. ASSUME NEW j \in U PROVE s[j] \in Node /\ \E n : SameNode(s[j], n) /\ GoodNode(l, s, U, n)
    BY <1>2 DEF Memory, SharedGood, GoodNode, SameNode
  <2> QED
    BY <1>2, <1>4, <2>1, <2>2, SharedGrows
<1>7. Typed(k, s, U)
  BY <1>2, <1>5, <1>6 DEF Typed, Memory
<1>8. Remark(l, s, U, k, s, Place(x))
  <2> SUFFICES ASSUME NEW p \in Ref
               PROVE  /\ Taken(l, U, p) = Taken(k, U, p)
                      /\ Taken(l, U, p) => /\ SameNode(At(k, s, p), At(l, s, p))
                                           /\ Place(p) # Place(x) => At(k, s, p) = At(l, s, p)
    BY DEF Remark
  <2>1. CASE ~p.local
    BY <2>1 DEF Taken, At, SameNode
  <2>2. CASE p.local
    <3>1. Taken(l, U, p) = Taken(k, U, p)
      BY <1>3, <2>2 DEF Taken
    <3>2. ASSUME Taken(l, U, p) PROVE SameNode(At(k, s, p), At(l, s, p))
      BY <1>3, <2>2, <3>2 DEF Taken, At
    <3>3. ASSUME Taken(l, U, p), Place(p) # Place(x) PROVE At(k, s, p) = At(l, s, p)
      <4>1. p.local = x.local
        BY <2>2 DEF Ref
      <4>2. p.idx # i /\ p.idx \in LocalIndex
        BY <1>1, <2>2, <3>3, <4>1, PlaceOf DEF Taken
      <4> QED
        BY <1>2, <2>2, <4>2 DEF At
    <3> QED
      BY <3>1, <3>2, <3>3
  <2> QED
    BY <2>1, <2>2
<1> QED
  BY <1>1, <1>2, <1>4, <1>7, <1>8 DEF Remarked, At

LEMMA MarkShared ==
  ASSUME NEW l, NEW s, NEW U, Typed(l, s, U), NEW x \in Ref, ~x.local, x.idx \in U,
         NEW m \in Node, SameNode(m, s[x.idx]), NEW r, Changed(r, s, x.idx, m)
  PROVE  Remarked(l, s, U, l, r, Place(x)) /\ At(l, r, x) = m
<1>1. PICK i \in U : i = x.idx
  OBVIOUS
<1>2. /\ r \in [0 .. TableSize - 1 -> Node \cup {None}] /\ r[i] = m /\ \A j \in U : j # i => r[j] = s[j]
      /\ l \in [LocalIndex -> Node \cup {None}] /\ U \subseteq 0 .. TableSize - 1 /\ Memory(l, s, U)
  BY <1>1 DEF Typed, Changed
<1>3. \A j \in U : SameNode(r[j], s[j])
  BY <1>1, <1>2 DEF SameNode
<1>4. Grows(l, s, U, l, r, U) /\ Grows(l, s, {}, l, r, {})
  BY <1>3 DEF Grows, SameNode
<1>5. LocalGood(l, r)
  <2>1. ASSUME NEW j \in LocalIndex, l[j] # None
        PROVE  l[j] \in Node /\ \E n : SameNode(l[j], n) /\ GoodNode(l, s, {}, n)
    BY <1>2, <2>1 DEF Memory, LocalGood, SameNode
  <2>2. LocalGood(l, s)
    BY <1>2 DEF Memory
  <2> QED
    BY <1>4, <2>1, <2>2, LocalGrows
<1>6. SharedGood(l, r, U)
  <2>1. U \subseteq Nat
    BY <1>2 DEF Memory, SharedGood
  <2>2. ASSUME NEW j \in U PROVE r[j] \in Node /\ \E n : SameNode(r[j], n) /\ GoodNode(l, s, U, n)
    <3>1. r[j] \in Node
      <4>1. s[j] \in Node
        BY TypedNode
      <4> QED
        BY <1>2, <4>1
    <3> QED
      BY <1>2, <1>3, <3>1 DEF Memory, SharedGood
  <2> QED
    BY <1>2, <1>4, <2>1, <2>2, SharedGrows
<1>7. Typed(l, r, U)
  BY <1>2, <1>5, <1>6 DEF Typed, Memory
<1>8. Remark(l, s, U, l, r, Place(x))
  <2> SUFFICES ASSUME NEW p \in Ref, Taken(l, U, p)
               PROVE  /\ SameNode(At(l, r, p), At(l, s, p))
                      /\ Place(p) # Place(x) => At(l, r, p) = At(l, s, p)
    BY DEF Remark
  <2>1. CASE p.local
    BY <2>1 DEF At, SameNode
  <2>2. CASE ~p.local
    <3>1. SameNode(At(l, r, p), At(l, s, p))
      BY <1>3, <2>2 DEF Taken, At
    <3>2. ASSUME Place(p) # Place(x) PROVE At(l, r, p) = At(l, s, p)
      <4>1. p.local = x.local
        BY <2>2 DEF Ref
      <4>2. p.idx # i /\ p.idx \in U
        BY <1>1, <2>2, <3>2, <4>1, PlaceOf DEF Taken
      <4> QED
        BY <1>2, <2>2, <4>2 DEF At
    <3> QED
      BY <3>1, <3>2
  <2> QED
    BY <2>1, <2>2
<1> QED
  BY <1>1, <1>2, <1>4, <1>7, <1>8 DEF Remarked, At

\* Nothing changes.
LEMMA MarkNone ==
  ASSUME NEW l, NEW s, NEW U, Typed(l, s, U), NEW q
  PROVE  Remarked(l, s, U, l, s, q)
  BY DEF Remarked, Remark, Grows, SameNode

LEMMA FlightGrows ==
  ASSUME NEW l, NEW s, NEW U, NEW k, NEW r, Grows(l, s, U, k, r, U),
         NEW f, NEW b, FlightRight(f, s, U, b)
  PROVE  FlightRight(f, r, U, b)
  BY DEF FlightRight, Grows, SameNode

LEMMA PrintedGrows ==
  ASSUME NEW l, NEW s, NEW U, Memory(l, s, U), NEW k, NEW r, NEW W, Grows(l, s, U, k, r, W),
         NEW q, PrintedRight(l, s, U, q)
  PROVE  PrintedRight(k, r, W, q)
<1>1. ASSUME NEW i \in 1 .. Len(q)
      PROVE  Usable(k, W, q[i].bdd) /\ q[i].count = Cardinality(Reach(k, r)[NVars][q[i].bdd])
  <2>1. PICK a : a = q[i].bdd
    OBVIOUS
  <2>2. Usable(l, U, a) /\ q[i].count = Cardinality(Reach(l, s)[NVars][a])
    BY <2>1 DEF PrintedRight
  <2>3. Usable(k, W, a) /\ Reach(k, r)[NVars][a] = Reach(l, s)[NVars][a]
    BY <2>2, GrowsAgree, BelowGrows
  <2> QED
    BY <2>1, <2>2, <2>3
<1> QED
  BY <1>1 DEF PrintedRight

LEMMA PrintedMore ==
  ASSUME NEW l, NEW s, NEW U, NEW q, PrintedRight(l, s, U, q), NEW a, Usable(l, U, a),
         NEW c \in Nat, c = Cardinality(Reach(l, s)[NVars][a]),
         NEW p, p = Append(q, [bdd |-> a, count |-> c])
  PROVE  PrintedRight(l, s, U, p)
<1>1. PICK T : T = [bdd : Ref, count : Nat]
  OBVIOUS
<1>2. PICK e \in T : e = [bdd |-> a, count |-> c]
  BY <1>1 DEF Usable
<1>3. /\ q \in Seq(T) /\ Len(q) \in Nat
  BY <1>1, LenProperties DEF PrintedRight
<1>4. /\ p \in Seq(T) /\ Len(p) = Len(q) + 1 /\ p[Len(q) + 1] = e
      /\ \A i \in 1 .. Len(q) : p[i] = q[i]
  BY <1>2, <1>3, AppendProperties
<1>5. ASSUME NEW i \in 1 .. Len(p)
      PROVE  Usable(l, U, p[i].bdd) /\ p[i].count = Cardinality(Reach(l, s)[NVars][p[i].bdd])
  <2>1. CASE i = Len(q) + 1
    <3>1. p[i].bdd = a /\ p[i].count = c
      BY <1>2, <1>4, <2>1
    <3> QED
      BY <3>1
  <2>2. CASE i # Len(q) + 1
    <3>1. i \in 1 .. Len(q)
      BY <1>3, <1>4, <2>2
    <3> QED
      BY <1>4, <3>1 DEF PrintedRight
  <2> QED
    BY <2>1, <2>2
<1> QED
  BY <1>1, <1>4, <1>5 DEF PrintedRight

\* No mark at all.
LEMMA CleanNone ==
  ASSUME NEW l, NEW s, NEW U, U \subseteq 0 .. TableSize - 1
  PROVE  Clean(l, s, U, {}) <=> NoneMarked(l) /\ \A i \in U : ~s[i].data
<1>1. ASSUME Clean(l, s, U, {}), NEW i \in LocalIndex, l[i] # None PROVE ~l[i].data
  <2>1. PICK o \in BOOLEAN : o = TRUE
    OBVIOUS
  <2>2. PICK a \in Ref : a = [mark |-> o, local |-> o, idx |-> i]
    BY DEF Ref
  <2>3. a.local /\ a.idx = i
    BY <2>1, <2>2
  <2> QED
    BY <1>1, <2>3 DEF Clean, Taken, At
<1>2. ASSUME Clean(l, s, U, {}), NEW i \in U PROVE ~s[i].data
  <2>1. PICK o \in BOOLEAN : o = FALSE
    OBVIOUS
  <2>2. PICK a \in Ref : a = [mark |-> o, local |-> o, idx |-> i]
    BY DEF Ref
  <2>3. ~a.local /\ a.idx = i
    BY <2>1, <2>2
  <2> QED
    BY <1>2, <2>3 DEF Clean, Taken, At
<1>3. ASSUME NoneMarked(l), \A i \in U : ~s[i].data PROVE Clean(l, s, U, {})
  BY <1>3 DEF NoneMarked, Clean, Taken, At
<1> QED
  BY <1>1, <1>2, <1>3 DEF NoneMarked

\* The call that is next is for a node below the diagram.
LEMMA HalfHead ==
  ASSUME NEW B, NEW l, NEW s, NEW U, NEW F, NEW t, NEW a, NEW b, NEW c, HalfOf(B, l, s, U, F, t, a, b, c),
         BelowIs(l, s, U, a, B), t # << >>, ~Head(t).leaving, NEW x, x = Head(t).ref, ~IsConst(x)
  PROVE  x \in Ref /\ Usable(l, U, x) /\ Place(x) \in B
<1>1. PICK h : h = Head(t)
  OBVIOUS
<1>2. t \in Seq(Call)
  BY DEF HalfOf
<1>3. h \in Call /\ Waiting(t) = WaitingOf(h) \cup Waiting(Tail(t))
  BY <1>1, <1>2, CallsHead
<1>4. x \in Ref /\ Place(x) \in Waiting(t)
  BY <1>1, <1>3 DEF Call, WaitingOf
<1>5. Place(x) \in B
  <2>1. ~IsConst(Place(x))
    BY PlaceSame
  <2> QED
    BY <1>4, <2>1 DEF HalfOf, Covered
<1>6. PICK p \in Ref : Usable(l, U, p) /\ ~IsConst(p) /\ Place(x) = Place(p)
  BY <1>5 DEF BelowIs, Spot
<1>7. x.local = p.local /\ x.idx = p.idx
  BY <1>6, PlaceSame
<1>8. Usable(l, U, x)
  BY <1>4, <1>6, <1>7 DEF Usable, IsConst
<1> QED
  BY <1>4, <1>5, <1>8

\* The puts under way are a bag.
LEMMA BagMore ==
  ASSUME NEW f, IsABag(f), NEW x
  PROVE  LET g == f (+) SetToBag({x}) IN IsABag(g) /\ BagToSet(g) = BagToSet(f) \cup {x}
  BY DEF IsABag, BagToSet, SetToBag, (+)

LEMMA BagLess ==
  ASSUME NEW f, IsABag(f), NEW x
  PROVE  LET g == f (-) SetToBag({x})
         IN  IsABag(g) /\ BagToSet(g) \subseteq BagToSet(f) /\ BagToSet(f) \subseteq BagToSet(g) \cup {x}
  BY DEF IsABag, BagToSet, SetToBag, (-)

-----------------------------------------------------------------------------
(* A half of a count, with its puts *)

LEMMA HalfwayBelow ==
  ASSUME NEW l, NEW s, NEW U, Typed(l, s, U), NEW f, NEW b, NEW t, NEW a, NEW c, Halfway(l, s, U, f, b, t, a, c)
  PROVE  \E B, F : /\ B = Reach(l, s)[NVars][a] /\ F = Flying(f)
                   /\ BelowIs(l, s, U, a, B) /\ HalfOf(B, l, s, U, F, t, a, b, c)
<1>1. PICK F : F = Flying(f)
  OBVIOUS
<1>2. Half(l, s, U, F, t, a, b, c)
  BY <1>1 DEF Halfway
<1>3. Memory(l, s, U)
  BY DEF Typed
<1>4. \E B : B = Reach(l, s)[NVars][a] /\ BelowIs(l, s, U, a, B) /\ HalfOf(B, l, s, U, F, t, a, b, c)
  BY <1>2, <1>3, HalfBelow
<1> QED
  BY <1>1, <1>4

LEMMA HalfwayIs ==
  ASSUME NEW l, NEW s, NEW U, NEW f, NEW b, NEW t, NEW a, NEW c, FlightRight(f, s, U, b),
         NEW B, B = Reach(l, s)[NVars][a], NEW F, F = Flying(f), HalfOf(B, l, s, U, F, t, a, b, c)
  PROVE  Halfway(l, s, U, f, b, t, a, c)
  BY DEF Halfway, Half

\* A call that does nothing, or returns.
LEMMA HalfwayLess ==
  ASSUME NEW l, NEW s, NEW U, Typed(l, s, U), NEW f, NEW b \in BOOLEAN, NEW t, NEW a, NEW c,
         Halfway(l, s, U, f, b, t, a, c), t # << >>, NEW h, h = Head(t), NEW u, u = Tail(t),
         \/ ~h.leaving /\ (IsConst(h.ref) \/ At(l, s, h.ref).data = b)
         \/ h.leaving /\ (h.ref.local \/ h.ref.idx \notin Flying(f))
  PROVE  Halfway(l, s, U, f, b, u, a, c)
<1>1. PICK B, F : /\ B = Reach(l, s)[NVars][a] /\ F = Flying(f)
                  /\ BelowIs(l, s, U, a, B) /\ HalfOf(B, l, s, U, F, t, a, b, c)
  BY HalfwayBelow
<1>2. HalfOf(B, l, s, U, F, u, a, b, c)
  BY <1>1, HalfLess
<1>3. FlightRight(f, s, U, b)
  BY DEF Halfway
<1> QED
  BY <1>1, <1>2, <1>3, HalfwayIs

\* The node of the next call.
LEMMA HalfwayHead ==
  ASSUME NEW l, NEW s, NEW U, Typed(l, s, U), NEW f, NEW b, NEW t, NEW a, NEW c, Halfway(l, s, U, f, b, t, a, c),
         t # << >>, ~Head(t).leaving, NEW x, x = Head(t).ref, ~IsConst(x)
  PROVE  x \in Ref /\ Usable(l, U, x) /\ At(l, s, x) \in Node
<1>1. PICK B, F : BelowIs(l, s, U, a, B) /\ HalfOf(B, l, s, U, F, t, a, b, c)
  BY HalfwayBelow
<1>2. x \in Ref /\ Usable(l, U, x)
  BY <1>1, HalfHead
<1>3. GoodNode(l, s, U, At(l, s, x))
  BY <1>2, NodeIs DEF Typed
<1> QED
  BY <1>2, <1>3 DEF GoodNode

\* A count begins.
LEMMA HalfwayBegin ==
  ASSUME NEW l, NEW s, NEW U, Typed(l, s, U), Clean(l, s, U, {}), NEW a, Usable(l, U, a),
         NEW b \in BOOLEAN, b, NEW f, f = {}, NEW t, t = <<Visit(a)>>, NEW c, c = 0
  PROVE  Halfway(l, s, U, f, b, t, a, c)
<1>1. PICK B : B = Reach(l, s)[NVars][a]
  OBVIOUS
<1>2. BelowIs(l, s, U, a, B)
  BY <1>1, BelowRight DEF Typed
<1>3. Clean(l, s, U, B)
  BY DEF Clean
<1>4. ASSUME NEW q \in B PROVE At(l, s, q).data # b
  <2>1. PICK r \in Ref : Usable(l, U, r) /\ ~IsConst(r) /\ q = Place(r)
    BY <1>2 DEF BelowIs, Spot
  <2>2. At(l, s, r) \in Node /\ At(l, s, q) = At(l, s, r)
    BY <2>1, NodeIs, PlaceSame DEF Typed, GoodNode
  <2>3. Taken(l, U, r)
    BY <2>1 DEF Taken, Usable, IsConst
  <2>4. ~At(l, s, r).data
    BY <2>3 DEF Clean
  <2> QED
    BY <2>2, <2>4, ZenonT(20)
<1>5. c = Cardinality(IF b THEN {} ELSE B)
  BY FS_EmptySet
<1>6. PICK F : F = Flying(f)
  OBVIOUS
<1>7. F = {} /\ FlightRight(f, s, U, b)
  BY <1>6 DEF Flying, FlightRight
<1>8. HalfOf(B, l, s, U, F, t, a, b, c)
  BY <1>2, <1>3, <1>4, <1>5, <1>7, HalfStart
<1> QED
  BY <1>1, <1>6, <1>7, <1>8, HalfwayIs

\* The marks are set, and are to be cleared.
LEMMA HalfwayTurn ==
  ASSUME NEW l, NEW s, NEW U, Typed(l, s, U), NEW f, NEW b \in BOOLEAN, NEW t, NEW a, NEW c,
         Halfway(l, s, U, f, b, t, a, c), t = << >>, b, NEW d \in BOOLEAN, ~d, NEW u, u = <<Visit(a)>>
  PROVE  Halfway(l, s, U, f, d, u, a, c)
<1>1. PICK B, F : /\ B = Reach(l, s)[NVars][a] /\ F = Flying(f)
                  /\ BelowIs(l, s, U, a, B) /\ HalfOf(B, l, s, U, F, t, a, b, c)
  BY HalfwayBelow
<1>2. /\ F = {} /\ c = Cardinality(B) /\ MarkedAll(l, s, b, B)
      /\ Clean(l, s, U, B) /\ Usable(l, U, a)
  BY <1>1, HalfEnd
<1>3. \A q \in B : At(l, s, q).data # d
  BY <1>2 DEF MarkedAll
<1>4. c = Cardinality(IF d THEN {} ELSE B)
  BY <1>2
<1>5. HalfOf(B, l, s, U, F, u, a, d, c)
  BY <1>1, <1>2, <1>3, <1>4, HalfStart
<1>6. FlightRight(f, s, U, d)
  BY <1>1, <1>2 DEF Flying, FlightRight
<1> QED
  BY <1>1, <1>5, <1>6, HalfwayIs

\* The marks are cleared.
LEMMA HalfwayEnd ==
  ASSUME NEW l, NEW s, NEW U, Typed(l, s, U), NEW f, NEW b \in BOOLEAN, NEW t, NEW a, NEW c,
         Halfway(l, s, U, f, b, t, a, c), t = << >>, ~b
  PROVE  /\ f = {} /\ Clean(l, s, U, {}) /\ Usable(l, U, a)
         /\ c \in Nat /\ c = Cardinality(Reach(l, s)[NVars][a])
<1>1. PICK B, F : /\ B = Reach(l, s)[NVars][a] /\ F = Flying(f)
                  /\ BelowIs(l, s, U, a, B) /\ HalfOf(B, l, s, U, F, t, a, b, c)
  BY HalfwayBelow
<1>2. /\ F = {} /\ c = Cardinality(B) /\ MarkedAll(l, s, b, B)
      /\ Clean(l, s, U, B) /\ Usable(l, U, a)
  BY <1>1, HalfEnd
<1>3. f = {}
  BY <1>1, <1>2 DEF Flying
<1>4. c \in Nat
  BY <1>1, <1>2, FS_CardinalityType DEF BelowIs
<1>5. ASSUME NEW r \in Ref, Taken(l, U, r) PROVE ~At(l, s, r).data
  <2>1. CASE Place(r) \in B
    <3>1. At(l, s, Place(r)).data = b
      BY <1>2, <2>1 DEF MarkedAll
    <3> QED
      BY <3>1, PlaceSame
  <2>2. CASE Place(r) \notin B
    BY <1>2, <1>5, <2>2 DEF Clean
  <2> QED
    BY <2>1, <2>2
<1>6. Clean(l, s, U, {})
  BY <1>5 DEF Clean
<1> QED
  BY <1>1, <1>2, <1>3, <1>4, <1>6

\* A mark changes at a place below the diagram, at once or by a put: what stays.
LEMMA HalfwayRemark ==
  ASSUME NEW l, NEW s, NEW U, Typed(l, s, U), NEW k, NEW r, NEW q, Remarked(l, s, U, k, r, q),
         NEW a, Usable(l, U, a), NEW B, B = Reach(l, s)[NVars][a],
         NEW f, NEW b, FlightRight(f, s, U, b), NEW p, PrintedRight(l, s, U, p)
  PROVE  /\ Typed(k, r, U) /\ B = Reach(k, r)[NVars][a]
         /\ FlightRight(f, r, U, b) /\ PrintedRight(k, r, U, p)
<1>1. Typed(k, r, U) /\ Grows(l, s, U, k, r, U) /\ Memory(l, s, U)
  BY DEF Remarked, Typed
<1>2. Reach(k, r)[NVars][a] = Reach(l, s)[NVars][a]
  BY <1>1, BelowGrows
<1>3. FlightRight(f, r, U, b)
  BY <1>1, FlightGrows
<1>4. PrintedRight(k, r, U, p)
  BY <1>1, PrintedGrows
<1> QED
  BY <1>1, <1>2, <1>3, <1>4

\* The three ways to write node m to the place of x.
Writes(l, s, f, x, m, k, r, g) ==
  \/ x.local /\ Changed(k, l, x.idx, m) /\ r = s /\ g = f
  \/ ~x.local /\ k = l /\ Changed(r, s, x.idx, m) /\ g = f
  \/ ~x.local /\ k = l /\ r = s /\ g = f \cup {[idx |-> x.idx, node |-> m]}

\* What they have in common.
WritesTo(l, s, U, f, x, m, k, r, g) ==
  /\ Remarked(l, s, U, k, r, Place(x))
  /\ (~x.local /\ x.idx \in Flying(g)) \/ At(k, r, x).data = m.data
  /\ Joined(Flying(f), x, Flying(g))

LEMMA WritesRight ==
  ASSUME NEW l, NEW s, NEW U, Typed(l, s, U), NEW x, Usable(l, U, x), ~IsConst(x),
         NEW m \in Node, SameNode(m, At(l, s, x)), NEW f, NEW k, NEW r, NEW g, Writes(l, s, f, x, m, k, r, g)
  PROVE  WritesTo(l, s, U, f, x, m, k, r, g)
<1>1. x \in Ref
  BY DEF Usable
<1>2. CASE x.local /\ Changed(k, l, x.idx, m) /\ r = s /\ g = f
  <2>1. x.idx \in LocalIndex /\ l[x.idx] # None /\ At(l, s, x) = l[x.idx]
    BY <1>2 DEF Usable, At
  <2>2. SameNode(m, l[x.idx])
    BY <2>1
  <2>3. x.local /\ Changed(k, l, x.idx, m)
    BY <1>2
  <2>4. Remarked(l, s, U, k, s, Place(x)) /\ At(k, s, x) = m
    BY <1>1, <2>1, <2>2, <2>3, MarkLocal
  <2> QED
    BY <1>2, <2>4 DEF WritesTo, Joined
<1>3. CASE ~x.local /\ k = l /\ Changed(r, s, x.idx, m) /\ g = f
  <2>1. x.idx \in U /\ At(l, s, x) = s[x.idx]
    BY <1>3 DEF Usable, At
  <2>2. SameNode(m, s[x.idx])
    BY <2>1
  <2>3. ~x.local /\ Changed(r, s, x.idx, m)
    BY <1>3
  <2>4. Remarked(l, s, U, l, r, Place(x)) /\ At(l, r, x) = m
    BY <1>1, <2>1, <2>2, <2>3, MarkShared
  <2> QED
    BY <1>3, <2>4 DEF WritesTo, Joined
<1>4. CASE ~x.local /\ k = l /\ r = s /\ g = f \cup {[idx |-> x.idx, node |-> m]}
  <2>1. Remarked(l, s, U, k, r, Place(x))
    BY <1>4, MarkNone
  <2>2. Flying(g) = Flying(f) \cup {x.idx}
    <3>1. PICK y : y = [idx |-> x.idx, node |-> m]
      OBVIOUS
    <3>2. y.idx = x.idx /\ g = f \cup {y}
      BY <1>4, <3>1
    <3> QED
      BY <3>2 DEF Flying
  <2> QED
    BY <1>4, <2>1, <2>2 DEF WritesTo, Joined
<1> QED
  BY <1>2, <1>3, <1>4 DEF Writes

\* The puts under way after it.
LEMMA WritesFlight ==
  ASSUME NEW l, NEW s, NEW U, Typed(l, s, U), NEW x, Usable(l, U, x), ~IsConst(x),
         NEW m \in Node, SameNode(m, At(l, s, x)), NEW f, NEW k, NEW r, NEW g, Writes(l, s, f, x, m, k, r, g),
         NEW b, m.data = b, FlightRight(f, r, U, b)
  PROVE  FlightRight(g, r, U, b)
<1>1. CASE g = f
  BY <1>1
<1>2. CASE ~x.local /\ r = s /\ g = f \cup {[idx |-> x.idx, node |-> m]}
  <2>1. x.idx \in U /\ SameNode(m, r[x.idx])
    BY <1>2 DEF Usable, At
  <2> SUFFICES ASSUME NEW y \in g
               PROVE  y.idx \in U /\ y.node \in Node /\ SameNode(y.node, r[y.idx]) /\ y.node.data = b
    BY DEF FlightRight
  <2>2. CASE y \in f
    BY <2>2 DEF FlightRight
  <2>3. CASE y = [idx |-> x.idx, node |-> m]
    <3>1. y.idx = x.idx /\ y.node = m
      BY <2>3
    <3> QED
      BY <2>1, <3>1
  <2> QED
    BY <1>2, <2>2, <2>3
<1> QED
  BY <1>1, <1>2 DEF Writes

\* The next call is for node n at x, which has yet to get mark b, as m has.
MarksNode(l, s, f, b, t, x, n, m) ==
  /\ t # << >> /\ ~Head(t).leaving /\ x = Head(t).ref /\ ~IsConst(x) /\ (x.local \/ x.idx \notin Flying(f))
  /\ n = At(l, s, x) /\ n.data # b /\ m \in Node /\ SameNode(m, n) /\ m.data = b

\* The calls and the count after it.
GoesOn(b, t, x, n, c, v, e) ==
  /\ v = Calls(n) \o <<Leave(x)>> \o Tail(t)
  /\ e = IF b THEN c + 1 ELSE c

\* A call that sets a mark or clears it.
LEMMA HalfwayMore ==
  ASSUME NEW l, NEW s, NEW U, Typed(l, s, U), NEW f, NEW b \in BOOLEAN, NEW t, NEW a, NEW c,
         Halfway(l, s, U, f, b, t, a, c), NEW x, NEW n, NEW m, MarksNode(l, s, f, b, t, x, n, m),
         NEW k, NEW r, NEW g, Writes(l, s, f, x, m, k, r, g), NEW v, NEW e, GoesOn(b, t, x, n, c, v, e),
         NEW p, PrintedRight(l, s, U, p)
  PROVE  Typed(k, r, U) /\ PrintedRight(k, r, U, p) /\ Halfway(k, r, U, g, b, v, a, e)
<1>1. /\ t # << >> /\ ~Head(t).leaving /\ x = Head(t).ref /\ ~IsConst(x) /\ (x.local \/ x.idx \notin Flying(f))
      /\ n = At(l, s, x) /\ n.data # b /\ m \in Node /\ SameNode(m, n) /\ m.data = b
  BY DEF MarksNode
<1>2. PICK u : u = Tail(t)
  OBVIOUS
<1>3. v = Calls(n) \o <<Leave(x)>> \o u /\ e = IF b THEN c + 1 ELSE c
  BY <1>2 DEF GoesOn
<1>4. PICK B, F : /\ B = Reach(l, s)[NVars][a] /\ F = Flying(f)
                  /\ BelowIs(l, s, U, a, B) /\ HalfOf(B, l, s, U, F, t, a, b, c)
  BY HalfwayBelow
<1>5. x \in Ref /\ Usable(l, U, x) /\ n \in Node /\ Usable(l, U, a)
  BY <1>1, <1>4, HalfwayHead DEF HalfOf
<1>6. n.low \in Ref /\ n.high \in Ref
  BY <1>5 DEF Node
<1>7. PICK G : G = Flying(g)
  OBVIOUS
<1>8. /\ Remarked(l, s, U, k, r, Place(x))
      /\ (~x.local /\ x.idx \in G) \/ At(k, r, x).data = b
      /\ Joined(F, x, G)
  <2>1. SameNode(m, At(l, s, x))
    BY <1>1
  <2>2. WritesTo(l, s, U, f, x, m, k, r, g)
    BY <1>1, <1>5, <2>1, WritesRight
  <2> QED
    BY <1>1, <1>4, <1>7, <2>2 DEF WritesTo
<1>9. FlightRight(f, s, U, b)
  BY DEF Halfway
<1>10. /\ Typed(k, r, U) /\ B = Reach(k, r)[NVars][a]
      /\ FlightRight(f, r, U, b) /\ PrintedRight(k, r, U, p)
  BY <1>4, <1>5, <1>8, <1>9, HalfwayRemark
<1>11. FlightRight(g, r, U, b)
  BY <1>1, <1>5, <1>10, WritesFlight
<1>12. Remark(l, s, U, k, r, Place(x))
  BY <1>8 DEF Remarked
<1>13. HalfOf(B, k, r, U, G, v, a, b, e)
  <2>1. x.local \/ x.idx \notin F
    BY <1>1, <1>4
  <2> QED
    BY <1>1, <1>2, <1>3, <1>4, <1>6, <1>8, <1>12, <2>1, HalfMore
<1> QED
  BY <1>7, <1>10, <1>11, <1>13, HalfwayIs

\* A put arrives.
LEMMA HalfwayLand ==
  ASSUME NEW l, NEW s, NEW U, Typed(l, s, U), NEW f, NEW b \in BOOLEAN, NEW t, NEW a, NEW c,
         Halfway(l, s, U, f, b, t, a, c), NEW x \in f, NEW r, Changed(r, s, x.idx, x.node),
         NEW g, g \subseteq f, f \subseteq g \cup {x}, NEW p, PrintedRight(l, s, U, p)
  PROVE  Typed(l, r, U) /\ PrintedRight(l, r, U, p) /\ Halfway(l, r, U, g, b, t, a, c)
<1>1. PICK B, F : /\ B = Reach(l, s)[NVars][a] /\ F = Flying(f)
                  /\ BelowIs(l, s, U, a, B) /\ HalfOf(B, l, s, U, F, t, a, b, c)
  BY HalfwayBelow
<1>2. FlightRight(f, s, U, b) /\ Usable(l, U, a)
  BY <1>1 DEF Halfway, HalfOf
<1>3. x.idx \in U /\ x.node \in Node /\ SameNode(x.node, s[x.idx]) /\ x.node.data = b
  BY <1>2 DEF FlightRight
<1>4. PICK q \in B : ~q.local /\ q.idx = x.idx
  BY <1>1 DEF HalfOf, Flying
<1>5. PICK y \in Ref : Usable(l, U, y) /\ ~IsConst(y) /\ q = Place(y)
  BY <1>1 DEF BelowIs, Spot
<1>6. ~y.local /\ y.idx = x.idx
  BY <1>4, <1>5, PlaceSame
<1>7. PICK m \in Node : m = x.node
  BY <1>3
<1>8. Remarked(l, s, U, l, r, Place(y)) /\ At(l, r, y) = m
  <2>1. y.idx \in U /\ SameNode(m, s[y.idx]) /\ Changed(r, s, y.idx, m)
    BY <1>3, <1>6, <1>7
  <2> QED
    BY <1>6, <2>1, MarkShared
<1>9. At(l, r, q).data = b
  BY <1>3, <1>5, <1>7, <1>8, PlaceSame
<1>10. /\ Typed(l, r, U) /\ B = Reach(l, r)[NVars][a]
       /\ FlightRight(f, r, U, b) /\ PrintedRight(l, r, U, p)
  BY <1>1, <1>2, <1>8, HalfwayRemark
<1>11. FlightRight(g, r, U, b)
  BY <1>10 DEF FlightRight
<1>12. PICK G : G = Flying(g)
  OBVIOUS
<1>13. G \subseteq F /\ F \subseteq G \cup {q.idx} /\ q.idx \in F
  BY <1>1, <1>4, <1>12 DEF Flying
<1>14. Remark(l, s, U, l, r, q)
  BY <1>5, <1>8 DEF Remarked
<1>15. HalfOf(B, l, r, U, G, t, a, b, c)
  BY <1>1, <1>4, <1>9, <1>13, <1>14, HalfLand
<1> QED
  BY <1>10, <1>11, <1>12, <1>15, HalfwayIs

-----------------------------------------------------------------------------
(* No other thread marks its local store *)

LEMMA RestQuiet ==
  ASSUME RestOK, UNCHANGED <<file, store, flight>>, pc'[0] = "load" => pc[0] = "load" /\ printed' = printed,
         \A p \in Thread : pc'[p] = "load" => pc[p] = "load",
         item' > Len(file.sections) => item > Len(file.sections) \/ \A p \in Thread : pc'[p] # "load"
  PROVE  RestOK'
  BY DEF RestOK

\* A node that is read has no mark.
LEMMA ReadMarks ==
  ASSUME Inv, RestOK, NEW p \in Thread, ReadPut(p)
  PROVE  /\ pc[p] = "load" /\ Core
         /\ UNCHANGED <<file, seed, build, pc, roots, index, data, used, flight, countVars, late, held>>
         /\ store' = [q \in Thread |-> store'[q]] /\ \A q \in Thread \ {p} : store'[q] = store[q]
         /\ NoneMarked(store[p]) => NoneMarked(store'[p])
<1>1. pc[p] = "load" /\ Start /\ Len(file.sections) \in Nat /\ item \in Nat
  BY StartFacts DEF ReadPut, Reading, Inv, Start
<1>2. Core
  <2>1. ~(item > Len(file.sections))
    BY <1>1 DEF RestOK
  <2> QED
    BY <1>1, <2>1 DEF Inv
<1>3. PICK rs : rs = refs[p]
  OBVIOUS
<1>4. PICK l : l = store[p]
  OBVIOUS
<1>5. PICK m : m = file.nodes[Len(rs) + 1]
  OBVIOUS
<1>6. /\ WellWritten(file) /\ seed \in Seeds
      /\ rs \in Seq(Ref) /\ Len(rs) \in Nat /\ Len(rs) < Len(file.nodes)
      /\ l \in [LocalIndex -> Node \cup {None}]
      /\ LocalGood(l, data) /\ NumbersRight(file, l, data, rs)
  BY <1>1, <1>2, <1>3, <1>4, ReadFacts DEF ReadPut
<1>7. PICK n : n = NodeFrom(rs, m)
  OBVIOUS
<1>8. n \in Node /\ ~n.data
  <2>1. /\ ChildRight(file, l, data, Low(rs, m), FALSE, m.low)
        /\ ChildRight(file, l, data, High(rs, m), m.comp, m.high) /\ m.level \in Level
    BY <1>5, <1>6, ChildrenRight
  <2>2. Low(rs, m) \in Ref /\ High(rs, m) \in Ref
    BY <2>1 DEF ChildRight, Usable
  <2> QED
    BY <1>7, <2>1, <2>2, NewNode DEF NodeFrom
<1>9. PICK i : i = LocalPlace(l, n, seed)
  OBVIOUS
<1>10. /\ LocalRoom(l, n, seed) /\ store' = [store EXCEPT ![p][i] = n]
       /\ UNCHANGED <<file, seed, build, pc, roots, index, data, used, flight, countVars, late, held>>
  BY <1>3, <1>4, <1>5, <1>7, <1>9 DEF ReadPut, Assign, Read, inputVars, tableVars
<1>11. i \in LocalIndex
  BY <1>6, <1>8, <1>9, <1>10, PlaceIs
<1>12. PICK k : k = [l EXCEPT ![i] = n]
  OBVIOUS
<1>13. store' = [q \in Thread |-> store'[q]] /\ store'[p] = k /\ \A q \in Thread \ {p} : store'[q] = store[q]
  BY <1>4, <1>10, <1>12 DEF RestOK
<1>14. NoneMarked(l) => NoneMarked(k)
  <2>1. k[i] = n /\ \A j \in LocalIndex : j # i => k[j] = l[j]
    BY <1>6, <1>11, <1>12
  <2> QED
    BY <1>8, <2>1 DEF NoneMarked
<1> QED
  BY <1>1, <1>2, <1>4, <1>10, <1>13, <1>14

LEMMA RestRead ==
  ASSUME Inv, RestOK, NEW p \in Thread, ReadPut(p)
  PROVE  RestOK'
<1>1. /\ UNCHANGED <<file, pc, flight, item, printed>>
      /\ store' = [q \in Thread |-> store'[q]] /\ \A q \in Thread \ {p} : store'[q] = store[q]
      /\ NoneMarked(store[p]) => NoneMarked(store'[p])
  BY ReadMarks DEF countVars
<1>2. ASSUME NEW q \in Thread \ {0} PROVE NoneMarked(store'[q])
  BY <1>1 DEF RestOK
<1> QED
  BY <1>1, <1>2 DEF RestOK

LEMMA RestVisit ==
  ASSUME Inv, RestOK, VisitNode
  PROVE  RestOK'
<1>1. Start /\ 0 \in Thread
  BY StartFacts DEF Inv
<1>2. PICK a : a = Here
  OBVIOUS
<1>3. PICK m : SetData(a, m)
  BY <1>2 DEF VisitNode
<1>4. UNCHANGED <<file, pc, item, printed>>
  BY DEF VisitNode, inputVars
<1>5. IsABag(flight')
  <2>1. IsABag(flight)
    BY DEF RestOK
  <2>2. CASE flight' = flight
    BY <2>1, <2>2
  <2>3. CASE flight' = flight (+) SetToBag({[idx |-> a.idx, node |-> m]})
    <3>1. PICK x : x = [idx |-> a.idx, node |-> m]
      OBVIOUS
    <3>2. PICK g : g = flight (+) SetToBag({x})
      OBVIOUS
    <3>3. IsABag(g)
      BY <2>1, <3>2, BagMore
    <3> QED
      BY <2>3, <3>1, <3>2, <3>3
  <2> QED
    BY <1>3, <2>2, <2>3 DEF SetData
<1>6. store' = [p \in Thread |-> store'[p]] /\ \A p \in Thread \ {0} : store'[p] = store[p]
  <2>1. store = [p \in Thread |-> store[p]]
    BY DEF RestOK
  <2>2. CASE store' = store
    BY <2>1, <2>2
  <2>3. CASE store' = [store EXCEPT ![0][a.idx] = m]
    BY <1>1, <2>1, <2>3
  <2> QED
    BY <1>3, <2>2, <2>3 DEF SetData
<1> QED
  BY <1>4, <1>5, <1>6 DEF RestOK

LEMMA RestLand ==
  ASSUME RestOK, Network
  PROVE  RestOK'
<1>1. PICK x \in BagToSet(flight) : LandPut(x)
  BY DEF Network
<1>2. PICK g : g = flight (-) SetToBag({x})
  OBVIOUS
<1>3. IsABag(g)
  BY <1>2, BagLess DEF RestOK
<1>4. flight' = g /\ UNCHANGED <<file, pc, store, item, printed>>
  BY <1>1, <1>2 DEF LandPut, inputVars, countVars
<1> QED
  BY <1>3, <1>4 DEF RestOK

LEMMA RestStep ==
  ASSUME Inv, RestOK, [Next]_vars
  PROVE  RestOK'
<1>1. Start /\ 0 \in Thread /\ Len(file.sections) \in Nat \ {0} /\ item \in Nat /\ pc \in [Thread -> Phases]
  BY StartFacts DEF Inv, Start
<1>2. ASSUME NEW p \in Thread, ReadEqual(p) \/ ReadFull(p) PROVE RestOK'
  <2>1. UNCHANGED <<file, store, flight, pc, item, printed>>
    BY <1>2 DEF ReadEqual, ReadFull, Assign, inputVars, countVars
  <2> QED
    BY <2>1, RestQuiet
<1>3. ASSUME NEW p \in Thread, EndSection(p) PROVE RestOK'
  <2>1. UNCHANGED <<file, store, flight, printed>> /\ (item' = item \/ item' = 1)
    BY <1>3 DEF EndSection, inputVars
  <2>2. \A q \in Thread : pc'[q] = "load" => pc[q] = "load"
    BY <1>1, <1>3 DEF EndSection
  <2>3. item' > Len(file.sections) => item > Len(file.sections)
    BY <1>1, <2>1
  <2> QED
    BY <1>1, <2>1, <2>2, <2>3, RestQuiet
<1>4. ASSUME VisitConst \/ VisitSkip \/ Return PROVE RestOK'
  <2>1. UNCHANGED <<file, store, flight, pc, item, printed>>
    BY <1>4 DEF VisitConst, VisitSkip, Return, inputVars
  <2> QED
    BY <2>1, RestQuiet
<1>5. ASSUME Marked PROVE RestOK'
  <2>1. UNCHANGED <<file, store, flight, item, printed>> /\ pc' = [pc EXCEPT ![0] = "unmark"] /\ pc[0] = "mark"
    BY <1>5 DEF Marked, inputVars
  <2>2. \A q \in Thread : pc'[q] = "load" => pc[q] = "load"
    BY <1>1, <2>1
  <2> QED
    BY <1>1, <2>1, <2>2, RestQuiet
<1>6. ASSUME Unmarked PROVE RestOK'
  <2>1. UNCHANGED <<file, store, flight>> /\ pc[0] = "unmark"
    BY <1>6 DEF Unmarked, inputVars
  <2>2. pc'[0] # "load" /\ \A q \in Thread : q # 0 => pc'[q] = pc[q]
    BY <1>1, <1>6 DEF Unmarked
  <2>3. item' > Len(file.sections) => item > Len(file.sections)
    <3>1. (item < Len(file.sections) /\ item' = item + 1) \/ item' = item
      BY <1>6 DEF Unmarked
    <3> QED
      BY <1>1, <3>1
  <2>4. \A q \in Thread : pc'[q] = "load" => pc[q] = "load"
    BY <2>2
  <2> QED
    BY <2>1, <2>2, <2>3, <2>4, RestQuiet
<1>7. ASSUME AllArrived PROVE RestOK'
  <2>1. UNCHANGED <<file, store, flight, item, printed>> /\ \A p \in Thread : pc'[p] # "load"
    BY <1>7 DEF AllArrived, inputVars, countVars
  <2> QED
    BY <1>1, <2>1, RestQuiet
<1>8. ASSUME EndSearch PROVE RestOK'
  <2>1. UNCHANGED <<file, store, flight, printed>> /\ \A p \in Thread : pc'[p] # "load"
    BY <1>8 DEF EndSearch, inputVars
  <2> QED
    BY <1>1, <2>1, RestQuiet
<1>9. ASSUME Make PROVE RestOK'
  <2>1. UNCHANGED <<file, store, flight, pc, item, printed>>
    <3>1. \A l, x, y, i : Made(l, x, y, i) => UNCHANGED <<file, store, flight, pc, item, printed>>
      BY DEF Made, inputVars, countVars
    <3>2. \A l, x, y : MakeFull(l, x, y) => UNCHANGED <<file, store, flight, pc, item, printed>>
      BY DEF MakeFull, inputVars, countVars
    <3>3. \A p, l, x, y : MakeFind(p, l, x, y) => \E i : Made(l, x, y, i)
      BY DEF MakeFind
    <3>4. \A p, l, x, y : MakePut(p, l, x, y) => \E i : Made(l, x, y, i)
      BY DEF MakePut
    <3>5. \A l, x, y : MakeSeq(l, x, y) => \E i : Made(l, x, y, i)
      BY DEF MakeSeq
    <3> QED
      BY <1>9, <3>1, <3>2, <3>3, <3>4, <3>5, ZenonT(30) DEF Make
  <2> QED
    BY <2>1, RestQuiet
<1>10. ASSUME UNCHANGED vars PROVE RestOK'
  <2>1. UNCHANGED <<file, store, flight, pc, item, printed>>
    BY <1>10 DEF vars, inputVars, countVars
  <2> QED
    BY <2>1, RestQuiet
<1> QED
  BY <1>2, <1>3, <1>4, <1>5, <1>6, <1>7, <1>8, <1>9, <1>10, RestRead, RestVisit, RestLand
     DEF Next, Load, NodeCount, Stop

-----------------------------------------------------------------------------
(* The count steps *)

LEMMA SettledHalf ==
  ASSUME NEW l, NEW s, NEW U, Typed(l, s, U), NEW q, PrintedRight(l, s, U, q), NEW b \in BOOLEAN,
         NEW phase \in {"mark", "unmark"}, b <=> phase = "mark",
         NEW f, NEW t, NEW a, NEW c, Halfway(l, s, U, f, b, t, a, c)
  PROVE  SettledAt(l, s, U, f, phase, t, a, c, q)
  BY ZenonT(20) DEF SettledAt

LEMMA SettledBetween ==
  ASSUME NEW l, NEW s, NEW U, Typed(l, s, U), NEW q, PrintedRight(l, s, U, q),
         NEW phase, phase \notin {"mark", "unmark"}, NEW f, f = {}, Clean(l, s, U, {}), NEW c, c = 0, NEW t, NEW a
  PROVE  SettledAt(l, s, U, f, phase, t, a, c, q)
  BY DEF SettledAt, Between

\* Whether a node is ready, by its mark.
LEMMA ReadyIs ==
  ASSUME NEW d \in BOOLEAN, NEW b \in BOOLEAN, NEW phase \in {"mark", "unmark"}, b <=> phase = "mark"
  PROVE  (d = (phase = "unmark")) <=> d # b
<1>1. CASE phase = "mark"
  <2>1. b = TRUE /\ ~(phase = "unmark")
    BY <1>1
  <2> QED
    BY <2>1
<1>2. CASE phase = "unmark"
  <2>1. b = FALSE /\ phase = "unmark"
    BY <1>2
  <2> QED
    BY <2>1
<1> QED
  BY <1>1, <1>2

\* Steps that leave this alone.
LEMMA SettledQuiet ==
  ASSUME Settled, UNCHANGED <<store[0], data, used, flight, count, printed>>,
         \/ pc'[0] = pc[0] /\ todo' = todo /\ Diagram(item)' = Diagram(item)
         \/ pc[0] \notin {"mark", "unmark"} /\ pc'[0] \notin {"mark", "unmark"}
  PROVE  Settled'
<1>1. Stored' = Stored
  BY DEF Stored
<1>2. CASE pc'[0] = pc[0] /\ todo' = todo /\ Diagram(item)' = Diagram(item)
  BY <1>1, <1>2 DEF Settled
<1>3. CASE pc[0] \notin {"mark", "unmark"} /\ pc'[0] \notin {"mark", "unmark"}
  BY <1>1, <1>3 DEF Settled, SettledAt
<1> QED
  BY <1>2, <1>3

\* A half of a count under way.
LEMMA SettledFacts ==
  ASSUME Settled, Counting
  PROVE  /\ Typed(store[0], data, Stored) /\ PrintedRight(store[0], data, Stored, printed)
         /\ \E b \in BOOLEAN : /\ b <=> pc[0] = "mark"
                               /\ Halfway(store[0], data, Stored, BagToSet(flight), b, todo, Diagram(item), count)
  BY ZenonT(20) DEF Settled, SettledAt, Counting

LEMMA LessSettled ==
  ASSUME Settled, Counting, todo # << >>, todo' = Tail(todo),
         UNCHANGED <<file, pc, roots, store, data, used, flight, item, count, printed, result>>,
         \/ ~Head(todo).leaving /\ (IsConst(Here) \/ ~Ready(NodeAt(0, Here)))
         \/ Head(todo).leaving /\ ~InFlight(Here)
  PROVE  Settled'
<1>1. PICK l, s, U, f, t, a, c : /\ l = store[0] /\ s = data /\ U = Stored /\ f = BagToSet(flight) /\ t = todo
                                 /\ a = Diagram(item) /\ c = count
  OBVIOUS
<1>2. PICK q, phase : q = printed /\ phase = pc[0]
  OBVIOUS
<1>3. phase \in {"mark", "unmark"}
  BY <1>2 DEF Counting
<1>4. Typed(l, s, U) /\ PrintedRight(l, s, U, q)
  BY <1>1, <1>2, SettledFacts
<1>5. PICK b \in BOOLEAN : (b <=> phase = "mark") /\ Halfway(l, s, U, f, b, t, a, c)
  BY <1>1, <1>2, SettledFacts
<1>6. PICK h : h = Head(t)
  OBVIOUS
<1>7. PICK u : u = Tail(t)
  OBVIOUS
<1>8. Here = h.ref /\ NodeAt(0, Here) = At(l, s, h.ref)
  BY <1>1, <1>6 DEF Here, NodeAt, At
<1>9. \/ ~h.leaving /\ (IsConst(h.ref) \/ At(l, s, h.ref).data = b)
      \/ h.leaving /\ (h.ref.local \/ h.ref.idx \notin Flying(f))
  <2>1. CASE ~Head(todo).leaving /\ IsConst(Here)
    BY <1>1, <1>6, <1>8, <2>1
  <2>2. CASE ~Head(todo).leaving /\ ~IsConst(Here) /\ ~Ready(NodeAt(0, Here))
    <3>1. PICK n : n = At(l, s, h.ref)
      OBVIOUS
    <3>2. n \in Node
      BY <1>1, <1>4, <1>5, <1>6, <1>8, <2>2, <3>1, HalfwayHead
    <3>3. n.data \in BOOLEAN
      BY <3>2 DEF Node
    <3>4. ~(n.data = (phase = "unmark"))
      BY <1>2, <1>8, <2>2, <3>1 DEF Ready
    <3>5. n.data = b
      BY <1>3, <1>5, <3>3, <3>4, ReadyIs
    <3> QED
      BY <1>1, <1>6, <2>2, <3>1, <3>5
  <2>3. CASE Head(todo).leaving /\ ~InFlight(Here)
    BY <1>1, <1>6, <1>8, <2>3 DEF InFlight, Flying
  <2> QED
    BY <2>1, <2>2, <2>3
<1>10. Halfway(l, s, U, f, b, u, a, c)
  BY <1>1, <1>4, <1>5, <1>6, <1>7, <1>9, HalfwayLess
<1>11. SettledAt(l, s, U, f, phase, u, a, c, q)
  BY <1>3, <1>4, <1>5, <1>10, SettledHalf
<1>12. /\ l = store'[0] /\ s = data' /\ U = Stored' /\ f = BagToSet(flight') /\ u = todo'
       /\ a = Diagram(item)' /\ c = count' /\ q = printed' /\ phase = pc'[0]
  BY <1>1, <1>2, <1>7 DEF Stored, Diagram
<1> QED
  BY <1>11, <1>12 DEF Settled

\* The marks are set.
LEMMA MarkedSettled ==
  ASSUME Settled, 0 \in Thread, pc \in [Thread -> Phases], Marked
  PROVE  Settled'
<1>1. PICK l, s, U, f, t, a, c : /\ l = store[0] /\ s = data /\ U = Stored /\ f = BagToSet(flight) /\ t = todo
                                 /\ a = Diagram(item) /\ c = count
  OBVIOUS
<1>2. PICK q : q = printed
  OBVIOUS
<1>3. Counting /\ pc[0] = "mark" /\ t = << >>
  BY <1>1 DEF Marked, Counting
<1>4. Typed(l, s, U) /\ PrintedRight(l, s, U, q)
  BY <1>1, <1>2, <1>3, SettledFacts
<1>5. PICK b \in BOOLEAN : b /\ Halfway(l, s, U, f, b, t, a, c)
  BY <1>1, <1>3, SettledFacts
<1>6. PICK d \in BOOLEAN : ~d
  OBVIOUS
<1>7. PICK u : u = <<Visit(a)>>
  OBVIOUS
<1>8. Halfway(l, s, U, f, d, u, a, c)
  BY <1>3, <1>4, <1>5, <1>6, <1>7, HalfwayTurn
<1>9. PICK phase \in {"mark", "unmark"} : phase = "unmark"
  OBVIOUS
<1>10. d <=> phase = "mark"
  BY <1>6, <1>9
<1>11. SettledAt(l, s, U, f, phase, u, a, c, q)
  BY <1>4, <1>8, <1>10, SettledHalf
<1>12. pc'[0] = phase
  BY <1>9 DEF Marked
<1>13. /\ l = store'[0] /\ s = data' /\ U = Stored' /\ f = BagToSet(flight') /\ u = todo'
       /\ a = Diagram(item)' /\ c = count' /\ q = printed'
  BY <1>1, <1>2, <1>7 DEF Marked, Stored, Diagram, inputVars, loadVars, tableVars
<1> QED
  BY <1>11, <1>12, <1>13 DEF Settled

\* A root is usable once thread 0 has read all sections.
LEMMA RootUsable ==
  ASSUME Start, Core, pc[0] # "load", NEW i \in 1 .. Len(file.sections)
  PROVE  Usable(store[0], Stored, roots[0][i].bdd)
<1>1. 0 \in Thread /\ LocalOK(0) /\ RootsOK(0) /\ Len(file.sections) \in Nat
  BY StartFacts DEF Core
<1>2. Len(roots[0]) = Len(file.sections)
  <2>1. ~(Len(roots[0]) < Len(file.sections)) /\ Len(roots[0]) <= Len(file.sections)
    BY <1>1 DEF RootsOK
  <2>2. Len(roots[0]) \in Nat
    BY <1>1 DEF RootsOK
  <2> QED
    BY <1>1, <2>1, <2>2
<1>3. file.sections[i].last <= Len(refs[0]) /\ roots[0][i] = Loaded(refs[0], file.sections[i])
  BY <1>1, <1>2 DEF RootsOK
<1>4. \E mark, k : ChildRight(file, store[0], data, roots[0][i].bdd, mark, k)
  BY <1>1, <1>3, RootIs
<1> QED
  BY <1>4, LocalUsable DEF ChildRight

\* The marks are cleared.
LEMMA UnmarkedSettled ==
  ASSUME Start, item <= Len(file.sections) => Core, Settled, Unmarked
  PROVE  Settled'
<1>0. 0 \in Thread /\ pc \in [Thread -> Phases] /\ item \in Nat /\ Len(file.sections) \in Nat
  BY StartFacts DEF Start
<1>1. PICK l, s, U, f, t, a, c : /\ l = store[0] /\ s = data /\ U = Stored /\ f = BagToSet(flight) /\ t = todo
                                 /\ a = Diagram(item) /\ c = count
  OBVIOUS
<1>2. PICK q : q = printed
  OBVIOUS
<1>3. Counting /\ pc[0] = "unmark" /\ t = << >>
  BY <1>1 DEF Unmarked, Counting
<1>4. Typed(l, s, U) /\ PrintedRight(l, s, U, q)
  BY <1>1, <1>2, <1>3, SettledFacts
<1>5. PICK b \in BOOLEAN : ~b /\ Halfway(l, s, U, f, b, t, a, c)
  <2>1. PICK b \in BOOLEAN : (b <=> pc[0] = "mark") /\ Halfway(l, s, U, f, b, t, a, c)
    BY <1>1, <1>3, SettledFacts
  <2>2. ~b
    BY <1>3, <2>1
  <2> QED
    BY <2>1, <2>2
<1>6. /\ f = {} /\ Clean(l, s, U, {}) /\ Usable(l, U, a)
      /\ c \in Nat /\ c = Cardinality(Reach(l, s)[NVars][a])
  BY <1>3, <1>4, <1>5, HalfwayEnd
<1>7. PICK r : r = Append(q, [bdd |-> a, count |-> c])
  OBVIOUS
<1>8. PrintedRight(l, s, U, r)
  BY <1>4, <1>6, <1>7, PrintedMore
<1>9. /\ l = store'[0] /\ s = data' /\ U = Stored' /\ f = BagToSet(flight') /\ r = printed' /\ count' = 0
  BY <1>1, <1>2, <1>7 DEF Unmarked, Stored, inputVars, loadVars, tableVars
<1>10. CASE item >= Len(file.sections)
  <2>1. pc'[0] \notin {"mark", "unmark"}
    BY <1>0, <1>10 DEF Unmarked
  <2> QED
    BY <1>4, <1>6, <1>8, <1>9, <2>1, SettledBetween DEF Settled
<1>11. CASE item < Len(file.sections)
  <2>1. item + 1 \in 1 .. Len(file.sections) /\ item <= Len(file.sections)
    BY <1>0, <1>11
  <2>2. item' = item + 1 /\ todo' = <<Visit(Diagram(item + 1))>> /\ pc' = [pc EXCEPT ![0] = "mark"]
    BY <1>0, <1>11 DEF Unmarked
  <2>3. PICK d : d = roots[0][item + 1].bdd
    OBVIOUS
  <2>4. Usable(l, U, d)
    BY <1>1, <1>3, <2>1, <2>3, RootUsable
  <2>5. Diagram(item + 1) = d /\ Diagram(item)' = d
    BY <2>1, <2>2, <2>3 DEF Diagram, Unmarked, inputVars, loadVars
  <2>6. PICK e \in BOOLEAN : e
    OBVIOUS
  <2>7. PICK phase \in {"mark", "unmark"} : phase = "mark"
    OBVIOUS
  <2>8. PICK u : u = <<Visit(d)>>
    OBVIOUS
  <2>9. PICK z : z = 0
    OBVIOUS
  <2>10. Halfway(l, s, U, f, e, u, d, z)
    BY <1>4, <1>6, <2>4, <2>6, <2>8, <2>9, HalfwayBegin
  <2>11. e <=> phase = "mark"
    BY <2>6, <2>7
  <2>12. SettledAt(l, s, U, f, phase, u, d, z, r)
    BY <1>4, <1>8, <2>10, <2>11, SettledHalf
  <2>13. pc'[0] = phase /\ todo' = u /\ count' = z
    BY <1>0, <1>9, <2>2, <2>5, <2>7, <2>8, <2>9
  <2> QED
    BY <1>9, <2>5, <2>12, <2>13 DEF Settled
<1> QED
  BY <1>0, <1>10, <1>11

\* A count begins, of diagram d.
LEMMA BeginSettled ==
  ASSUME Settled, pc[0] \notin {"mark", "unmark"}, pc'[0] = "mark",
         UNCHANGED <<store, data, used, flight, count, printed>>,
         NEW d, Usable(store[0], Stored, d), Diagram(item)' = d, todo' = <<Visit(d)>>
  PROVE  Settled'
<1>1. PICK l, s, U, f, c, q : /\ l = store[0] /\ s = data /\ U = Stored /\ f = BagToSet(flight)
                              /\ c = count /\ q = printed
  OBVIOUS
<1>2. Typed(l, s, U) /\ PrintedRight(l, s, U, q) /\ f = {} /\ Clean(l, s, U, {}) /\ c = 0
  BY <1>1 DEF Settled, SettledAt, Between
<1>3. PICK e \in BOOLEAN : e
  OBVIOUS
<1>4. PICK phase \in {"mark", "unmark"} : phase = "mark"
  OBVIOUS
<1>5. PICK u : u = <<Visit(d)>>
  OBVIOUS
<1>6. Halfway(l, s, U, f, e, u, d, c)
  BY <1>1, <1>2, <1>3, <1>5, HalfwayBegin
<1>7. e <=> phase = "mark"
  BY <1>3, <1>4
<1>8. SettledAt(l, s, U, f, phase, u, d, c, q)
  BY <1>2, <1>6, <1>7, SettledHalf
<1>9. /\ l = store'[0] /\ s = data' /\ U = Stored' /\ f = BagToSet(flight') /\ u = todo'
      /\ d = Diagram(item)' /\ c = count' /\ q = printed' /\ phase = pc'[0]
  BY <1>1, <1>4, <1>5 DEF Stored
<1> QED
  BY <1>8, <1>9 DEF Settled

\* A put arrives.
LEMMA LandSettled ==
  ASSUME RestOK, Settled, Network
  PROVE  Settled'
<1>1. PICK x \in BagToSet(flight) : LandPut(x)
  BY DEF Network
<1>2. Counting
  BY <1>1 DEF Settled, SettledAt, Between, Counting
<1>3. PICK l, s, U, f, t, a, c : /\ l = store[0] /\ s = data /\ U = Stored /\ f = BagToSet(flight) /\ t = todo
                                 /\ a = Diagram(item) /\ c = count
  OBVIOUS
<1>4. PICK q, phase : q = printed /\ phase = pc[0]
  OBVIOUS
<1>5. phase \in {"mark", "unmark"}
  BY <1>2, <1>4 DEF Counting
<1>6. Typed(l, s, U) /\ PrintedRight(l, s, U, q)
  BY <1>2, <1>3, <1>4, SettledFacts
<1>7. PICK b \in BOOLEAN : (b <=> phase = "mark") /\ Halfway(l, s, U, f, b, t, a, c)
  BY <1>2, <1>3, <1>4, SettledFacts
<1>8. PICK r : r = [s EXCEPT ![x.idx] = x.node]
  OBVIOUS
<1>9. PICK v : v = flight (-) SetToBag({x})
  OBVIOUS
<1>10. PICK g : g = BagToSet(v)
  OBVIOUS
<1>11. g \subseteq f /\ f \subseteq g \cup {x} /\ x \in f
  BY <1>3, <1>9, <1>10, BagLess DEF RestOK
<1>12. Changed(r, s, x.idx, x.node)
  BY <1>8 DEF Changed
<1>13. Typed(l, r, U) /\ PrintedRight(l, r, U, q) /\ Halfway(l, r, U, g, b, t, a, c)
  BY <1>6, <1>7, <1>11, <1>12, HalfwayLand
<1>14. SettledAt(l, r, U, g, phase, t, a, c, q)
  BY <1>5, <1>7, <1>13, SettledHalf
<1>15. /\ l = store'[0] /\ r = data' /\ U = Stored' /\ g = BagToSet(flight') /\ t = todo'
       /\ a = Diagram(item)' /\ c = count' /\ q = printed' /\ phase = pc'[0]
  <2>1. flight' = v /\ data' = r
    BY <1>1, <1>3, <1>8, <1>9 DEF LandPut
  <2> QED
    BY <1>1, <1>3, <1>4, <1>10, <2>1 DEF LandPut, Stored, Diagram, inputVars, loadVars, countVars
<1> QED
  BY <1>14, <1>15 DEF Settled

\* A mark is set or cleared.
LEMMA VisitSettled ==
  ASSUME RestOK, Settled, 0 \in Thread, VisitNode, ~InFlight(Here)
  PROVE  Settled'
<1>1. PICK l, s, U, f, t, a, c : /\ l = store[0] /\ s = data /\ U = Stored /\ f = BagToSet(flight) /\ t = todo
                                 /\ a = Diagram(item) /\ c = count
  OBVIOUS
<1>2. PICK q, phase : q = printed /\ phase = pc[0]
  OBVIOUS
<1>3. Counting /\ phase \in {"mark", "unmark"} /\ t # << >> /\ ~Head(t).leaving /\ ~IsConst(Here)
  BY <1>1, <1>2 DEF VisitNode, Visiting, Counting
<1>4. Typed(l, s, U) /\ PrintedRight(l, s, U, q)
  BY <1>1, <1>2, <1>3, SettledFacts
<1>5. PICK b \in BOOLEAN : (b <=> phase = "mark") /\ Halfway(l, s, U, f, b, t, a, c)
  BY <1>1, <1>2, <1>3, SettledFacts
<1>6. PICK u : u = Tail(t)
  OBVIOUS
<1>7. PICK x : x = Head(t).ref
  OBVIOUS
<1>8. PICK n : n = At(l, s, x)
  OBVIOUS
<1>9. Here = x /\ NodeAt(0, Here) = n /\ ~IsConst(x) /\ (x.local \/ x.idx \notin Flying(f))
  BY <1>1, <1>3, <1>7, <1>8 DEF Here, NodeAt, At, InFlight, Flying
<1>10. n \in Node
  BY <1>3, <1>4, <1>5, <1>7, <1>8, <1>9, HalfwayHead
<1>11. n.data # b
  <2>1. n.data \in BOOLEAN
    BY <1>10 DEF Node
  <2>2. n.data = (phase = "unmark")
    BY <1>2, <1>9 DEF VisitNode, Ready
  <2> QED
    BY <1>3, <1>5, <2>1, <2>2, ReadyIs
<1>12. PICK d \in BOOLEAN : d = (pc[0] = "mark")
  BY ZenonT(20)
<1>13. d = b
  <2>1. CASE pc[0] = "mark"
    BY <1>2, <1>5, <1>12, <2>1
  <2>2. CASE pc[0] # "mark"
    BY <1>2, <1>5, <1>12, <2>2
  <2> QED
    BY <2>1, <2>2
<1>14. PICK m : m = [n EXCEPT !.data = d]
  OBVIOUS
<1>15. SetData(x, m) /\ todo' = Calls(n) \o <<Leave(x)>> \o Tail(todo)
  BY <1>9, <1>12, <1>14 DEF VisitNode
<1>16. m \in Node /\ SameNode(m, n) /\ m.data = b
  BY <1>10, <1>13, <1>14 DEF Node, SameNode
<1>17. PICK v : v = Calls(n) \o <<Leave(x)>> \o u
  OBVIOUS
<1>18. PICK e : e = IF b THEN c + 1 ELSE c
  OBVIOUS
<1>19. todo' = v /\ count' = e
  <2>1. todo' = v
    BY <1>1, <1>6, <1>15, <1>17
  <2>2. CASE b
    <3>1. (pc[0] = "mark") <=> b
      BY <1>2, <1>5
    <3>2. count' = c + 1
      BY <1>1, <3>1, <2>2 DEF VisitNode
    <3> QED
      BY <1>18, <2>1, <3>2, <2>2
  <2>3. CASE ~b
    <3>1. (pc[0] = "mark") <=> b
      BY <1>2, <1>5
    <3>2. count' = c
      BY <1>1, <3>1, <2>3 DEF VisitNode
    <3> QED
      BY <1>18, <2>1, <3>2, <2>3
  <2> QED
    BY <2>1, <2>2, <2>3
<1>20. PICK k, r, g : k = store'[0] /\ r = data' /\ g = BagToSet(flight')
  OBVIOUS
<1>21. Writes(l, s, f, x, m, k, r, g)
  <2>1. CASE x.local /\ store' = [store EXCEPT ![0][x.idx] = m] /\ UNCHANGED <<data, flight>>
    <3>1. store'[0] = [store[0] EXCEPT ![x.idx] = m]
      BY <2>1 DEF RestOK
    <3>2. Changed(k, l, x.idx, m)
      BY <1>1, <1>20, <3>1 DEF Changed
    <3> QED
      BY <1>1, <1>20, <2>1, <3>2 DEF Writes
  <2>2. CASE ~x.local /\ data' = [data EXCEPT ![x.idx] = m] /\ UNCHANGED <<store, flight>>
    <3>1. Changed(r, s, x.idx, m)
      BY <1>1, <1>20, <2>2 DEF Changed
    <3> QED
      BY <1>1, <1>20, <2>2, <3>1 DEF Writes
  <2>3. CASE ~x.local /\ flight' = flight (+) SetToBag({[idx |-> x.idx, node |-> m]}) /\ UNCHANGED <<store, data>>
    <3>1. PICK y : y = [idx |-> x.idx, node |-> m]
      OBVIOUS
    <3>2. PICK w : w = flight (+) SetToBag({y})
      OBVIOUS
    <3>3. BagToSet(w) = BagToSet(flight) \cup {y}
      BY <3>2, BagMore DEF RestOK
    <3>4. g = f \cup {y}
      BY <1>1, <1>20, <2>3, <3>1, <3>2, <3>3
    <3> QED
      BY <1>1, <1>20, <2>3, <3>1, <3>4 DEF Writes
  <2> QED
    BY <1>15, <2>1, <2>2, <2>3 DEF SetData
<1>22. Typed(k, r, U) /\ PrintedRight(k, r, U, q) /\ Halfway(k, r, U, g, b, v, a, e)
  <2>1. MarksNode(l, s, f, b, t, x, n, m)
    BY <1>3, <1>7, <1>8, <1>9, <1>11, <1>16 DEF MarksNode
  <2>2. GoesOn(b, t, x, n, c, v, e)
    BY <1>6, <1>17, <1>18 DEF GoesOn
  <2> QED
    BY <1>4, <1>5, <1>21, <2>1, <2>2, HalfwayMore
<1>23. SettledAt(k, r, U, g, phase, v, a, e, q)
  BY <1>3, <1>5, <1>22, SettledHalf
<1>24. /\ U = Stored' /\ a = Diagram(item)' /\ q = printed' /\ phase = pc'[0]
  BY <1>1, <1>2 DEF VisitNode, Stored, Diagram, inputVars, loadVars
<1> QED
  BY <1>19, <1>20, <1>23, <1>24 DEF Settled

-----------------------------------------------------------------------------
(* The other steps *)

LEMMA CoreTyped ==
  ASSUME NEW l \in [LocalIndex -> Node \cup {None}], NEW s \in [0 .. TableSize - 1 -> Node \cup {None}],
         LocalGood(l, s), NEW U, SharedGood(l, s, U), NEW b, NEW u, UsedRight(b, u), U = Places(u)
  PROVE  Typed(l, s, U)
<1>1. TableSize \in Nat /\ Places(u) \subseteq 1 .. TableSize - 1
  BY StoredIs, SeqAssumption
<1> QED
  BY <1>1 DEF Typed, Memory

\* The state after a step before the end of the search is of the right type.
LEMMA NextTyped ==
  ASSUME Core', 0 \in Thread
  PROVE  Typed(store'[0], data', Stored')
<1>1. LocalOK(0)' /\ UsedOK' /\ TableOK'
  BY DEF Core
<1>2. PICK l, s, U : l = store'[0] /\ s = data' /\ U = Stored'
  OBVIOUS
<1>3. PICK b, u : b = build' /\ u = used'
  OBVIOUS
<1>4. /\ l \in [LocalIndex -> Node \cup {None}] /\ s \in [0 .. TableSize - 1 -> Node \cup {None}]
      /\ LocalGood(l, s) /\ SharedGood(l, s, U)
  BY <1>1, <1>2 DEF LocalOK, TableOK
<1>5. UsedRight(b, u) /\ U = Places(u)
  BY <1>1, <1>2, <1>3 DEF UsedOK, Stored, Places
<1> QED
  BY <1>2, <1>4, <1>5, CoreTyped

\* Thread 0 reads a node.
LEMMA ReadSettled ==
  ASSUME Inv, Inv', RestOK, Settled, ReadPut(0), 0 \in Thread
  PROVE  Settled'
<1>1. /\ pc[0] = "load" /\ UNCHANGED <<file, pc, data, used, flight, todo, item, count, printed>>
      /\ NoneMarked(store[0]) => NoneMarked(store'[0])
  BY ReadMarks DEF countVars
<1>2. printed = << >> /\ Stored' = Stored
  BY <1>1 DEF RestOK, Stored
<1>3. Core'
  <2>1. Core /\ item = 0 /\ Len(file.sections) \in Nat
    BY <1>1, ReadMarks, StartFacts DEF Inv, Start
  <2>2. item' <= Len(file'.sections)
    BY <1>1, <2>1
  <2> QED
    BY <2>2 DEF Inv
<1>4. Typed(store'[0], data', Stored')
  BY <1>3, NextTyped
<1>5. PICK l, s, U, f : l = store[0] /\ s = data /\ U = Stored /\ f = BagToSet(flight)
  OBVIOUS
<1>6. Typed(l, s, U) /\ f = {} /\ Clean(l, s, U, {}) /\ count = 0
  BY <1>1, <1>5 DEF Settled, SettledAt, Between
<1>7. PICK k : k = store'[0]
  OBVIOUS
<1>8. U \subseteq 0 .. TableSize - 1
  BY <1>6 DEF Typed
<1>9. NoneMarked(l) /\ \A i \in U : ~s[i].data
  BY <1>6, <1>8, CleanNone
<1>10. Clean(k, s, U, {})
  <2>1. NoneMarked(k)
    BY <1>1, <1>5, <1>7, <1>9
  <2> QED
    BY <1>8, <1>9, <2>1, CleanNone
<1>11. PICK q : q = << >>
  OBVIOUS
<1>12. PrintedRight(k, s, U, q)
  BY <1>11 DEF PrintedRight
<1>13. PICK phase : phase = "load"
  OBVIOUS
<1>14. PICK c : c = 0
  OBVIOUS
<1>15. Typed(k, s, U)
  BY <1>1, <1>2, <1>4, <1>5, <1>7
<1>16. phase \notin {"mark", "unmark"}
  BY <1>13
<1>17. \A t, a : SettledAt(k, s, U, f, phase, t, a, c, q)
  BY <1>6, <1>10, <1>12, <1>14, <1>15, <1>16, SettledBetween
<1>18. /\ k = store'[0] /\ s = data' /\ U = Stored' /\ f = BagToSet(flight') /\ phase = pc'[0]
       /\ c = count' /\ q = printed'
  BY <1>1, <1>2, <1>5, <1>6, <1>7, <1>11, <1>13, <1>14
<1> QED
  BY <1>17, <1>18 DEF Settled

\* The search makes a node.
LEMMA MakeSettled ==
  ASSUME Inv, Inv', Settled, Make, 0 \in Thread
  PROVE  Settled'
<1>1. Start /\ Core /\ Len(file.sections) \in Nat /\ item \in Nat
  <2>1. held # {}
    BY DEF Make, Operand
  <2>2. Start /\ Len(file.sections) \in Nat /\ item \in Nat
    BY StartFacts DEF Inv, Start
  <2>3. item <= Len(file.sections)
    BY <2>1, <2>2 DEF Start
  <2> QED
    BY <2>2, <2>3 DEF Inv
<1>2. CASE \E l, x, y : MakeFull(l, x, y)
  <2>1. UNCHANGED <<file, pc, roots, store, data, used, flight, todo, item, count, printed, result>>
    BY <1>2 DEF MakeFull, inputVars, loadVars, tableVars, countVars
  <2>2. Diagram(item)' = Diagram(item)
    BY <2>1 DEF Diagram
  <2> QED
    BY <2>1, <2>2, SettledQuiet
<1>3. CASE \E p \in Thread, l \in Level, x \in Operand, y \in Operand : \E i, n : Makes(p, l, x, y, i, n) /\ Gains(i, n)
  <2>1. PICK p \in Thread, l \in Level, x \in Operand, y \in Operand : \E i, n : Makes(p, l, x, y, i, n) /\ Gains(i, n)
    BY <1>3
  <2>2. PICK i, n : Makes(p, l, x, y, i, n) /\ Gains(i, n)
    BY <2>1
  <2>3. UNCHANGED <<file, pc, store, flight, item, count, printed>> /\ pc[0] = "search"
    <3>1. pc[p] = "search" /\ UNCHANGED <<file, pc, store, flight, item, count, printed>>
      BY <2>2 DEF Makes, Made, inputVars, countVars
    <3> QED
      BY <1>1, <3>1 DEF Core, PhaseOK
  <2>4. Core'
    BY <1>1, <2>1, <2>2, MakeCore
  <2>5. Typed(store'[0], data', Stored')
    BY <2>4, NextTyped
  <2>6. PICK k, s, U, f, q, c : /\ k = store[0] /\ s = data /\ U = Stored /\ f = BagToSet(flight)
                                /\ q = printed /\ c = count
    OBVIOUS
  <2>7. PICK r, W : r = data' /\ W = Stored'
    OBVIOUS
  <2>8. PICK phase : phase = pc[0]
    OBVIOUS
  <2>9. phase \notin {"mark", "unmark"}
    BY <2>3, <2>8
  <2>10. Typed(k, s, U) /\ PrintedRight(k, s, U, q) /\ f = {} /\ Clean(k, s, U, {}) /\ c = 0
    BY <2>6, <2>8, <2>9 DEF Settled, SettledAt, Between
  <2>11. Typed(k, r, W)
    BY <2>3, <2>5, <2>6, <2>7
  <2>12. Grows(k, s, U, k, r, W)
    BY <2>2, <2>6, <2>7 DEF Gains, Grows, SameNode
  <2>13. PrintedRight(k, r, W, q)
    BY <2>10, <2>12, PrintedGrows DEF Typed
  <2>14. Clean(k, r, W, {})
    <3>1. NoneMarked(k)
      BY <2>10, CleanNone DEF Typed
    <3>2. \A j \in W : ~r[j].data
      BY <2>2, <2>7 DEF Gains, UniqueOK
    <3> QED
      BY <2>11, <3>1, <3>2, CleanNone DEF Typed
  <2>15. \A t, a : SettledAt(k, r, W, f, phase, t, a, c, q)
    BY <2>9, <2>10, <2>11, <2>13, <2>14, SettledBetween
  <2>16. /\ k = store'[0] /\ f = BagToSet(flight') /\ phase = pc'[0] /\ c = count' /\ q = printed'
    BY <2>3, <2>6, <2>8
  <2> QED
    BY <2>7, <2>15, <2>16 DEF Settled
<1> QED
  BY <1>1, <1>2, <1>3, MakeGains

\* A section ends.
LEMMA SectionSettled ==
  ASSUME Inv, Inv', RestOK, Settled, NEW p \in Thread, EndSection(p)
  PROVE  Settled'
<1>1. /\ Start /\ 0 \in Thread /\ pc \in [Thread -> Phases] /\ Len(file.sections) \in Nat \ {0} /\ item \in Nat
      /\ pc[p] = "load" /\ UNCHANGED <<file, store, data, used, flight, count, printed, result>>
  BY StartFacts DEF Inv, Start, EndSection, inputVars, tableVars
<1>2. Core
  <2>1. ~(item > Len(file.sections))
    BY <1>1 DEF RestOK
  <2> QED
    BY <1>1, <2>1 DEF Inv
<1>3. CASE p # 0
  <2>1. pc'[0] = pc[0] /\ UNCHANGED <<todo, item>>
    BY <1>1, <1>3 DEF EndSection
  <2>2. roots'[0] = roots[0]
    BY <1>1, <1>2, <1>3 DEF EndSection, Core, Shapes
  <2>3. Diagram(item)' = Diagram(item)
    BY <1>1, <2>1, <2>2 DEF Diagram
  <2> QED
    BY <1>1, <2>1, <2>3, SettledQuiet
<1>4. CASE p = 0 /\ pc' = pc
  <2>1. pc[0] \notin {"mark", "unmark"} /\ pc'[0] \notin {"mark", "unmark"}
    BY <1>1, <1>4
  <2> QED
    BY <1>1, <2>1, SettledQuiet
<1>5. CASE p = 0 /\ pc' # pc
  <2>1. pc'[0] = "mark" /\ todo' = <<Visit(roots'[0][1].bdd)>> /\ item' = 1
    BY <1>1, <1>5 DEF EndSection
  <2>2. PICK d : d = roots'[0][1].bdd
    OBVIOUS
  <2>3. Diagram(item)' = d
    BY <1>1, <2>1, <2>2 DEF Diagram
  <2>4. Usable(store[0], Stored, d)
    <3>1. Core'
      <4>1. item' <= Len(file'.sections)
        BY <1>1, <2>1
      <4> QED
        BY <4>1 DEF Inv
    <3>2. /\ todo' \in Seq([ref : Ref, leaving : BOOLEAN])
          /\ \A k \in 1 .. Len(todo') : Usable(store'[0], {}, todo'[k].ref)
      BY <2>1, <3>1 DEF Core, CountOK
    <3>3. 1 \in 1 .. Len(todo') /\ todo'[1].ref = d
      BY <2>1, <2>2 DEF Visit
    <3>4. Usable(store'[0], {}, d)
      BY <3>2, <3>3
    <3> QED
      BY <1>1, <3>4, LocalUsable
  <2>5. pc[0] \notin {"mark", "unmark"}
    BY <1>1, <1>5
  <2> QED
    BY <1>1, <2>1, <2>2, <2>3, <2>4, <2>5, BeginSettled
<1> QED
  BY <1>3, <1>4, <1>5

\* The search is over.
LEMMA SearchSettled ==
  ASSUME Inv, Settled, EndSearch
  PROVE  Settled'
<1>1. /\ Start /\ 0 \in Thread /\ Len(file.sections) \in Nat \ {0} /\ item \in Nat /\ pc[0] = "search"
  BY StartFacts DEF Inv, Start, EndSearch
<1>2. Core
  <2>1. ~(item > Len(file.sections))
    BY <1>1 DEF Start
  <2> QED
    BY <1>1, <2>1 DEF Inv
<1>3. item = Len(file.sections)
  BY <1>1, <1>2 DEF Core, PhaseOK
<1>4. PICK x \in held : result' = x.ref /\ todo' = <<Visit(x.ref)>>
  BY DEF EndSearch
<1>5. PICK d : d = x.ref
  OBVIOUS
<1>6. Usable(store[0], Stored, d)
  BY <1>1, <1>2, <1>5 DEF Core, HeldOK, HeldRight
<1>7. UNCHANGED <<file, store, data, used, flight, count, printed>> /\ pc'[0] = "mark" /\ item' = item + 1
  BY <1>1 DEF EndSearch, inputVars, tableVars
<1>8. Diagram(item)' = d
  BY <1>1, <1>3, <1>4, <1>5, <1>7 DEF Diagram
<1>9. pc[0] \notin {"mark", "unmark"} /\ todo' = <<Visit(d)>>
  BY <1>1, <1>4, <1>5
<1> QED
  BY <1>6, <1>7, <1>8, <1>9, BeginSettled

\* Other steps of the count.
LEMMA CallSettled ==
  ASSUME Settled, VisitConst \/ VisitSkip \/ Return, ~late'
  PROVE  Settled'
<1>1. /\ Counting /\ todo # << >> /\ todo' = Tail(todo)
      /\ UNCHANGED <<file, pc, roots, store, data, used, flight, item, count, printed, result>>
  BY DEF VisitConst, VisitSkip, Return, Visiting, inputVars, loadVars, tableVars
<1>2. \/ ~Head(todo).leaving /\ (IsConst(Here) \/ ~Ready(NodeAt(0, Here)))
      \/ Head(todo).leaving /\ ~InFlight(Here)
  BY DEF VisitConst, VisitSkip, Return, Visiting, Relying
<1> QED
  BY <1>1, <1>2, LessSettled

LEMMA SettledStep ==
  ASSUME Inv, Inv', RestOK, Settled, [Next]_vars, ~late'
  PROVE  Settled'
<1>1. Start /\ 0 \in Thread /\ pc \in [Thread -> Phases] /\ (item <= Len(file.sections) => Core)
  BY StartFacts DEF Inv, Start
<1>2. ASSUME UNCHANGED <<file, pc, roots, store, data, used, flight, todo, item, count, printed, result>>
      PROVE  Settled'
  <2>1. Diagram(item)' = Diagram(item)
    BY <1>2 DEF Diagram
  <2> QED
    BY <1>2, <2>1, SettledQuiet
<1>3. ASSUME NEW p \in Thread, ReadEqual(p) \/ ReadFull(p) PROVE Settled'
  BY <1>2, <1>3 DEF ReadEqual, ReadFull, Assign, inputVars, loadVars, tableVars, countVars
<1>4. ASSUME NEW p \in Thread, ReadPut(p) PROVE Settled'
  <2>1. CASE p = 0
    BY <1>1, <1>4, <2>1, ReadSettled
  <2>2. CASE p # 0
    <3>1. /\ UNCHANGED <<file, pc, roots, data, used, flight, todo, item, count, printed, result>>
          /\ store'[0] = store[0]
      BY <1>1, <1>4, <2>2, ReadMarks DEF countVars
    <3>2. Diagram(item)' = Diagram(item)
      BY <3>1 DEF Diagram
    <3> QED
      BY <3>1, <3>2, SettledQuiet
  <2> QED
    BY <2>1, <2>2
<1>5. ASSUME NodeCount PROVE Settled'
  <2>1. VisitNode => ~InFlight(Here)
    BY DEF VisitNode, Relying
  <2> QED
    BY <1>1, <1>5, <2>1, CallSettled, VisitSettled, MarkedSettled, UnmarkedSettled DEF NodeCount
<1>6. ASSUME AllArrived PROVE Settled'
  <2>1. UNCHANGED <<store, data, used, flight, count, printed>> /\ pc[0] = "compute" /\ pc'[0] = "search"
    BY <1>1, <1>6 DEF AllArrived, tableVars, countVars
  <2> QED
    BY <2>1, SettledQuiet
<1>7. ASSUME UNCHANGED vars PROVE Settled'
  BY <1>2, <1>7 DEF vars, inputVars, loadVars, tableVars, countVars
<1> QED
  BY <1>1, <1>3, <1>4, <1>5, <1>6, <1>7, SectionSettled, MakeSettled, SearchSettled, LandSettled
     DEF Next, Load, Stop

\* Once a put is overtaken, that is remembered.
LEMMA LateStays ==
  ASSUME [Next]_vars, ~late'
  PROVE  ~late
<1>1. ASSUME NEW p \in Thread, Load(p) PROVE late' = late
  BY <1>1 DEF Load, ReadEqual, ReadPut, ReadFull, EndSection, Assign
<1>2. ASSUME NodeCount PROVE late' = late \/ late' = (late \/ InFlight(Here))
  BY <1>2 DEF NodeCount, VisitConst, VisitSkip, VisitNode, Return, Marked, Unmarked, Relying
<1>3. ASSUME Make PROVE late' = late
  <2>1. \A l, x, y, i : Made(l, x, y, i) => late' = late
    BY DEF Made, countVars
  <2>2. \A l, x, y : MakeFull(l, x, y) => late' = late
    BY DEF MakeFull, countVars
  <2>3. \A p, l, x, y : MakeFind(p, l, x, y) => \E i : Made(l, x, y, i)
    BY DEF MakeFind
  <2>4. \A p, l, x, y : MakePut(p, l, x, y) => \E i : Made(l, x, y, i)
    BY DEF MakePut
  <2>5. \A l, x, y : MakeSeq(l, x, y) => \E i : Made(l, x, y, i)
    BY DEF MakeSeq
  <2> QED
    BY <1>3, <2>1, <2>2, <2>3, <2>4, <2>5, ZenonT(30) DEF Make
<1>4. AllArrived => late' = late
  BY DEF AllArrived
<1>5. EndSearch => late' = late
  BY DEF EndSearch
<1>6. Network => late' = late
  <2>1. \A x : LandPut(x) => late' = late
    BY DEF LandPut
  <2> QED
    BY <2>1, Zenon DEF Network
<1>7. UNCHANGED vars => late' = late
  BY DEF vars
<1> QED
  BY <1>1, <1>2, <1>3, <1>4, <1>5, <1>6, <1>7, ZenonT(30) DEF Next, Stop

LEMMA MarksInit ==
  ASSUME Init
  PROVE  MarksOK
<1>1. Core /\ Start /\ 0 \in Thread /\ Len(file.sections) \in Nat \ {0} /\ pc[0] = "load"
  BY CoreInit, StartInit, StartFacts DEF Init
<1>2. Stored = {}
  BY <1>1, NothingStored DEF Core
<1>3. /\ printed = << >> /\ item = 0 /\ count = 0 /\ flight = EmptyBag
      /\ \A p \in Thread : store[p] = [i \in LocalIndex |-> None]
  BY DEF Init
<1>4. IsABag(flight) /\ BagToSet(flight) = {}
  BY <1>3 DEF IsABag, EmptyBag, BagToSet, SetToBag
<1>5. \A p \in Thread : NoneMarked(store[p])
  BY <1>3 DEF NoneMarked
<1>6. RestOK
  <2>1. store = [p \in Thread |-> store[p]]
    BY DEF Init
  <2>2. ~(item > Len(file.sections))
    BY <1>1, <1>3
  <2> QED
    BY <1>3, <1>4, <1>5, <2>1, <2>2 DEF RestOK
<1>7. Typed(store[0], data, Stored)
  <2>1. LocalOK(0) /\ SharedGood(store[0], data, Stored) /\ UsedRight(build, used)
        /\ data \in [0 .. TableSize - 1 -> Node \cup {None}]
    BY <1>1 DEF Core, TableOK, UsedOK
  <2> QED
    BY <2>1, CoreTyped DEF LocalOK, Stored, Places
<1>8. PrintedRight(store[0], data, Stored, printed)
  <2>1. << >> \in Seq([bdd : Ref, count : Nat]) /\ Len(<< >>) = 0 /\ 1 .. 0 = {}
    OBVIOUS
  <2> QED
    BY <1>3, <2>1 DEF PrintedRight
<1>9. Clean(store[0], data, Stored, {})
  <2>1. NoneMarked(store[0]) /\ \A i \in Stored : ~data[i].data
    BY <1>1, <1>2, <1>5
  <2>2. Stored \subseteq 0 .. TableSize - 1
    BY <1>2
  <2> QED
    BY <2>1, <2>2, CleanNone
<1>10. Settled
  <2>1. pc[0] \notin {"mark", "unmark"}
    BY <1>1
  <2> QED
    BY <1>3, <1>4, <1>7, <1>8, <1>9, <2>1, SettledBetween DEF Settled
<1> QED
  BY <1>6, <1>10 DEF MarksOK

\* Counting leaves no trace, as long as no put is overtaken.
THEOREM MarksHold == Spec => []MarksOK
<1>1. Init => MarksOK
  BY MarksInit
<1>2. Inv /\ Inv' /\ MarksOK /\ [Next]_vars => MarksOK'
  <2> SUFFICES ASSUME Inv, Inv', MarksOK, [Next]_vars PROVE MarksOK'
    OBVIOUS
  <2>1. RestOK /\ RestOK'
    BY RestStep DEF MarksOK
  <2>2. ASSUME ~late' PROVE Settled'
    <3>1. ~late
      BY <2>2, LateStays
    <3>2. Settled
      BY <3>1 DEF MarksOK
    <3> QED
      BY <2>1, <2>2, <3>2, SettledStep
  <2> QED
    BY <2>1, <2>2 DEF MarksOK
<1> QED
  BY <1>1, <1>2, Always, PTL DEF Spec

\* bdd_nodecount: a number that is printed is that of the nodes of the diagram,
\* each counted once although many paths lead to it and although those that are
\* in the shared table are marked by puts under way, as long as none is overtaken.
THEOREM CountHolds == Spec => []CountRight
<1>1. MarksOK => CountRight
  <2> SUFFICES ASSUME MarksOK, ~late, NEW i \in 1 .. Len(printed)
               PROVE  printed[i].count = Cardinality(Below(printed[i].bdd))
    BY DEF CountRight
  <2>1. PrintedRight(store[0], data, Stored, printed)
    BY DEF MarksOK, Settled, SettledAt
  <2> QED
    BY <2>1 DEF PrintedRight, Below
<1> QED
  BY <1>1, MarksHold, PTL

\* bdd_nodecount_do_2 clears what bdd_nodecount_do_1 sets: no node is marked during
\* the search, when a mark would make a node differ from its equals, nor at the end.
THEOREM NoMarksHolds == Spec => []NoMarks
<1>1. MarksOK => NoMarks
  <2> SUFFICES ASSUME MarksOK, ~late, pc[0] \in {"search", "finish"}
               PROVE  /\ \A p \in Thread, i \in LocalIndex : store[p][i] = None \/ ~store[p][i].data
                      /\ \A i \in Stored : ~data[i].data
    BY DEF NoMarks
  <2>1. SettledAt(store[0], data, Stored, BagToSet(flight), pc[0], todo, Diagram(item), count, printed)
    BY DEF MarksOK, Settled
  <2>2. Typed(store[0], data, Stored) /\ Clean(store[0], data, Stored, {})
    <3>1. pc[0] \notin {"mark", "unmark"}
      OBVIOUS
    <3> QED
      BY <2>1, <3>1 DEF SettledAt, Between
  <2>3. NoneMarked(store[0]) /\ \A i \in Stored : ~data[i].data
    BY <2>2, CleanNone DEF Typed
  <2>4. \A p \in Thread : NoneMarked(store[p])
    BY <2>3 DEF MarksOK, RestOK
  <2> QED
    BY <2>3, <2>4 DEF NoneMarked
<1> QED
  BY <1>1, MarksHold, PTL
=============================================================================
