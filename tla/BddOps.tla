------------------------------- MODULE BddOps -------------------------------
(***************************************************************************)
(* The operations of bdd.c, each applied to every combination of operands  *)
(* of an instance and compared with what it means on assignments.          *)
(*                                                                         *)
(* An operation that spawns and joins its recursive calls is the recursive *)
(* definition itself: WorkStealing shows that a join delivers the result   *)
(* of the task.  A call meets a cache that is warm in some of its buckets: *)
(* there a lookup finds the operation that its key names, as OpCache       *)
(* promises, and elsewhere it misses, so that a recursive call may hit     *)
(* where its caller or its sibling did not.  An operation returns its      *)
(* result and what it puts in the cache.                                   *)
(*                                                                         *)
(* A recursive operation is a recursive function of its operands.  Its     *)
(* body is an operator, of which the first parameter is that function.     *)
(***************************************************************************)
EXTENDS BddMeaning, Integers, Sequences, FiniteSets, FiniteSetsExt

CONSTANTS
  Granularity,   \* cache once every so many levels (4 in the code)
  CacheBucket,   \* the buckets of the cache
  CacheHash(_, _),   \* cache_hash: the bucket of an operation and its operands
  Inputs,        \* the calls: [op, args, chain]
  NoOutput

ASSUME GranularityAssumption == Granularity \in Nat \ {0}

VARIABLES
  in,     \* the call
  warm,   \* the buckets in which cache_get finds what it looks for
  swap,   \* the reference of the first operand is greater than the second's
  out     \* NoOutput, or [res, puts]

vars == <<in, warm, swap, out>>

Init ==
  /\ in \in Inputs
  /\ warm \in SUBSET CacheBucket /\ swap \in BOOLEAN
  /\ out = NoOutput

-----------------------------------------------------------------------------
(* The meaning of a call, as a set of assignments or as a number. *)

\* The variables of a chain from position i on that stand for the state before;
\* the next level stands for the state after.
Before(chain, i) == {chain[j] : j \in {j \in i + 1 .. Len(chain) : chain[j] % 2 = 0}}

\* The states reached from A in one step of B.  An assignment of the result
\* gives the state after by the variables that A uses for the state before.
Image(A, B, chain, i) ==
  LET S == Before(chain, i)
      T == {s + 1 : s \in S}
      Step(u, v) == [l \in Level |-> IF l \in S THEN u[l] ELSE IF l \in T THEN v[l - 1] ELSE v[l]]
  IN  {v \in Env : \E u \in A :
         /\ \A l \in Level \ S : u[l] = v[l]
         /\ Step(u, v) \in B}

\* The number of assignments to the variables of the chain from position i on.
Count(A, chain, i) ==
  Cardinality({[l \in {chain[j] : j \in i + 1 .. Len(chain)} |-> v[l]] : v \in A})

Meaning(op, g, chain) ==
  CASE op = "and"  -> Sem(g[1]) \cap Sem(g[2])
    [] op = "or"   -> Sem(g[1]) \cup Sem(g[2])
    [] op = "diff" -> Sem(g[1]) \ Sem(g[2])
    [] op = "xor"  -> (Sem(g[1]) \ Sem(g[2])) \cup (Sem(g[2]) \ Sem(g[1]))
    [] op = "ite"  -> (Sem(g[1]) \cap Sem(g[2])) \cup (Sem(g[3]) \ Sem(g[1]))
    [] op = "relnext"  -> Image(Sem(g[1]), Sem(g[2]), chain, g[3])
    [] op = "satcount" -> Count(Sem(g[1]), chain, g[2])

-----------------------------------------------------------------------------
(* The cache *)

CacheNow(prev, level) ==
  Granularity < 2 \/ prev = 0 \/ prev \div Granularity # level \div Granularity

Hit(prev, level, op, g) == CacheNow(prev, level) /\ CacheHash(op, g) \in warm
Cached(op, g) ==
  IF op = "satcount" THEN Meaning(op, g, in.chain) ELSE Build(Meaning(op, g, in.chain))

Answer(r) == [res |-> r, puts |-> {}]

\* A result r, of which the cache gets x.
Store(r, prev, level, op, g, x) ==
  [res |-> r,
   puts |-> IF CacheNow(prev, level) THEN {[op |-> op, args |-> g, res |-> x]} ELSE {}]

-----------------------------------------------------------------------------
(* bdd_and, bdd_xor, bdd_ite *)

Lower(l, m) == IF l < m THEN l ELSE m

\* The operands in the order of their references, for the sake of the cache.
Swaps(x, y) == swap /\ bdd_stripmark(x) # bdd_stripmark(y)
First(x, y)  == IF Swaps(x, y) THEN y ELSE x
Second(x, y) == IF Swaps(x, y) THEN x ELSE y

\* What bdd_and does with a pair of cofactors: only general ones become a task.
AndTask(And, a, b, level) ==
  IF IsTrue(a) THEN b
  ELSE IF IsFalse(a) \/ IsFalse(b) THEN bdd_false
  ELSE IF IsTrue(b) THEN a
  ELSE And[<<a, b, level>>].res

AndStep(And, x, y, prev) ==
  IF IsTrue(x) THEN Answer(y)
  ELSE IF IsTrue(y) THEN Answer(x)
  ELSE IF IsFalse(x) \/ IsFalse(y) THEN Answer(bdd_false)
  ELSE
    LET a == First(x, y)
        b == Second(x, y)
        level == Lower(LevelOf(a), LevelOf(b))
        res == bdd_makenode(level, AndTask(And, LowAt(a, level), LowAt(b, level), level),
                                   AndTask(And, HighAt(a, level), HighAt(b, level), level))
    IN  IF Hit(prev, level, "and", <<a, b>>) THEN Answer(Cached("and", <<a, b>>))
        ELSE Store(res, prev, level, "and", <<a, b>>, res)

AndOf[c \in Ref \X Ref \X Nat] == AndStep(AndOf, c[1], c[2], c[3])
bdd_and(a, b, prev) == AndOf[<<a, b, prev>>]

bdd_or(a, b)   == bdd_not(bdd_and(bdd_not(a), bdd_not(b), 0).res)
bdd_diff(a, b) == bdd_and(a, bdd_not(b), 0).res

XorStep(Xor, x, y, prev) ==
  IF IsFalse(x) THEN Answer(y)
  ELSE IF IsFalse(y) THEN Answer(x)
  ELSE IF IsTrue(x) THEN Answer(bdd_not(y))
  ELSE IF IsTrue(y) THEN Answer(bdd_not(x))
  ELSE IF x = y THEN Answer(bdd_false)
  ELSE IF x = bdd_not(y) THEN Answer(bdd_true)
  ELSE
    LET marked == First(x, y)
        a == bdd_stripmark(marked)
        b == bdd_transfermark(marked, Second(x, y))
        level == Lower(LevelOf(a), LevelOf(b))
        res == bdd_makenode(level, Xor[<<LowAt(a, level), LowAt(b, level), level>>].res,
                                   Xor[<<HighAt(a, level), HighAt(b, level), level>>].res)
    IN  IF Hit(prev, level, "xor", <<a, b>>) THEN Answer(Cached("xor", <<a, b>>))
        ELSE Store(res, prev, level, "xor", <<a, b>>, res)

XorOf[c \in Ref \X Ref \X Nat] == XorStep(XorOf, c[1], c[2], c[3])
bdd_xor(a, b, prev) == XorOf[<<a, b, prev>>]

IteTask(Ite, a, b, c, level) ==
  IF IsTrue(a) THEN b ELSE IF IsFalse(a) THEN c ELSE Ite[<<a, b, c, level>>].res

\* No terminal case is left; neither a nor b has a mark.  Where the top level is
\* not that of c, the code takes b for the cofactors of c.
IteGeneral(Ite, a, b, c, prev, mark) ==
  LET level == Lower(LevelOf(b), LevelOf(c))
      top == Lower(LevelOf(a), level)
      Negate(r) == IF mark THEN bdd_not(r) ELSE r
      cLow  == IF LevelOf(c) = top THEN node_low(c) ELSE b
      cHigh == IF LevelOf(c) = top THEN node_high(c) ELSE b
      res == bdd_makenode(top, IteTask(Ite, LowAt(a, top), LowAt(b, top), cLow, top),
                               IteTask(Ite, HighAt(a, top), HighAt(b, top), cHigh, top))
  IN  IF LevelOf(a) < level /\ IsFalse(node_low(a)) /\ IsTrue(node_high(a))
      THEN Answer(Negate(bdd_makenode(LevelOf(a), c, b)))
      ELSE IF Hit(prev, top, "ite", <<a, b, c>>) THEN Answer(Negate(Cached("ite", <<a, b, c>>)))
      ELSE Store(Negate(res), prev, top, "ite", <<a, b, c>>, res)

IteStep(Ite, a, y, z, prev) ==
  LET b == IF a = y THEN bdd_true ELSE IF a = bdd_not(y) THEN bdd_false ELSE y
      c == IF a = z THEN bdd_false ELSE IF a = bdd_not(z) THEN bdd_true ELSE z
  IN  IF IsTrue(a) THEN Answer(y)
      ELSE IF IsFalse(a) THEN Answer(z)
      ELSE IF b = c THEN Answer(b)
      ELSE IF IsTrue(b) /\ IsFalse(c) THEN Answer(a)
      ELSE IF IsFalse(b) /\ IsTrue(c) THEN Answer(bdd_not(a))
      ELSE IF IsFalse(c) THEN Answer(bdd_and(a, b, prev).res)
      ELSE IF IsTrue(b)  THEN Answer(bdd_not(bdd_and(bdd_not(a), bdd_not(c), prev).res))
      ELSE IF IsFalse(b) THEN Answer(bdd_and(bdd_not(a), c, prev).res)
      ELSE IF IsTrue(c)  THEN Answer(bdd_not(bdd_and(a, bdd_not(b), prev).res))
      ELSE IF b = bdd_not(c) THEN Answer(bdd_xor(a, c, 0).res)
      ELSE LET then == IF a.mark THEN c ELSE b
               else == IF a.mark THEN b ELSE c
           IN  IteGeneral(Ite, bdd_stripmark(a), bdd_stripmark(then),
                          bdd_transfermark(then, else), prev, then.mark)

IteOf[c \in Ref \X Ref \X Ref \X Nat] == IteStep(IteOf, c[1], c[2], c[3], c[4])
bdd_ite(a, b, c, prev) == IteStep(IteOf, a, b, c, prev)

-----------------------------------------------------------------------------
(* bdd_relnext: the successors of the states a under the relation b, whose *)
(* variables, before and after interleaved, are in.chain from position i.  *)

\* level ^ 1
Partner(level) == IF level % 2 = 0 THEN level + 1 ELSE level - 1
InPair(level, i) == in.chain[i + 1] \in {level, Partner(level)}

\* The position after the variables above level.
Skipped(level, i) ==
  Min({j \in i .. Len(in.chain) :
         (j > i /\ j = Len(in.chain)) \/ InPair(level, j) \/ level < in.chain[j + 1]})

RelTask(Rel, a, b, level, i) == Rel[<<a, b, level, i>>].res

\* Faulty variant: the spawned tasks are joined first in, first out.
RelPair_JoinOrder(Rel, a, b, level, i) ==
  LET s == level - (level % 2)
      t == s + 1
      b0 == LowAt(b, s)   b1 == HighAt(b, s)
      e == RelTask(Rel, LowAt(a, s), LowAt(b0, t), level, i + 1)
      d == RelTask(Rel, HighAt(a, s), LowAt(b1, t), level, i + 1)
      c == RelTask(Rel, LowAt(a, s), HighAt(b0, t), level, i + 1)
      f == RelTask(Rel, HighAt(a, s), HighAt(b1, t), level, i + 1)
  IN  bdd_makenode(s, bdd_ite(c, bdd_true, d, 0).res, bdd_ite(e, bdd_true, f, 0).res)

\* A variable of the relation: replace the state before by the state after.
RelPair(Rel, a, b, level, i) ==
  LET s == level - (level % 2)
      t == s + 1
      b0 == LowAt(b, s)   b1 == HighAt(b, s)
      c == RelTask(Rel, LowAt(a, s), LowAt(b0, t), level, i + 1)
      d == RelTask(Rel, HighAt(a, s), LowAt(b1, t), level, i + 1)
      e == RelTask(Rel, LowAt(a, s), HighAt(b0, t), level, i + 1)
      f == RelTask(Rel, HighAt(a, s), HighAt(b1, t), level, i + 1)
  IN  bdd_makenode(s, bdd_ite(c, bdd_true, d, 0).res, bdd_ite(e, bdd_true, f, 0).res)

\* Any other variable: keep it.  The relation does not depend on it, unless its
\* chain lacks one of its own variables.
RelOther(Rel, a, b, level, i) ==
  LET a0 == LowAt(a, level)   a1 == HighAt(a, level)
      b0 == LowAt(b, level)   b1 == HighAt(b, level)
      r0 == RelTask(Rel, a0, b0, level, i)
      r1 == RelTask(Rel, a1, b1, level, i)
      both == bdd_ite(r0, bdd_true, r1, 0).res
  IN  IF b0 = b1 THEN bdd_makenode(level, r0, r1)
      ELSE IF a0 = a1 THEN bdd_or(r0, r1)
      ELSE bdd_makenode(level, both, both)

RelStep(Rel, a, b, prev, i) ==
  IF IsTrue(a) /\ IsTrue(b) THEN Answer(bdd_true)
  ELSE IF IsFalse(a) \/ IsFalse(b) THEN Answer(bdd_false)
  ELSE IF i = Len(in.chain) THEN NoOutput   \* reads past the array of the chain
  ELSE
    LET level == Lower(LevelOf(a), LevelOf(b))
        j == Skipped(level, i)
        res == IF InPair(level, j) THEN RelPair(Rel, a, b, level, j)
                                   ELSE RelOther(Rel, a, b, level, j)
    IN  IF j = Len(in.chain) THEN Answer(a)
        ELSE IF Hit(prev, level, "relnext", <<a, b, j>>) THEN Answer(Cached("relnext", <<a, b, j>>))
        ELSE Store(res, prev, level, "relnext", <<a, b, j>>, res)

RelOf[c \in Ref \X Ref \X Nat \X (0 .. Len(in.chain))] ==
  RelStep(RelOf, c[1], c[2], c[3], c[4])
bdd_relnext(a, b, prev, i) == RelOf[<<a, b, prev, i>>]

-----------------------------------------------------------------------------
(* bdd_satcount: how many assignments to the variables in.chain from i on. *)

\* Faulty variant: the count is multiplied by the skipped variables before it
\* is put in the cache.
SatNode_CacheScaled(Sat, a, i, prev) ==
  LET j == Min({j \in i .. Len(in.chain) - 1 : in.chain[j + 1] = LevelOf(a)})
      hit == Hit(prev, LevelOf(a), "satcount", <<a, j>>)
      res == IF hit THEN Cached("satcount", <<a, j>>)
             ELSE Sat[<<node_low(a), j + 1, LevelOf(a)>>].res
                  + Sat[<<node_high(a), j + 1, LevelOf(a)>>].res
      scaled == res * 2 ^ (j - i)
  IN  IF hit THEN Answer(scaled)
      ELSE Store(scaled, prev, LevelOf(a), "satcount", <<a, j>>, scaled)

\* The code walks the chain to the level of a, and fails if there is none.
SatNode(Sat, a, i, prev) ==
  LET j == Min({j \in i .. Len(in.chain) - 1 : in.chain[j + 1] = LevelOf(a)})
      hit == Hit(prev, LevelOf(a), "satcount", <<a, j>>)
      res == IF hit THEN Cached("satcount", <<a, j>>)
             ELSE Sat[<<node_low(a), j + 1, LevelOf(a)>>].res
                  + Sat[<<node_high(a), j + 1, LevelOf(a)>>].res
      scaled == res * 2 ^ (j - i)
  IN  IF hit THEN Answer(scaled)
      ELSE Store(scaled, prev, LevelOf(a), "satcount", <<a, j>>, res)

SatStep(Sat, a, i, prev) ==
  IF IsFalse(a) THEN Answer(0)
  ELSE IF IsTrue(a) THEN Answer(2 ^ (Len(in.chain) - i))
  ELSE SatNode(Sat, a, i, prev)

SatOf[c \in Ref \X Nat \X Nat] == SatStep(SatOf, c[1], c[2], c[3])
bdd_satcount(a, i, prev) == SatOf[<<a, i, prev>>]

-----------------------------------------------------------------------------
(* driver: find the operation that a task stands for *)

Do(op, g) ==
  CASE op = "and"  -> bdd_and(g[1], g[2], 0)
    [] op = "or"   -> Answer(bdd_or(g[1], g[2]))
    [] op = "diff" -> Answer(bdd_diff(g[1], g[2]))
    [] op = "xor"  -> bdd_xor(g[1], g[2], 0)
    [] op = "ite"  -> bdd_ite(g[1], g[2], g[3], 0)
    [] op = "relnext"  -> bdd_relnext(g[1], g[2], 0, g[3])
    [] op = "satcount" -> bdd_satcount(g[1], g[2], 0)

driver ==
  /\ out = NoOutput
  /\ out' = Do(in.op, in.args)
  /\ UNCHANGED <<in, warm, swap>>

Next == driver
Spec == Init /\ [][Next]_vars

-----------------------------------------------------------------------------
(* Properties *)

Done == out # NoOutput
IsRight(op, g, r) ==
  IF op = "satcount" THEN r = Meaning(op, g, in.chain)
                     ELSE r \in Ref /\ Sem(r) = Meaning(op, g, in.chain)

\* The result of every operation means what the operation says, whichever store
\* the nodes of its operands are in, whichever operand comes first, and whichever
\* of its lookups, its own and those of its recursive calls, the cache answers.
ResultRight == Done => IsRight(in.op, in.args, out.res)

\* What an operation leaves in the cache is right for the key it is stored by: the
\* operands as they were reordered and their marks moved, and the position in the
\* chain after the skipped variables.
PutsRight == Done => \A x \in out.puts : IsRight(x.op, x.args, x.res)

\* A result is ordered and reduced.  It is the constant false exactly when it is
\* the empty set, even if the two stores both hold some of its nodes: the loop of
\* bdd_par ends on that test.
ResultReduced ==
  Done /\ in.op # "satcount" =>
    /\ WellFormed[out.res]
    /\ (Sem(out.res) = {}) <=> IsFalse(out.res)

Operands ==
  {in.args[i] : i \in 1 .. IF in.op = "ite" THEN 3 ELSE IF in.op = "relnext" THEN 1 ELSE 2}

\* Of shared operands (or shared states, for bdd_relnext) the result is the one diagram of its meaning, so that equal
\* sets have equal references.
ResultCanonical ==
  Done /\ in.op # "satcount" /\ (\A a \in Operands : AllShared[a]) =>
    out.res = Build(Meaning(in.op, in.args, in.chain))

\* bdd_ite is if-then-else for any three operands.
IteRight == Done /\ in.op = "ite" => IsRight("ite", in.args, out.res)
=============================================================================
