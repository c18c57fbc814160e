------------------------------- MODULE MCMain -------------------------------
(* Instances of Main for TLC: states over levels 0 and 2, next states 1 and 3. *)
EXTENDS Main

FileNode(l, low, high, comp) == [level |-> l, low |-> low, high |-> high, comp |-> comp]
Root(mark, value) == [mark |-> mark, value |-> value]

One == FileNode(2, 0, 0, TRUE)

\* The model of states with nodes ns and variables 0 and 2, and of one relation.
Model(ns, mark, rel, relMark, before, after) ==
  LET last == Len(ns) + Len(rel)
  IN  [nodes |-> ns \o rel,
       sections |-> <<[last |-> Len(ns), root |-> Root(mark, Len(ns)), vars |-> <<0, 2>>,
                       primed |-> << >>],
                      [last |-> last, root |-> Root(relMark, last), vars |-> before,
                       primed |-> after]>>]

\* The relation sets the variable 2, or both variables, to one.
SetOne(ns, m) ==
  Model(ns, m, <<FileNode(3, 0, 0, TRUE), FileNode(2, Len(ns) + 1, 0, FALSE)>>, FALSE, <<2>>, <<3>>)
SetBoth(ns, m) ==
  LET k == Len(ns)
  IN  Model(ns, m, <<FileNode(3, 0, 0, TRUE), FileNode(2, k + 1, k + 1, TRUE), FileNode(1, 0, k + 2, FALSE)>>,
            TRUE, <<0, 2>>, <<1, 3>>)

\* The last node of the states in all ways, also with equal edges.
Tops == {FileNode(0, low, high, comp) : low, high \in {0, 1}, comp \in BOOLEAN}
TopFiles == {SetOne(<<One, n>>, m) : n \in Tops, m \in BOOLEAN}
WideFiles == {SetBoth(<<One, n>>, FALSE) : n \in Tops}
\* More nodes than the local store has room for.
Big ==
  Model(<<One>>, FALSE,
        <<FileNode(3, 0, 0, TRUE), FileNode(2, 2, 0, FALSE), FileNode(2, 2, 2, TRUE), FileNode(1, 0, 0, TRUE),
          FileNode(1, 2, 1, FALSE), FileNode(1, 3, 4, FALSE), FileNode(0, 5, 6, FALSE), FileNode(0, 7, 6, TRUE)>>,
        FALSE, <<0, 2>>, <<1, 3>>)

\* The search makes more nodes on top of the smaller models.
Sharing == SetOne(<<One, FileNode(0, 1, 1, TRUE)>>, FALSE)
Small == SetOne(<<One>>, TRUE)
Empties == SetOne(<< >>, TRUE)

MCFiles == TopFiles \cup WideFiles \cup {Big, Sharing, Small, Empties}
MCMaxNodes(f, b) ==
  IF f = Empties /\ b = "seq" THEN 3 ELSE IF f \in {Sharing, Small, Empties} THEN 2 ELSE 0

MCLocalHash(n, s) == n.level + 2 * n.high.idx + n.low.idx + s
MCNodeHash(n, i, s) == n.level + n.high.idx + n.low.idx + s * i
=============================================================================
