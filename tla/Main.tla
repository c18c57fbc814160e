--------------------------------- MODULE Main ---------------------------------
(***************************************************************************)
(* The program from end to end: main.c, with the loader, the chains of     *)
(* variables, the node count, and the stores that they leave behind for    *)
(* the search.                                                             *)
(*                                                                         *)
(* Every thread reads the whole model into its own local store.  Thread 0  *)
(* then counts the nodes of what it read, by marking them.  At a barrier   *)
(* the search begins: tasks make nodes in the shared table from references *)
(* they hold, on whatever thread they run, and hand them to others.  At    *)
(* last thread 0 counts the nodes of the result.                           *)
(*                                                                         *)
(* A file has nodes [level, low, high, comp], whose edges are the numbers  *)
(* of earlier nodes or 0, and sections, of the initial states and of each  *)
(* relation: the number of its last node, a root [mark, value], and the    *)
(* variables before and after a step.                                      *)
(***************************************************************************)
EXTENDS LocalStore, SeqTable, Integers, SequencesExt

CONSTANTS
  NThreads,   \* THREADS
  DataSize,   \* HTABLE_SIZE
  NVars,      \* the levels are 0 .. NVars - 1
  Files,      \* the models
  Seeds,      \* one for each hash function
  Builds,     \* "par" (compile.sh), "seq" (compile_seq.sh)
  MadeLevels, \* bound: the levels of the nodes that the search makes
  MaxNodes(_, _)  \* bound: how many it makes for a file, in a build

ASSUME MainAssumption ==
  /\ NThreads \in Nat \ {0}
  /\ DataSize \in Nat \ {0}
  /\ TableSize = NThreads * DataSize
  /\ NVars \in Nat
  /\ MadeLevels \subseteq 0 .. NVars - 1
  /\ Builds \subseteq {"par", "seq"}
  /\ \A f \in Files, b \in Builds : MaxNodes(f, b) \in Nat

Thread == 0 .. NThreads - 1
Level == 0 .. NVars - 1

Ref == [mark : BOOLEAN, local : BOOLEAN, idx : LocalIndex \cup (0 .. TableSize - 1)]
Node == [level : Level, low : Ref, high : Ref, data : BOOLEAN]

ASSUME EntryAssumption ==
  /\ None \notin Node
  /\ Empty \notin Nat
  /\ \A n \in Node, s \in Seeds :
       LocalHash(n, s) \in Nat /\ \A i \in 1 .. Attempts : NodeHash(n, i, s) \in Nat

\* A file as a diagram package writes it: children before and deeper than their
\* parents, the root of a section among the nodes so far, and as many variables
\* after a step as before it, or none.
WellWritten(f) ==
  LET last(i) == IF i = 0 THEN 0 ELSE f.sections[i].last
  IN  /\ f.nodes \in Seq([level : Level, low : Nat, high : Nat, comp : BOOLEAN])
      /\ \A k \in 1 .. Len(f.nodes) : \A child \in {f.nodes[k].low, f.nodes[k].high} :
           child < k /\ (child # 0 => f.nodes[k].level < f.nodes[child].level)
      /\ f.sections \in Seq([last : Nat, root : [mark : BOOLEAN, value : Nat],
                             vars : Seq(Level), primed : Seq(Level)])
      /\ \A i \in 1 .. Len(f.sections) :
           LET s == f.sections[i]
           IN  /\ last(i - 1) <= s.last
               /\ s.root.value <= s.last
               /\ Len(s.primed) \in {0, Len(s.vars)}
      /\ f.sections # << >>
      /\ last(Len(f.sections)) = Len(f.nodes)
ASSUME FileAssumption == \A f \in Files : WellWritten(f)

VARIABLES
  file, seed, build,  \* the input, the hash functions and the build
  pc,        \* per thread: load, mark, unmark, compute, search, finish
  refs,      \* per thread: ser_reversed_set, the reference of each number
  roots,     \* per thread: states and next, as [bdd, chain]
  store,     \* per thread: localstore
  index,     \* the buckets of the sequential table
  data,      \* the data array of the shared table
  used,      \* per thread: data_i
  flight,    \* the puts of nodes under way (a bag)
  todo,      \* thread 0: the calls of the node count still to make
  item,      \* thread 0: the diagram it counts
  count,     \* thread 0: the nodes counted so far
  printed,   \* history: the counts that were printed, as [bdd, count]
  late,      \* history: a put had not arrived when it was relied on
  held,      \* the references that tasks hold, as [ref, sem]; sem is history
  result,    \* thread 0: the diagram that the search returned
  full       \* the program gave up for lack of room

loadVars   == <<refs, roots>>
countVars  == <<todo, item, count, printed, result>>
tableVars  == <<index, data, used>>
inputVars  == <<file, seed, build>>
vars == <<inputVars, pc, loadVars, store, tableVars, flight, countVars, late, held, full>>

Init ==
  /\ file \in Files /\ seed \in Seeds /\ build \in Builds
  /\ pc = [p \in Thread |-> "load"]
  /\ refs = [p \in Thread |-> << >>]
  /\ roots = [p \in Thread |-> << >>]
  /\ store = [p \in Thread |-> [i \in LocalIndex |-> None]]
  /\ index = [b \in 0 .. TableSize - 1 |-> Empty]
  /\ data = [i \in 0 .. TableSize - 1 |-> None]
  /\ used = [p \in Thread |-> 1]
  /\ flight = EmptyBag
  /\ todo = << >> /\ item = 0 /\ count = 0 /\ printed = << >>
  /\ late = FALSE
  /\ held = {}
  /\ result = bdd_false
  /\ full = FALSE

\* The node of a reference, as thread p sees it.
NodeAt(p, a) == IF a.local THEN store[p][a.idx] ELSE data[a.idx]
LevelAt(p, a) == IF IsConst(a) THEN NVars ELSE NodeAt(p, a).level

\* A call of the node count, and its return after those it makes itself.
Visit(a) == [ref |-> a, leaving |-> FALSE]
Leave(a) == [ref |-> a, leaving |-> TRUE]

-----------------------------------------------------------------------------
(* read_model *)

\* Faulty variant: the mark of a value is not given to the reference.
GetReversed_Unmarked(rs, mark, value) ==
  IF value = 0 THEN [bdd_false EXCEPT !.mark = mark] ELSE rs[value]

\* serialize_get_reversed of a mark and a number, when the numbers have references rs.
GetReversed(rs, mark, value) ==
  IF value = 0 THEN [bdd_false EXCEPT !.mark = mark]
  ELSE bdd_transfermark([mark |-> mark], rs[value])

\* The children of a node of the file, and the node to make of them.
Low(rs, n)  == GetReversed(rs, FALSE, n.low)
High(rs, n) == LET high == GetReversed(rs, FALSE, n.high)
               IN  IF n.comp THEN [high EXCEPT !.mark = TRUE] ELSE high
NodeFrom(rs, n) == NodeOf(n.level, Low(rs, n), High(rs, n))

\* The nodes are numbered through all sections.
Section(p) == file.sections[Len(roots[p]) + 1]
Reading(p) == pc[p] = "load" /\ Len(refs[p]) < Section(p).last
Read(p) == file.nodes[Len(refs[p]) + 1]

\* The next number is that of reference a.
Assign(p, a) ==
  /\ refs' = [refs EXCEPT ![p] = Append(@, a)]
  /\ UNCHANGED <<inputVars, pc, roots, tableVars, flight, countVars, late, held, full>>

\* One round of serialize_fromfile: both children are the same.
ReadEqual(p) ==
  /\ Reading(p)
  /\ Low(refs[p], Read(p)) = High(refs[p], Read(p))
  /\ Assign(p, Low(refs[p], Read(p)))
  /\ UNCHANGED store

\* Another: find the node in the local store or put it there.
ReadPut(p) ==
  LET node == NodeFrom(refs[p], Read(p))
      i == LocalPlace(store[p], node, seed)
  IN  /\ Reading(p)
      /\ Low(refs[p], Read(p)) # High(refs[p], Read(p))
      /\ LocalRoom(store[p], node, seed)
      /\ store' = [store EXCEPT ![p][i] = node]
      /\ Assign(p, Reference(Low(refs[p], Read(p)), TRUE, i))

\* The local store is full: exit.
ReadFull(p) ==
  /\ Reading(p)
  /\ Low(refs[p], Read(p)) # High(refs[p], Read(p))
  /\ ~LocalRoom(store[p], NodeFrom(refs[p], Read(p)), seed)
  /\ full' = TRUE
  /\ UNCHANGED <<inputVars, pc, loadVars, store, tableVars, flight, countVars, late, held>>

\* Take turns, and then what is left.
interleave_chains[c \in Seq(Level) \X Seq(Level)] ==
  IF c[1] = << >> THEN c[2] ELSE <<Head(c[1])>> \o interleave_chains[<<c[2], Tail(c[1])>>]

\* The end of set_load or rel_load: the diagram, and the chain of its variables.
Loaded(rs, s) ==
  [bdd |-> GetReversed(rs, s.root.mark, s.root.value),
   chain |-> interleave_chains[<<s.vars, s.primed>>]]

\* After the last section thread 0 begins to count.
EndSection(p) ==
  /\ pc[p] = "load"
  /\ Len(refs[p]) >= Section(p).last
  /\ roots' = [roots EXCEPT ![p] = Append(@, Loaded(refs[p], Section(p)))]
  /\ IF Len(roots'[p]) = Len(file.sections)
     THEN /\ pc' = [pc EXCEPT ![p] = IF p = 0 THEN "mark" ELSE "compute"]
          /\ IF p = 0 THEN todo' = <<Visit(roots'[0][1].bdd)>> /\ item' = 1
             ELSE UNCHANGED <<todo, item>>
     ELSE UNCHANGED <<pc, todo, item>>
  /\ UNCHANGED <<inputVars, refs, store, tableVars, flight, count, printed, result, late, held, full>>

Load(p) == ReadEqual(p) \/ ReadPut(p) \/ ReadFull(p) \/ EndSection(p)

-----------------------------------------------------------------------------
(* bdd_nodecount, by thread 0: bdd_nodecount_do_1 marks, _do_2 unmarks *)

Counting == pc[0] \in {"mark", "unmark"}
Visiting == Counting /\ todo # << >> /\ ~Head(todo).leaving
Here == Head(todo).ref

\* A put to the node of a is under way: to read it now, or to leave the call
\* whose local variable is the source of the put, is to run ahead of it.
InFlight(a) == ~a.local /\ \E x \in BagToSet(flight) : x.idx = a.idx
Relying(a) == late' = (late \/ InFlight(a))

VisitConst ==
  /\ Visiting
  /\ IsConst(Here)
  /\ todo' = Tail(todo)
  /\ UNCHANGED <<inputVars, pc, loadVars, store, tableVars, flight, item, count, printed, result, late, held, full>>

\* Faulty variant: marked nodes are counted again.
Ready_Always(n) == pc[0] = "mark" \/ n.data

\* The node has yet to be marked, or to be unmarked.
Ready(n) == n.data = (pc[0] = "unmark")

\* Faulty variant: the call returns to itself.
VisitSkip_Stays ==
  /\ Visiting /\ ~IsConst(Here)
  /\ ~Ready(NodeAt(0, Here))
  /\ Relying(Here)
  /\ UNCHANGED <<inputVars, pc, loadVars, store, tableVars, flight, countVars, held, full>>

VisitSkip ==
  /\ Visiting /\ ~IsConst(Here)
  /\ ~Ready(NodeAt(0, Here))
  /\ Relying(Here)
  /\ todo' = Tail(todo)
  /\ UNCHANGED <<inputVars, pc, loadVars, store, tableVars, flight, item, count, printed, result, held, full>>

\* localstore_set_data and htable_set_data.  The put of htable_lp.c is not waited
\* for, there or later; that of htable.c is.
SetData(a, n) ==
  \/ /\ a.local
     /\ store' = [store EXCEPT ![0][a.idx] = n]
     /\ UNCHANGED <<data, flight>>
  \/ /\ ~a.local /\ build = "seq"
     /\ data' = [data EXCEPT ![a.idx] = n]
     /\ UNCHANGED <<store, flight>>
  \/ /\ ~a.local /\ build = "par"
     /\ flight' = flight (+) SetToBag({[idx |-> a.idx, node |-> n]})
     /\ UNCHANGED <<store, data>>

\* Faulty variant: only the low edges are followed when marks are removed.
Calls_LowOnly(n) ==
  IF pc[0] = "mark" THEN <<Visit(n.low), Visit(n.high)>> ELSE <<Visit(n.low)>>

\* The calls for the two edges, in order.
Calls(n) == <<Visit(n.low), Visit(n.high)>>

VisitNode ==
  /\ Visiting /\ ~IsConst(Here)
  /\ LET n == NodeAt(0, Here)
     IN  /\ Ready(n)
         /\ SetData(Here, [n EXCEPT !.data = (pc[0] = "mark")])
         /\ todo' = Calls(n) \o <<Leave(Here)>> \o Tail(todo)
  /\ Relying(Here)
  /\ count' = IF pc[0] = "mark" THEN count + 1 ELSE count
  /\ UNCHANGED <<inputVars, pc, loadVars, index, used, item, printed, result, held, full>>

Return ==
  /\ Counting /\ todo # << >> /\ Head(todo).leaving
  /\ Relying(Here)
  /\ todo' = Tail(todo)
  /\ UNCHANGED <<inputVars, pc, loadVars, store, tableVars, flight, item, count, printed, result, held, full>>

\* The diagrams that are counted: those loaded, and after the search the result.
Diagram(i) == IF i <= Len(file.sections) THEN roots[0][i].bdd ELSE result

Marked ==
  /\ pc[0] = "mark" /\ todo = << >>
  /\ pc' = [pc EXCEPT ![0] = "unmark"]
  /\ todo' = <<Visit(Diagram(item))>>
  /\ UNCHANGED <<inputVars, loadVars, store, tableVars, flight, item, count, printed, result, late, held, full>>

\* The count is printed; the next one begins.
Unmarked ==
  /\ pc[0] = "unmark" /\ todo = << >>
  /\ printed' = Append(printed, [bdd |-> Diagram(item), count |-> count])
  /\ count' = 0
  /\ \/ /\ item < Len(file.sections)
        /\ item' = item + 1
        /\ todo' = <<Visit(Diagram(item + 1))>>
        /\ pc' = [pc EXCEPT ![0] = "mark"]
     \/ /\ item >= Len(file.sections)
        /\ pc' = [pc EXCEPT ![0] = IF item = Len(file.sections) THEN "compute" ELSE "finish"]
        /\ UNCHANGED <<item, todo>>
  /\ UNCHANGED <<inputVars, loadVars, store, tableVars, flight, result, late, held, full>>

NodeCount == VisitConst \/ VisitSkip \/ VisitNode \/ Return \/ Marked \/ Unmarked

\* The network completes a put.
LandPut(x) ==
  /\ data' = [data EXCEPT ![x.idx] = x.node]
  /\ flight' = flight (-) SetToBag({x})
  /\ UNCHANGED <<inputVars, pc, loadVars, store, index, used, countVars, late, held, full>>

-----------------------------------------------------------------------------
(* What diagrams mean: sets of assignments, each given by its true levels. *)

Env == SUBSET Level

\* Where assignment v leads from a reference, in a local store and the shared data.
At(local, shared, a) == IF a.local THEN local[a.idx] ELSE shared[a.idx]
Branch(node, a, v) == bdd_transfermark(a, IF node.level \in v THEN node.high ELSE node.low)

\* Whether a reference is true for v, which passes n nodes at most.
Walk(local, shared, v) ==
  LET walk[n \in 0 .. NVars] ==
        [a \in Ref |->
           IF n = 0 \/ IsConst(a) THEN a.mark
           ELSE walk[n - 1][Branch(At(local, shared, a), a, v)]]
  IN  walk

\* A reference, on thread p.
Sem(p, a) == {v \in Env : Walk(store[p], data, v)[NVars][a]}

\* A number of a file.
FileWalk(f, v) ==
  LET walk[value \in 0 .. Len(f.nodes)] ==
        /\ value # 0
        /\ LET n == f.nodes[value]
           IN  IF n.level \in v THEN walk[n.high] # n.comp ELSE walk[n.low]
  IN  walk
FileSem(f, mark, value) == {v \in Env : FileWalk(f, v)[value] # mark}

RootSem(f, i) == FileSem(f, f.sections[i].root.mark, f.sections[i].root.value)

\* If-then-else on a level.
Mux(l, low, high) == {v \in Env : IF l \in v THEN v \in high ELSE v \in low}

-----------------------------------------------------------------------------
(* The search, of which only the making of nodes matters here.  A task may *)
(* make any node on top of references that it, or another task, has.       *)

\* ws_compute: all threads arrive, and thread 0 begins with the states; the
\* relations are read by whichever thread runs a task.
AllArrived ==
  /\ \A p \in Thread : pc[p] = "compute"
  /\ pc' = [p \in Thread |-> "search"]
  /\ held' = {[ref |-> bdd_false, sem |-> {}]} \cup
             {[ref |-> roots[p][i].bdd, sem |-> RootSem(file, i)] : p \in Thread, i \in 1 .. Len(file.sections)}
  /\ UNCHANGED <<inputVars, loadVars, store, tableVars, flight, countVars, late, full>>

\* In the sequential build the others only wait for the end.
Worker == IF build = "seq" THEN {0} ELSE Thread

Operand == held \cup {[ref |-> bdd_not(x.ref), sem |-> Env \ x.sem] : x \in held}

\* The places of the shared table in use.
Stored == UNION {{p * DataSize + i : i \in 1 .. used[p] - 1} : p \in Thread}

\* The arguments of bdd_makenode; if both children are the same it does nothing.
MayMake(p, l, x, y) ==
  /\ pc[p] = "search" /\ p \in Worker
  /\ l < LevelAt(p, x.ref) /\ l < LevelAt(p, y.ref)
  /\ x.ref # y.ref
  /\ Cardinality(Stored) < MaxNodes(file, build)   \* bound

Made(l, x, y, i) ==
  /\ held' = held \cup {[ref |-> Reference(x.ref, FALSE, i), sem |-> Mux(l, x.sem, y.sem)]}
  /\ UNCHANGED <<inputVars, pc, loadVars, store, flight, countVars, late, full>>

\* The table of the parallel build: find-or-put in one step, as NodeTable promises.
MakeFind(p, l, x, y) ==
  /\ build = "par"
  /\ MayMake(p, l, x, y)
  /\ \E i \in Stored :
       /\ data[i] = NodeOf(l, x.ref, y.ref)
       /\ Made(l, x, y, i)
  /\ UNCHANGED tableVars

MakePut(p, l, x, y) ==
  /\ build = "par"
  /\ MayMake(p, l, x, y)
  /\ used[p] < DataSize               \* bound: the code trusts there is room
  /\ \A i \in Stored : data[i] # NodeOf(l, x.ref, y.ref)
  /\ LET i == p * DataSize + used[p]
     IN  /\ data' = [data EXCEPT ![i] = NodeOf(l, x.ref, y.ref)]
         /\ Made(l, x, y, i)
  /\ used' = [used EXCEPT ![p] = @ + 1]
  /\ UNCHANGED index

\* The table of the sequential build.  The node is copied to place data_i before
\* it is known whether it is new.
MakeSeq(l, x, y) ==
  LET node == NodeOf(l, x.ref, y.ref)
      b == SeqBucket(index, data, node, seed)
  IN  /\ build = "seq"
      /\ MayMake(0, l, x, y)
      /\ used[0] < TableSize          \* bound: the code trusts there is room
      /\ SeqRoom(index, data, node, seed)
      /\ data' = [data EXCEPT ![used[0]] = node]
      /\ IF index[b] = Empty
         THEN /\ index' = [index EXCEPT ![b] = used[0]]
              /\ used' = [used EXCEPT ![0] = @ + 1]
         ELSE UNCHANGED <<index, used>>
      /\ Made(l, x, y, index'[b])

\* No free bucket was found: report it and end the program.
MakeFull(l, x, y) ==
  /\ build = "seq"
  /\ MayMake(0, l, x, y)
  /\ ~SeqRoom(index, data, NodeOf(l, x.ref, y.ref), seed)
  /\ full' = TRUE
  /\ UNCHANGED <<inputVars, pc, loadVars, store, tableVars, flight, countVars, late, held>>

Make ==
  \E l \in MadeLevels, x, y \in Operand :
    \/ \E p \in Thread : MakeFind(p, l, x, y) \/ MakePut(p, l, x, y)
    \/ MakeSeq(l, x, y) \/ MakeFull(l, x, y)

\* The search returns some diagram, and its tasks are gone.  Its states are
\* counted, all threads leave ws_compute, and thread 0 counts its nodes.
EndSearch ==
  /\ pc[0] = "search"
  /\ \E x \in held :
       /\ result' = x.ref
       /\ todo' = <<Visit(x.ref)>>
  /\ item' = item + 1
  /\ held' = {}
  /\ pc' = [p \in Thread |-> IF p = 0 THEN "mark" ELSE "finish"]
  /\ UNCHANGED <<inputVars, loadVars, store, tableVars, flight, count, printed, late, full>>

Finished == \A p \in Thread : pc[p] = "finish"

\* The last barrier, or exit.
Stop == (Finished \/ full) /\ UNCHANGED vars

Network == \E x \in BagToSet(flight) : LandPut(x)

Next ==
  \/ /\ ~full
     /\ \/ \E p \in Thread : Load(p)
        \/ NodeCount \/ AllArrived \/ Make \/ EndSearch \/ Network
  \/ Stop

Spec == Init /\ [][Next]_vars

\* Each thread runs; one-sided operations complete; the search ends, which
\* Reachability shows.
FairSpec ==
  /\ Spec
  /\ \A p \in Thread : WF_vars(~full /\ Load(p))
  /\ WF_vars(~full /\ NodeCount)
  /\ WF_vars(AllArrived) /\ WF_vars(~full /\ EndSearch) /\ WF_vars(Network)

-----------------------------------------------------------------------------
(* Properties *)

\* No node of the local store is at the index of the constants.
ZeroFree == \A p \in Thread : store[p][0] = None

\* While it loads and until the search is over, every diagram means on every
\* thread what the file says, number by number and for the roots, whatever marks
\* the references have; and its chain has the variables before and after a step
\* in turn.  A node at index 0 would break this.
LoadedRight ==
  \A p \in Thread : item <= Len(file.sections) =>
    /\ store[p][0] = None =>
         /\ \A n \in 1 .. Len(refs[p]) : Sem(p, refs[p][n]) = FileSem(file, FALSE, n)
         /\ \A i \in 1 .. Len(roots[p]) : Sem(p, roots[p][i].bdd) = RootSem(file, i)
    /\ \A i \in 1 .. Len(roots[p]) :
         LET s == file.sections[i]
             chain == roots[p][i].chain
         IN  IF s.primed = << >> THEN chain = s.vars
             ELSE /\ Len(chain) = 2 * Len(s.vars)
                  /\ \A j \in 1 .. Len(s.vars) :
                       chain[2 * j - 1] = s.vars[j] /\ chain[2 * j] = s.primed[j]

\* A reference that a task hands on means the same on every thread, which has
\* its own local store, and what it was made for, in both builds.
MadeRight == ZeroFree => \A x \in held, p \in Thread : Sem(p, x.ref) = x.sem

\* Two references into the shared table alone are equal if they mean the same.
\* (A local node may be at index 0; a reference to it does not count as shared.)
SharedOnly ==
  UNION {S \in SUBSET Stored :
           \A i \in S : \A a \in {data[i].low, data[i].high} : ~a.local /\ a.idx \in S \cup {0}}
AllShared(a) == ~a.local /\ a.idx \in SharedOnly \cup {0}
SharedCanonical ==
  \A x, y \in Operand :
    AllShared(x.ref) /\ AllShared(y.ref) /\ x.sem = y.sem => x.ref = y.ref

\* The nodes at most so many steps below a reference; those on thread 0.
Place(a) == [local |-> a.local, idx |-> a.idx]
Reach(local, shared) ==
  LET reach[n \in 0 .. NVars] ==
        [a \in Ref |->
           IF n = 0 \/ IsConst(a) THEN {}
           ELSE LET node == At(local, shared, a)
                IN  {Place(a)} \cup reach[n - 1][node.low] \cup reach[n - 1][node.high]]
  IN  reach
Below(a) == Reach(store[0], data)[NVars][a]

\* When the counts are done, each is the number of nodes of its diagram, once
\* each although many paths lead to it, in one store and the other, provided that
\* no put was overtaken.
CountRight ==
  ~late /\ pc[0] \in {"compute", "finish"} =>
    \A i \in 1 .. Len(printed) : printed[i].count = Cardinality(Below(printed[i].bdd))

\* A mark that is left makes a node differ from its equals: while nodes are made,
\* and when the program ends, no node is marked, on the same proviso.
NoMarks ==
  ~late /\ (pc[0] \in {"search", "finish"}) /\ flight = EmptyBag =>
    /\ \A p \in Thread, i \in LocalIndex : store[p][i] = None \/ ~store[p][i].data
    /\ \A i \in Stored : ~data[i].data

\* The program ends: regularly, or for lack of room.
Ends == <>(Finished \/ full)
=============================================================================
