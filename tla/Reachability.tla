---------------------------- MODULE Reachability ----------------------------
(***************************************************************************)
(* The search of bdd_par: from the initial states, level by level, until a *)
(* level has no new states; then main counts what it found.  One level is  *)
(* a task of bdd_go_par, which splits the relations in two halves, spawns  *)
(* one, calls the other and joins the results.                             *)
(*                                                                         *)
(* A diagram is the set of states that it means (BddOps), and a spawned    *)
(* task is run at any time before its join, by any thread (WorkStealing):  *)
(* the tasks of a level interleave here in every order.                    *)
(***************************************************************************)
EXTENDS Naturals, FiniteSets

CONSTANTS
  State,
  NextCount,   \* number of partitions of the transition relation
  Models       \* what read_model may load: [states, next]

Index == 0 .. NextCount - 1

\* With no relation at all, bdd_go_par splits 0 into 0 and 0 without end.
ASSUME NextCountAssumption == NextCount \in Nat \ {0}
ASSUME StateAssumption == IsFiniteSet(State)
ASSUME ModelsAssumption ==
  Models \subseteq [states : SUBSET State, next : [Index -> SUBSET (State \X State)]]

VARIABLES
  model,     \* the model, not changed after it is loaded
  pc,        \* of bdd_par and main: "loop", "level", "count" or "end"
  visited,
  new,
  counter,
  status,    \* of each task of the level: "none", "ready", "waits" or "done"
  res,       \* its result once it is done
  count

vars == <<model, pc, visited, new, counter, status, res, count>>

-----------------------------------------------------------------------------
(* bdd_go_par: the task <<from, len>> is about len relations from `from' on *)

Task == {t \in Index \X (1 .. NextCount) : t[1] + t[2] <= NextCount}
Root == <<0, NextCount>>

HalfUp(len) == (len + 1) \div 2

\* Faulty variant: both halves are rounded down.
Left_RoundsDown(t) == <<t[1], t[2] \div 2>>

\* The first half has the odd relation.
Left(t)  == <<t[1], HalfUp(t[2])>>
Right(t) == <<t[1] + HalfUp(t[2]), t[2] \div 2>>

Image(A, R) == {y \in State : \E x \in A : <<x, y>> \in R}

\* Faulty variant: the states that were visited before are not removed.
GoLeaf_KeepsVisited(t) ==
  /\ status[t] = "ready" /\ t[2] = 1
  /\ res' = [res EXCEPT ![t] = Image(new, model.next[t[1]])]
  /\ status' = [status EXCEPT ![t] = "done"]
  /\ UNCHANGED <<model, pc, visited, new, counter, count>>

\* One relation: its successors of the current level that are not yet visited.
GoLeaf(t) ==
  /\ status[t] = "ready" /\ t[2] = 1
  /\ res' = [res EXCEPT ![t] = Image(new, model.next[t[1]]) \ visited]
  /\ status' = [status EXCEPT ![t] = "done"]
  /\ UNCHANGED <<model, pc, visited, new, counter, count>>

\* Faulty variant: the first half is never spawned.
GoSplit_NoSpawn(t) ==
  /\ status[t] = "ready" /\ t[2] # 1
  /\ status' = [status EXCEPT ![t] = "waits", ![Right(t)] = "ready"]
  /\ UNCHANGED <<model, pc, visited, new, counter, res, count>>

\* More relations: spawn one half, call the other.
GoSplit(t) ==
  /\ status[t] = "ready" /\ t[2] # 1
  /\ status' = [status EXCEPT ![t] = "waits", ![Left(t)] = "ready", ![Right(t)] = "ready"]
  /\ UNCHANGED <<model, pc, visited, new, counter, res, count>>

\* The call has returned and the spawned half is joined.
GoJoin(t) ==
  /\ status[t] = "waits"
  /\ status[Left(t)] = "done" /\ status[Right(t)] = "done"
  /\ res' = [res EXCEPT ![t] = res[Left(t)] \cup res[Right(t)]]
  /\ status' = [status EXCEPT ![t] = "done", ![Left(t)] = "none", ![Right(t)] = "none"]
  /\ UNCHANGED <<model, pc, visited, new, counter, count>>

-----------------------------------------------------------------------------
(* bdd_par, and the two computations of main *)

Init ==
  /\ model \in Models
  /\ pc = "loop"
  /\ visited = model.states
  /\ new = model.states
  /\ counter = 1
  /\ status = [t \in Task |-> "none"]
  /\ res = [t \in Task |-> {}]
  /\ count = 0

StartLevel ==
  /\ pc = "loop"
  /\ counter' = counter + 1
  /\ status' = [status EXCEPT ![Root] = "ready"]
  /\ pc' = "level"
  /\ UNCHANGED <<model, visited, new, res, count>>

\* The level is done: add its states, and go on if there were any.
EndLevel ==
  /\ pc = "level" /\ status[Root] = "done"
  /\ new' = res[Root]
  /\ visited' = visited \cup new'
  /\ status' = [status EXCEPT ![Root] = "none"]
  /\ pc' = IF new' # {} THEN "loop" ELSE "count"
  /\ UNCHANGED <<model, counter, res, count>>

\* The second computation of main: bdd_satcount of the result.
CountStates ==
  /\ pc = "count"
  /\ count' = Cardinality(visited)
  /\ pc' = "end"
  /\ UNCHANGED <<model, visited, new, counter, status, res>>

Next ==
  \/ \E t \in Task : GoLeaf(t) \/ GoSplit(t) \/ GoJoin(t)
  \/ StartLevel \/ EndLevel \/ CountStates

Spec == Init /\ [][Next]_vars

\* Every task is run and joined in the end (Termination of WorkStealing).
FairSpec == Spec /\ WF_vars(Next)

-----------------------------------------------------------------------------
(* Properties *)

TypeOK ==
  /\ model \in Models
  /\ pc \in {"loop", "level", "count", "end"}
  /\ visited \in SUBSET State /\ new \in SUBSET State
  /\ counter \in Nat /\ count \in Nat
  /\ status \in [Task -> {"none", "ready", "waits", "done"}]
  /\ res \in [Task -> SUBSET State]

Closed(C) == \A i \in Index : Image(C, model.next[i]) \subseteq C

\* When the search has ended, what it found is the least set that has the initial
\* states and is closed under every relation, in whatever order the tasks of its
\* levels were run.
FindsReachable ==
  pc \in {"count", "end"} =>
    /\ model.states \subseteq visited
    /\ Closed(visited)
    /\ \A C \in SUBSET State : model.states \subseteq C /\ Closed(C) => visited \subseteq C

\* The states at distance at most n from the initial ones.
Within[n \in Nat] ==
  IF n = 0 THEN model.states
  ELSE Within[n - 1] \cup UNION {Image(Within[n - 1], model.next[i]) : i \in Index}

\* The search goes breadth first: before level n it has all states at a distance
\* below n, and expands precisely those at distance n - 1, each state in one level
\* only.
LevelsExact ==
  pc = "loop" =>
    /\ visited = Within[counter - 1]
    /\ new = IF counter = 1 THEN model.states
             ELSE Within[counter - 1] \ Within[counter - 2]

\* The search ends: no order of tasks makes a level wait forever or a state count as
\* new in every level.
SearchEnds == <>(pc = "end")
=============================================================================
