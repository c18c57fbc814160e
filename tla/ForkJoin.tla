------------------------------ MODULE ForkJoin ------------------------------
(***************************************************************************)
(* What the scheduler promises to the decision diagram operations built on *)
(* it: a task is created by a running task (or is a root), is executed     *)
(* exactly once, finishes only when all its children were joined, and is   *)
(* joined exactly once, by the running task that created it.               *)
(***************************************************************************)
EXTENDS Naturals

CONSTANTS Task,
          NoTask    \* not a task: the parent of a root

VARIABLES status, parent

fjVars == <<status, parent>>

Init ==
  /\ status = [t \in Task |-> "none"]
  /\ parent = [t \in Task |-> NoTask]

Set(t, from, to) ==
  /\ status[t] = from
  /\ status' = [status EXCEPT ![t] = to]

ChildrenJoined(t) == \A c \in Task : parent[c] = t => status[c] = "joined"

ParentRuns(t) == parent[t] \in Task /\ status[parent[t]] = "running"

Born(t, par) ==
  /\ par \in Task => status[par] = "running"
  /\ parent' = [parent EXCEPT ![t] = par]

\* One root at a time: a new one only when every earlier task is joined.
Root(t) ==
  /\ \A u \in Task : status[u] \in {"none", "joined"}
  /\ Set(t, "none", "running")
  /\ Born(t, NoTask)

Spawn(t) == Set(t, "none", "ready") /\ \E par \in Task : Born(t, par)
Call(t) == Set(t, "none", "running") /\ \E par \in Task : Born(t, par)
Start(t) == Set(t, "ready", "running") /\ ParentRuns(t) /\ UNCHANGED parent
Finish(t) == Set(t, "running", "finished") /\ ChildrenJoined(t) /\ UNCHANGED parent
Join(t) == Set(t, "finished", "joined") /\ ParentRuns(t) /\ UNCHANGED parent

\* A task that its creator runs itself finishes and is joined at once.
Return(t) ==
  /\ Set(t, "running", "joined")
  /\ ChildrenJoined(t)
  /\ parent[t] = NoTask \/ ParentRuns(t)
  /\ UNCHANGED parent

Next == \E t \in Task :
  Root(t) \/ Spawn(t) \/ Call(t) \/ Start(t) \/ Finish(t) \/ Join(t) \/ Return(t)

Spec == Init /\ [][Next]_fjVars
=============================================================================
