----------------------------- MODULE StealingInv -----------------------------
(***************************************************************************)
(* The inductive invariant of WorkStealing, in four layers: types, stacks  *)
(* and deques; who holds an entry given away; where each task is; and      *)
(* which request slots are blocked.  Together they imply the invariants    *)
(* that WorkStealing states.                                               *)
(***************************************************************************)
EXTENDS WorkStealing

-----------------------------------------------------------------------------
(* Stacks and deques *)

Live(p) == {i \in Index : i < tail[p]}
Levels(p) == 1 .. Depth(p)

\* A frame of thread p, the k-th of its stack.
FrameOK(p, k) ==
  LET f == stack[p][k]
  IN  /\ (k = 1) <=> (f.back \in {"bar2", "part"})
      /\ f.back = "bar2" => p = Master
      /\ k = 1 => f.base = 0
      /\ (f.addr # NoAddr) <=> (f.back \in StealBack)
      /\ f.base <= tail[p]
      /\ f.back \in {"leap", "sweep"} => f.base <= head[p]

\* A frame and one above it.
Above(f, g) ==
  /\ f.base <= g.base
  /\ g.back \in {"leap", "sweep"} => f.base < g.base

StackOK(p) ==
  /\ (stack[p] # << >>) <=> (pc[p] \in Busy)
  /\ \A k \in Levels(p) : FrameOK(p, k)
  /\ \A j, k \in Levels(p) : j < k => Above(stack[p][j], stack[p][k])

\* What the location of a thread says of its counters.
LocationOK(p) ==
  /\ head[p] <= tail[p]
  /\ stack[p] = << >> => tail[p] = 0
  /\ pc[p] \in {"sync", "leap", "sweep"} => Top(p).base < tail[p]
  /\ pc[p] \in {"leap", "sweep"} => head[p] = tail[p]
  /\ pc[p] = "wb" => tail[p] = Top(p).base /\ Top(p).addr # NoAddr
  /\ put[p] => pc[p] = "wb"
  /\ trying[p] # "no" => pc[p] \in StealBack
  /\ poll[p] # 0 => pc[p] \in Busy \cup {"part"}

\* The entries in use: those given away come first, the others are fresh.
EntryOK(p, i) ==
  /\ deque[p][i].task \in Task
  /\ (deque[p][i].thief # Nobody) <=> (i < head[p])
  /\ head[p] <= i => ~deque[p][i].done
DequeOK(p) == \A i \in Live(p) : EntryOK(p, i)

ShapeInv == TypeOK /\ \A p \in Thread : StackOK(p) /\ LocationOK(p) /\ DequeOK(p)

\* The entry was given away and is not done yet.
Given(a) == a[2] < head[a[1]] /\ ~At(a).done

\* With these, HeldOnce is inductive.
FramesFinite == \A a \in Addr : IsFiniteSet(InFrame(a))
HoldInv == ShapeInv /\ FramesFinite /\ HeldOnce

-----------------------------------------------------------------------------
(* Tasks *)

LiveEntries == {a \in Addr : a[2] < tail[a[1]]}

\* The thread has finished the task of its k-th frame, and is writing it back.
Ended(p, k) == pc[p] = "wb" /\ k = Depth(p)

\* Tasks are numbered in the order of their creation.
FreshOK ==
  \A t \in Task :
    /\ status[t] = "none" <=> nextTask <= t
    /\ nextTask <= t => parent[t] = NoTask
    /\ parent[t] # NoTask => parent[t] < t

\* A task is in at most one entry and at most one frame, and in both only when
\* the frame runs the entry.
EntriesApart == \A a, b \in LiveEntries : At(a).task = At(b).task => a = b
FramesApart ==
  \A p, q \in Thread : \A j \in Levels(p), k \in Levels(q) :
    stack[p][j].task = stack[q][k].task => p = q /\ j = k
FramesRun ==
  \A p \in Thread : \A k \in Levels(p) : \A a \in LiveEntries :
    stack[p][k].task = At(a).task <=> stack[p][k].addr = a

\* The status of a task follows from its place.
FrameStatus ==
  \A p \in Thread : \A k \in Levels(p) :
    status[stack[p][k].task] = IF Ended(p, k) THEN "finished" ELSE "running"
EntryStatus ==
  \A a \in LiveEntries :
    IF a \in doneFlight \/ At(a).done
      THEN status[At(a).task] = "finished" /\ At(a).out = At(a).task
      ELSE InFrame(a) = {} => status[At(a).task] = "ready"

\* What was copied to a thief, and what it writes back.
CellCopies ==
  \A p \in Thread : sem[p] > 0 /\ cell[p] # Refused => cell[p].task = At(cell[p].addr).task
OutWritten ==
  \A p \in Thread : pc[p] = "wb" /\ ~put[p] => At(Top(p).addr).out = Running(p)

\* The k-th frame of p is the one that spawned the entry at index i.
Between(p, k, i) ==
  /\ stack[p][k].base <= i
  /\ k < Depth(p) => i < stack[p][k + 1].base
EntryFamily ==
  \A a \in LiveEntries : \E k \in Levels(a[1]) :
    Between(a[1], k, a[2]) /\ parent[At(a).task] = stack[a[1]][k].task
FrameFamily ==
  \A p \in Thread : \A k \in Levels(p) :
    stack[p][k].addr = NoAddr =>
      parent[stack[p][k].task] = IF k = 1 THEN NoTask ELSE stack[p][k - 1].task

\* No task is lost.
Alive(t) == status[t] \in {"ready", "running", "finished"}
InEntry(t) == \E a \in LiveEntries : At(a).task = t
InCall(t) == \E p \in Thread : \E k \in Levels(p) :
               stack[p][k].task = t /\ stack[p][k].addr = NoAddr
Located == \A t \in Task : Alive(t) => InEntry(t) \/ InCall(t)

\* Without its root on the master's stack, a round has no task.
MasterOK ==
  pc[Master] # "part" /\ \A k \in Levels(Master) : stack[Master][k].back # "part"
RootOK == stack[Master] = << >> => \A t \in Task : ~Alive(t)

TaskInv ==
  /\ FreshOK /\ EntriesApart /\ FramesApart /\ FramesRun
  /\ FrameStatus /\ EntryStatus /\ CellCopies /\ OutWritten
  /\ EntryFamily /\ FrameFamily /\ Located /\ MasterOK /\ RootOK

-----------------------------------------------------------------------------
(* Requests *)

Visited(p) == {s \in Slot : poll[p] = 0 \/ s < poll[p]}
BlockedInv ==
  \A p \in Thread :
    /\ Waiting(p) => poll[p] = 0
    /\ trying[p] # "no" => \A s \in Visited(p) : request[p][s] = Block

\* A slot that is not blocked after a poll shows that there is work.
Restful == {"leap", "sweep", "part", "wb", "bar2", "end"}
OpenOK(p) ==
  /\ pc[p] \notin Restful /\ ~(pc[p] = "start" /\ epoch[p] > 0)
  /\ pc[p] = "sync" => head[p] + Threshold <= tail[p] + 1
  /\ \A k \in Levels(p) : stack[p][k].back # "run" =>
       stack[p][k].base + Threshold <= IF pc[p] = "sync" THEN tail[p] ELSE tail[p] + 1
QuietInv ==
  \A p \in Thread : \A s \in Visited(p) : request[p][s] # Block => OpenOK(p)
=============================================================================
