------------------------------ MODULE TaskProofs ------------------------------
(***************************************************************************)
(* Theorems about the tasks of WorkStealing: every task is run once, a     *)
(* join delivers its result, and the scheduler implements ForkJoin.        *)
(***************************************************************************)
EXTENDS DequeProofs, WellFoundedInduction

-----------------------------------------------------------------------------
(* What the invariants say of one frame and of one entry *)

LEMMA FrameFacts ==
  ASSUME ShapeInv, NEW p \in Thread, NEW k \in Levels(p)
  PROVE  /\ stack[p][k] \in Frame /\ stack[p][k].task \in Task
         /\ stack[p][k].base \in Nat /\ stack[p][k].addr \in Addr \cup {NoAddr}
         /\ k \in Nat /\ 1 <= k /\ k <= Depth(p) /\ Depth(p) \in Nat
         /\ FrameOK(p, k)
<1>1. stack[p][k] \in Frame /\ Depth(p) \in Nat
  BY StackFacts DEF ShapeInv, TypeOK, StackType
<1>2. /\ stack[p][k].task \in Task /\ stack[p][k].base \in Nat
      /\ stack[p][k].addr \in Addr \cup {NoAddr}
  BY <1>1 DEF Frame
<1>3. k \in Nat /\ 1 <= k /\ k <= Depth(p)
  BY <1>1 DEF Levels
<1> QED
  BY <1>1, <1>2, <1>3 DEF ShapeInv, StackOK

LEMMA EntryFacts ==
  ASSUME ShapeInv, NEW a \in LiveEntries
  PROVE  /\ a \in Addr /\ a[1] \in Thread /\ a[2] \in Index /\ a[2] \in Nat
         /\ a = <<a[1], a[2]>> /\ a[2] < tail[a[1]] /\ tail[a[1]] \in Nat
         /\ At(a) \in Entry /\ At(a).task \in Task /\ EntryOK(a[1], a[2])
<1>1. /\ a \in Addr /\ a[1] \in Thread /\ a[2] \in Index /\ a[2] \in Nat
      /\ a = <<a[1], a[2]>> /\ a[2] < tail[a[1]]
  BY DEF LiveEntries, Addr, Index
<1>2. EntryOK(a[1], a[2]) /\ tail[a[1]] \in Nat /\ At(a) \in Entry
  BY <1>1 DEF ShapeInv, DequeOK, Live, TypeOK, At
<1> QED
  BY <1>1, <1>2 DEF EntryOK, At

LEMMA GivenIn ==
  ASSUME ShapeInv, NEW a \in Addr, Given(a)
  PROVE  a \in LiveEntries
  BY GivenLive DEF LiveEntries

LEMMA TopFacts ==
  ASSUME ShapeInv, NEW p \in Thread, pc[p] \in Busy
  PROVE  /\ Depth(p) \in Levels(p) /\ Top(p) = stack[p][Depth(p)]
         /\ Running(p) = stack[p][Depth(p)].task /\ Running(p) \in Task
         /\ stack[p] # << >>
<1>1. stack[p] # << >>
  BY DEF ShapeInv, StackOK
<1>2. Depth(p) \in Levels(p)
  BY <1>1, StackFacts DEF ShapeInv, TypeOK, StackType
<1> QED
  BY <1>1, <1>2, FrameFacts DEF Top, Running

\* The last entry of a thread that joins.
LEMMA LastFacts ==
  ASSUME ShapeInv, NEW p \in Thread, pc[p] \in {"sync", "leap", "sweep"}
  PROVE  /\ <<p, tail[p] - 1>> \in LiveEntries /\ At(<<p, tail[p] - 1>>) = Last(p)
         /\ tail[p] - 1 \in Nat /\ tail[p] \in Nat /\ Top(p).base <= tail[p] - 1
<1>0. pc[p] \in Busy
  BY DEF Busy
<1>a. Depth(p) \in Levels(p) /\ Top(p) = stack[p][Depth(p)]
  BY <1>0, TopFacts
<1>b. Top(p).base \in Nat
  BY <1>a, FrameFacts
<1>c. Top(p).base < tail[p]
  BY DEF ShapeInv, LocationOK
<1>d. tail[p] \in Nat /\ tail[p] <= DequeSize
  BY BoundAssumption DEF ShapeInv, TypeOK
<1>1. /\ Top(p).base \in Nat /\ Top(p).base < tail[p] /\ tail[p] \in Nat /\ tail[p] <= DequeSize
  BY <1>b, <1>c, <1>d
<1>2. tail[p] - 1 \in Nat /\ Top(p).base <= tail[p] - 1 /\ tail[p] - 1 < tail[p]
      /\ tail[p] - 1 \in Index
  BY <1>1, BoundAssumption DEF Index
<1> QED
  BY <1>1, <1>2 DEF LiveEntries, Addr, At, Last

LEMMA FrameAlive ==
  ASSUME ShapeInv, FrameStatus, NEW p \in Thread, NEW k \in Levels(p)
  PROVE  /\ status[stack[p][k].task] \in {"running", "finished"}
         /\ Alive(stack[p][k].task)
         /\ pc[p] # "wb" \/ k # Depth(p) => status[stack[p][k].task] = "running"
  BY DEF FrameStatus, Ended, Alive

LEMMA EntryAlive ==
  ASSUME HoldInv, FramesRun, FrameStatus, EntryStatus, NEW a \in LiveEntries
  PROVE  Alive(At(a).task)
<1>1. CASE a \in doneFlight \/ At(a).done \/ InFrame(a) = {}
  BY <1>1 DEF EntryStatus, Alive
<1>2. CASE InFrame(a) # {}
  <2>1. PICK p \in Thread : \E k \in Levels(p) : stack[p][k].addr = a
    BY <1>2, FrameIn
  <2>2. PICK k \in Levels(p) : stack[p][k].addr = a
    BY <2>1
  <2>3. stack[p][k].task = At(a).task
    BY <2>2 DEF FramesRun
  <2> QED
    BY <2>3, FrameAlive DEF HoldInv
<1> QED
  BY <1>1, <1>2

\* The task that spawned a task of a deque runs: it cannot have ended.
LEMMA ParentRunning ==
  ASSUME HoldInv, FrameStatus, EntryFamily, NEW a \in LiveEntries
  PROVE  parent[At(a).task] \in Task /\ status[parent[At(a).task]] = "running"
<1>1. a[1] \in Thread /\ a[2] \in Nat /\ a[2] < tail[a[1]] /\ tail[a[1]] \in Nat
  BY EntryFacts DEF HoldInv
<1>2. PICK k \in Levels(a[1]) :
        Between(a[1], k, a[2]) /\ parent[At(a).task] = stack[a[1]][k].task
  BY DEF EntryFamily
<1>3. stack[a[1]][k].task \in Task /\ stack[a[1]][k].base \in Nat
  BY <1>1, FrameFacts DEF HoldInv
<1>4. ~Ended(a[1], k)
  <2>1. ASSUME pc[a[1]] = "wb", k = Depth(a[1]) PROVE FALSE
    <3>1. tail[a[1]] = stack[a[1]][k].base
      BY <1>1, <2>1 DEF HoldInv, ShapeInv, LocationOK, Top
    <3> QED
      BY <1>1, <1>2, <1>3, <3>1 DEF Between
  <2> QED
    BY <2>1 DEF Ended
<1> QED
  BY <1>1, <1>2, <1>3, <1>4 DEF FrameStatus

\* A handler that has joined what it spawned has no child left.
LEMMA ChildrenGone ==
  ASSUME HoldInv, FreshOK, FramesApart, EntryFamily, FrameFamily, Located,
         NEW p \in Thread, pc[p] = "run", tail[p] = Top(p).base,
         NEW c \in Task, parent[c] = Running(p)
  PROVE  status[c] = "joined"
<1> USE DEF HoldInv
<1>1. /\ Depth(p) \in Levels(p) /\ Running(p) = stack[p][Depth(p)].task /\ Running(p) \in Task
      /\ Top(p) = stack[p][Depth(p)]
  BY TopFacts DEF Busy
<1>2. NoTask \notin Task
  BY DEF NoTask, Task
<1>3. ~InEntry(c)
  <2> SUFFICES ASSUME NEW a \in LiveEntries, At(a).task = c PROVE FALSE
    BY DEF InEntry
  <2>1. PICK k \in Levels(a[1]) : Between(a[1], k, a[2]) /\ parent[c] = stack[a[1]][k].task
    BY DEF EntryFamily
  <2>2. a[1] \in Thread /\ a[2] \in Nat /\ a[2] < tail[a[1]] /\ tail[a[1]] \in Nat
    BY EntryFacts
  <2>3. a[1] = p /\ k = Depth(p)
    BY <1>1, <2>1, <2>2 DEF FramesApart
  <2>4. stack[p][Depth(p)].base \in Nat
    BY <1>1, FrameFacts
  <2> QED
    BY <1>1, <2>1, <2>2, <2>3, <2>4 DEF Between
<1>4. ~InCall(c)
  <2> SUFFICES ASSUME NEW q \in Thread, NEW k \in Levels(q), stack[q][k].task = c,
                      stack[q][k].addr = NoAddr
               PROVE  FALSE
    BY DEF InCall
  <2>1. Running(p) = IF k = 1 THEN NoTask ELSE stack[q][k - 1].task
    BY DEF FrameFamily
  <2>2. k # 1 /\ stack[q][k - 1].task = Running(p)
    BY <1>1, <1>2, <2>1
  <2>3. k - 1 \in Levels(q) /\ k \in Nat /\ k <= Depth(q)
    BY <2>2, FrameFacts DEF Levels
  <2>4. q = p /\ k - 1 = Depth(p)
    BY <1>1, <2>2, <2>3 DEF FramesApart
  <2> QED
    BY <2>3, <2>4
<1>5. status[c] # "none"
  BY <1>1, <1>2 DEF FreshOK
<1> QED
  BY <1>3, <1>4, <1>5 DEF Located, Alive, ShapeInv, TypeOK

\* A task that is not alive is in no entry and in no frame.
LEMMA Nowhere ==
  ASSUME HoldInv, FramesRun, FrameStatus, EntryStatus, NEW t, ~Alive(t)
  PROVE  /\ \A a \in LiveEntries : At(a).task # t
         /\ \A p \in Thread : \A k \in Levels(p) : stack[p][k].task # t
  BY EntryAlive, FrameAlive DEF HoldInv

-----------------------------------------------------------------------------
(* Steps that leave every task where it is *)

\* The entries and the frames with their tasks, and who created them.
PlaceInv == EntriesApart /\ FramesApart /\ FramesRun /\ EntryFamily /\ FrameFamily

SamePlaces ==
  /\ UNCHANGED <<tail, stack, parent>>
  /\ \A a \in Addr : At(a)'.task = At(a).task

LEMMA SameEntries == ASSUME tail' = tail PROVE LiveEntries' = LiveEntries
  BY DEF LiveEntries

LEMMA SameLevels == ASSUME stack' = stack, NEW p PROVE Levels(p)' = Levels(p) /\ Depth(p)' = Depth(p)
  BY DEF Levels, Depth

LEMMA PlacesStay ==
  ASSUME PlaceInv, SamePlaces
  PROVE  PlaceInv' /\ LiveEntries' = LiveEntries
         /\ \A t : (InEntry(t)' <=> InEntry(t)) /\ (InCall(t)' <=> InCall(t))
<1>1. LiveEntries' = LiveEntries /\ LiveEntries \subseteq Addr
  BY SameEntries DEF SamePlaces, LiveEntries
<1>2. \A p : Levels(p)' = Levels(p) /\ Depth(p)' = Depth(p)
  BY SameLevels DEF SamePlaces
<1>3. \A a \in LiveEntries : At(a)'.task = At(a).task
  BY <1>1 DEF SamePlaces
<1>4. stack' = stack /\ parent' = parent
  BY DEF SamePlaces
<1>5. EntriesApart'
  BY <1>1, <1>3 DEF PlaceInv, EntriesApart
<1>6. FramesApart'
  BY <1>2, <1>4 DEF PlaceInv, FramesApart
<1>7. FramesRun'
  BY <1>1, <1>2, <1>3, <1>4 DEF PlaceInv, FramesRun
<1>8. EntryFamily'
  BY <1>1, <1>2, <1>3, <1>4 DEF PlaceInv, EntryFamily, Between
<1>9. FrameFamily'
  BY <1>2, <1>4 DEF PlaceInv, FrameFamily
<1>10. ASSUME NEW t PROVE (InEntry(t)' <=> InEntry(t)) /\ (InCall(t)' <=> InCall(t))
  BY <1>1, <1>2, <1>3, <1>4 DEF InEntry, InCall
<1> QED
  BY <1>1, <1>5, <1>6, <1>7, <1>8, <1>9, <1>10 DEF PlaceInv

LEMMA TaskStays ==
  ASSUME TaskInv, UNCHANGED <<tail, stack, parent, status, nextTask, doneFlight, put>>,
         \A a \in Addr : /\ At(a)'.task = At(a).task /\ At(a)'.out = At(a).out
                         /\ At(a)'.done = At(a).done,
         ShapeInv,
         \A p \in Thread : pc'[p] = "wb" <=> pc[p] = "wb",
         CellCopies', MasterOK'
  PROVE  TaskInv'
<1>1. SamePlaces /\ PlaceInv
  BY DEF SamePlaces, PlaceInv, TaskInv
<1>2. PlaceInv' /\ LiveEntries' = LiveEntries /\ LiveEntries \subseteq Addr
  BY <1>1, PlacesStay DEF LiveEntries
<1>3. \A p : Levels(p)' = Levels(p) /\ Depth(p)' = Depth(p)
  BY SameLevels
<1>4. FreshOK'
  BY DEF TaskInv, FreshOK
<1>5. FrameStatus'
  BY <1>3 DEF TaskInv, FrameStatus, Ended
<1>6. EntryStatus'
  <2>1. \A a : InFrame(a)' = InFrame(a)
    BY SameFrame
  <2> QED
    BY <1>2, <2>1 DEF TaskInv, EntryStatus
<1>7. OutWritten'
  <2> SUFFICES ASSUME NEW p \in Thread, pc'[p] = "wb", ~put'[p]
               PROVE  At(Top(p).addr)'.out = Running(p)'
    BY DEF OutWritten
  <2>1. Top(p)' = Top(p) /\ Running(p)' = Running(p)
    BY DEF Top, Running, Depth
  <2>2. At(Top(p).addr).out = Running(p) /\ pc[p] = "wb"
    BY DEF TaskInv, OutWritten
  <2>3. Top(p).addr \in Addr
    BY <2>2, TopFacts, FrameFacts DEF Busy, ShapeInv, LocationOK
  <2>4. PICK b \in Addr : b = Top(p).addr
    BY <2>3
  <2>5. At(b)'.out = At(b).out
    OBVIOUS
  <2> QED
    BY <2>1, <2>2, <2>4, <2>5 DEF At
<1>8. Located'
  BY <1>1, PlacesStay DEF TaskInv, Located, Alive
<1>9. RootOK'
  BY DEF TaskInv, RootOK, Alive
<1> QED
  BY <1>2, <1>4, <1>5, <1>6, <1>7, <1>8, <1>9 DEF TaskInv, PlaceInv

LEMMA CellsStay ==
  ASSUME TypeOK, CellCopies, cell' = cell, \A p \in Thread : sem'[p] > 0 => sem[p] > 0,
         \A a \in Addr : At(a)'.task = At(a).task
  PROVE  CellCopies'
<1> SUFFICES ASSUME NEW p \in Thread, sem'[p] > 0, cell[p] # Refused
             PROVE  cell[p].task = At(cell[p].addr)'.task
  BY DEF CellCopies, At
<1>1. cell[p].task = At(cell[p].addr).task
  BY DEF CellCopies
<1>2. cell[p].addr \in Addr
  BY DEF TypeOK
<1>3. PICK b \in Addr : b = cell[p].addr
  BY <1>2
<1>4. At(b)'.task = At(b).task
  OBVIOUS
<1> QED
  BY <1>1, <1>3, <1>4 DEF At

\* The same when the deques do not change at all.
LEMMA DequesStay ==
  ASSUME TaskInv, ShapeInv, NEW p \in Thread,
         UNCHANGED <<deque, tail, stack, parent, status, nextTask, doneFlight, put, cell>>,
         \A q \in Thread : sem'[q] > 0 => sem[q] > 0,
         pc'[p] = "wb" <=> pc[p] = "wb",
         pc'[p] = "part" => pc[p] = "part" \/ p # Master,
         \A q \in Thread \ {p} : pc'[q] = pc[q]
  PROVE  TaskInv'
<1>1. \A a \in Addr : At(a)' = At(a)
  BY DEF At
<1>2. CellCopies'
  BY <1>1, CellsStay DEF TaskInv, ShapeInv
<1>3. MasterOK'
  BY ThreadAssumption, SameLevels DEF TaskInv, MasterOK
<1> QED
  BY <1>1, <1>2, <1>3, TaskStays

LEMMA PollTasks ==
  ASSUME TaskInv, ShapeInv, NEW p \in Thread, Poll(p)
  PROVE  TaskInv'
<1>1. CASE PollServe(p)
  <2>1. /\ UNCHANGED <<tail, stack, parent, status, nextTask, doneFlight, put, cell, sem, pc>>
        /\ deque' = [deque EXCEPT ![p][head[p]] = Stolen(@, SlotOf(p))]
    BY <1>1 DEF PollServe, histVars
  <2>2. deque \in [Thread -> [Index -> Entry]]
    BY DEF ShapeInv, TypeOK
  <2>3. ASSUME NEW a \in Addr
        PROVE  /\ At(a)'.task = At(a).task /\ At(a)'.out = At(a).out
               /\ At(a)'.done = At(a).done
    <3>1. a[1] \in Thread /\ a[2] \in Index
      BY DEF Addr
    <3> QED
      BY <2>1, <2>2, <3>1 DEF At, Stolen
  <2>4. CellCopies'
    BY <2>1, <2>3, CellsStay DEF TaskInv, ShapeInv
  <2>5. MasterOK'
    BY <2>1, SameLevels DEF TaskInv, MasterOK
  <2> QED
    BY <2>1, <2>3, <2>4, <2>5, TaskStays
<1>2. CASE ~PollServe(p)
  <2>1. UNCHANGED <<deque, tail, stack, parent, status, nextTask, doneFlight, put, cell, sem, pc>>
    BY <1>2 DEF Poll, PollSkip, PollRefuse, PollSeeFree, PollCasWon, PollCasLost, PollUnblock,
                histVars, netVars, dequeVars
  <2> QED
    BY <2>1, DequesStay
<1> QED
  BY <1>1, <1>2

LEMMA StealTasks ==
  ASSUME TaskInv, ShapeInv, NEW p \in Thread,
         StealCasWon(p) \/ StealCasLost(p) \/ StealRefused(p) \/ WriteBackPoll(p)
  PROVE  TaskInv'
<1>1. UNCHANGED <<deque, tail, stack, parent, status, nextTask, doneFlight, put, cell>>
  BY DEF StealCasWon, StealCasLost, StealRefused, WriteBackPoll, histVars, netVars, dequeVars
<1>2. pc \in [Thread -> Location] /\ sem \in [Thread -> Nat]
  BY DEF ShapeInv, TypeOK
<1>3. CASE StealCasWon(p) \/ WriteBackPoll(p)
  <2>1. UNCHANGED <<pc, sem>>
    BY <1>3 DEF StealCasWon, WriteBackPoll
  <2> QED
    BY <1>1, <2>1, DequesStay
<1>4. CASE StealCasLost(p) \/ StealRefused(p)
  <2>1. pc[p] \in StealBack
    BY <1>4 DEF StealCasLost, StealRefused, Casing, Waiting, ShapeInv, LocationOK
  <2>2. \A l \in AfterFailure(pc[p]) :
          l # "wb" /\ (l = "part" => pc[p] = "part")
    BY <2>1 DEF AfterFailure, StealBack
  <2>3. \E l \in AfterFailure(pc[p]) : Goto(p, l)
    BY <1>4 DEF StealCasLost, StealRefused
  <2>4. /\ pc'[p] # "wb" /\ pc[p] # "wb" /\ (pc'[p] = "part" => pc[p] = "part")
        /\ \A q \in Thread \ {p} : pc'[q] = pc[q]
    BY <1>2, <2>1, <2>2, <2>3 DEF Goto, StealBack
  <2>5. \A q \in Thread : sem'[q] > 0 => sem[q] > 0
    BY <1>2, <1>4 DEF StealCasLost, StealRefused
  <2> QED
    BY <1>1, <2>4, <2>5, DequesStay
<1> QED
  BY <1>3, <1>4

LEMMA SyncTasks ==
  ASSUME TaskInv, ShapeInv, NEW p \in Thread,
         Progress(p) \/ Sync(p) \/ SyncStolen(p) \/ SyncSteal(p)
  PROVE  TaskInv'
<1>1. UNCHANGED <<deque, tail, stack, parent, status, nextTask, doneFlight, put, cell, sem>>
  BY DEF Progress, Sync, SyncStolen, SyncSteal, histVars, netVars, dequeVars
<1>2. pc \in [Thread -> Location]
  BY DEF ShapeInv, TypeOK
<1>3. /\ pc'[p] = "wb" <=> pc[p] = "wb"
      /\ pc'[p] = "part" => pc[p] = "part"
      /\ \A q \in Thread \ {p} : pc'[q] = pc[q]
  BY <1>2 DEF Progress, Sync, SyncStolen, SyncSteal, InHandler, Goto
<1> QED
  BY <1>1, <1>3, DequesStay

LEMMA RoundTasks ==
  ASSUME TaskInv, ShapeInv, NEW p \in Thread,
         Reset(p) \/ Participate(p) \/ PoolSteal(p) \/ LeavePool(p) \/ EndRound(p)
  PROVE  TaskInv'
<1>1. UNCHANGED <<deque, tail, stack, parent, status, nextTask, doneFlight, put, cell, sem>>
  BY DEF Reset, Participate, PoolSteal, LeavePool, EndRound, histVars, netVars, dequeVars
<1>2. pc \in [Thread -> Location]
  BY DEF ShapeInv, TypeOK
<1>3. /\ pc'[p] = "wb" <=> pc[p] = "wb"
      /\ pc'[p] = "part" => pc[p] = "part" \/ p # Master
      /\ \A q \in Thread \ {p} : pc'[q] = pc[q]
  BY <1>2 DEF Reset, Participate, PoolSteal, LeavePool, EndRound, Goto
<1> QED
  BY <1>1, <1>3, DequesStay

LEMMA ReplyTasks ==
  ASSUME ProtocolInv, HoldInv, TaskInv, NEW m \in net, LandReply(m)
  PROVE  TaskInv'
<1> USE DEF HoldInv
<1>1. UNCHANGED <<deque, tail, stack, parent, status, nextTask, doneFlight, put, pc>>
  BY DEF LandReply, dequeVars, histVars
<1>2. \A a \in Addr : At(a)' = At(a)
  BY <1>1 DEF At
<1>3. MasterOK'
  BY <1>1, SameLevels DEF TaskInv, MasterOK
<1>4. CellCopies'
  <2>1. m.to \in Thread /\ m.src \in Addr \cup {Refused}
    BY DEF ShapeInv, TypeOK
  <2>2. cell \in [Thread -> [addr : Addr, task : Task] \cup {Refused}] /\ sem \in [Thread -> Nat]
    BY DEF ShapeInv, TypeOK
  <2> SUFFICES ASSUME NEW q \in Thread, sem'[q] > 0, cell'[q] # Refused
               PROVE  (cell[q].task = At(cell[q].addr).task)'
    BY DEF CellCopies
  <2>3. CASE q = m.to
    <3>1. cell'[q] = [addr |-> m.src, task |-> At(m.src).task]
      BY <2>1, <2>2, <2>3 DEF LandReply
    <3>2. cell'[q].addr = m.src /\ cell'[q].task = At(m.src).task
      BY <3>1
    <3> QED
      BY <1>1, <3>2 DEF At
  <2>4. CASE q # m.to
    <3>1. cell'[q] = cell[q] /\ sem'[q] = sem[q]
      BY <2>1, <2>2, <2>4 DEF LandReply
    <3>2. cell[q].task = At(cell[q].addr).task
      BY <3>1 DEF TaskInv, CellCopies
    <3> QED
      BY <1>1, <3>1, <3>2 DEF At
  <2> QED
    BY <2>3, <2>4
<1> QED
  BY <1>1, <1>2, <1>3, <1>4, TaskStays

\* The output was written before DONE.
LEMMA DoneTasks ==
  ASSUME ProtocolInv, HoldInv, TaskInv, NEW b \in doneFlight, LandDone(b)
  PROVE  TaskInv'
<1> USE DEF HoldInv
<1>1. /\ UNCHANGED <<tail, stack, parent, status, nextTask, put, pc, sem, cell>>
      /\ doneFlight' = doneFlight \ {b}
      /\ deque' = [deque EXCEPT ![b[1]][b[2]] = Completed(@)]
  BY DEF LandDone, histVars
<1>2. b \in Addr /\ b[1] \in Thread /\ b[2] \in Index /\ b = <<b[1], b[2]>>
  BY DEF ShapeInv, TypeOK, Addr
<1>3. deque \in [Thread -> [Index -> Entry]]
  BY DEF ShapeInv, TypeOK
<1>4. ASSUME NEW a \in Addr
      PROVE  /\ At(a)'.task = At(a).task /\ At(a)'.out = At(a).out
             /\ At(a)'.done <=> (At(a).done \/ a = b)
  <2>1. a[1] \in Thread /\ a[2] \in Index /\ a = <<a[1], a[2]>>
    BY DEF Addr
  <2>2. CASE a = b
    <3>1. At(a)' = Completed(At(a))
      BY <1>1, <1>2, <1>3, <2>2 DEF At
    <3> QED
      BY <2>2, <3>1 DEF Completed
  <2>3. CASE a # b
    <3>1. At(a)' = At(a)
      BY <1>1, <1>2, <1>3, <2>1, <2>3 DEF At
    <3> QED
      BY <2>3, <3>1
  <2> QED
    BY <2>2, <2>3
<1>5. SamePlaces /\ PlaceInv
  BY <1>1, <1>4 DEF SamePlaces, PlaceInv, TaskInv
<1>6. PlaceInv' /\ LiveEntries' = LiveEntries /\ LiveEntries \subseteq Addr
  BY <1>5, PlacesStay DEF LiveEntries
<1>7. \A q : Levels(q)' = Levels(q) /\ Depth(q)' = Depth(q)
  BY <1>1, SameLevels
<1>8. FreshOK' /\ RootOK' /\ MasterOK'
  BY <1>1, <1>7 DEF TaskInv, FreshOK, RootOK, Alive, MasterOK
<1>9. FrameStatus'
  BY <1>1, <1>7 DEF TaskInv, FrameStatus, Ended
<1>10. EntryStatus'
  <2>1. \A a : InFrame(a)' = InFrame(a)
    BY <1>1, SameFrame
  <2>2. ASSUME NEW a \in LiveEntries
        PROVE  /\ a \in doneFlight' \/ At(a)'.done <=> (a \in doneFlight \/ At(a).done)
               /\ At(a)'.task = At(a).task /\ At(a)'.out = At(a).out
    BY <1>1, <1>4, <1>6
  <2> QED
    BY <1>1, <1>6, <2>1, <2>2 DEF TaskInv, EntryStatus
<1>11. CellCopies'
  BY <1>1, <1>4, CellsStay DEF TaskInv, ShapeInv
<1>12. OutWritten'
  <2> SUFFICES ASSUME NEW q \in Thread, pc'[q] = "wb", ~put'[q]
               PROVE  At(Top(q).addr)'.out = Running(q)'
    BY DEF OutWritten
  <2>1. Top(q)' = Top(q) /\ Running(q)' = Running(q)
    BY <1>1, <1>7 DEF Top, Running
  <2>2. At(Top(q).addr).out = Running(q) /\ pc[q] = "wb"
    BY <1>1 DEF TaskInv, OutWritten
  <2>3. PICK c \in Addr : c = Top(q).addr
    BY <2>2, TopFacts, FrameFacts DEF Busy, ShapeInv, LocationOK
  <2>4. At(c)'.out = At(c).out
    BY <1>4
  <2> QED
    BY <2>1, <2>2, <2>3, <2>4 DEF At
<1>13. Located'
  BY <1>1, <1>5, PlacesStay DEF TaskInv, Located, Alive
<1> QED
  BY <1>6, <1>8, <1>9, <1>10, <1>11, <1>12, <1>13 DEF TaskInv, PlaceInv

\* The thief overwrites the input with the same task, and the stale output with
\* the result.
LEMMA PutTasks ==
  ASSUME ProtocolInv, HoldInv, TaskInv, NEW p \in Thread, LandPut(p)
  PROVE  TaskInv'
<1> USE DEF HoldInv
<1>1. /\ UNCHANGED <<tail, stack, parent, status, nextTask, pc, sem, cell, doneFlight>>
      /\ put' = [put EXCEPT ![p] = FALSE] /\ put[p]
  BY DEF LandPut, histVars
<1>2. pc[p] = "wb" /\ Top(p).addr # NoAddr
  BY <1>1 DEF ShapeInv, LocationOK
<1>3. /\ Depth(p) \in Levels(p) /\ Top(p) = stack[p][Depth(p)] /\ Running(p) \in Task
      /\ Running(p) = stack[p][Depth(p)].task
  BY <1>2, TopFacts DEF Busy
<1>4. PICK b \in Addr : b = Top(p).addr
  BY <1>2, <1>3, FrameFacts
<1>5. Given(b) /\ <<p, Depth(p)>> \in InFrame(b)
  BY <1>2, <1>3, <1>4, Holding DEF ProtocolInv
<1>6. b \in LiveEntries /\ At(b).task = Running(p) /\ ~At(b).done /\ b \notin doneFlight
  <2>1. b \in LiveEntries
    BY <1>5, GivenIn
  <2>2. At(b).task = Running(p)
    BY <2>1, <1>3, <1>4 DEF TaskInv, FramesRun
  <2> QED
    BY <2>1, <2>2, <1>5, OneHolder DEF ProtocolInv, Given
<1>7. deque \in [Thread -> [Index -> Entry]] /\ b[1] \in Thread /\ b[2] \in Index
      /\ b = <<b[1], b[2]>>
  BY DEF ShapeInv, TypeOK, Addr
<1>8. deque' = [deque EXCEPT ![b[1]][b[2]] =
        [task |-> Running(p), thief |-> p, done |-> FALSE, out |-> Running(p)]]
  BY <1>4 DEF LandPut
<1>9. /\ At(b)'.task = At(b).task /\ ~At(b)'.done /\ At(b)'.out = Running(p)
      /\ \A a \in Addr \ {b} : At(a)' = At(a)
  <2>1. At(b)' = [task |-> Running(p), thief |-> p, done |-> FALSE, out |-> Running(p)]
    BY <1>7, <1>8 DEF At
  <2>2. ASSUME NEW a \in Addr \ {b} PROVE At(a)' = At(a)
    <3>1. a[1] \in Thread /\ a[2] \in Index /\ a = <<a[1], a[2]>>
      BY DEF Addr
    <3> QED
      BY <1>7, <1>8, <3>1 DEF At
  <2> QED
    BY <2>1, <2>2, <1>6
<1>10. \A a \in Addr : At(a)'.task = At(a).task
  BY <1>9
<1>11. SamePlaces /\ PlaceInv
  BY <1>1, <1>10 DEF SamePlaces, PlaceInv, TaskInv
<1>12. PlaceInv' /\ LiveEntries' = LiveEntries /\ LiveEntries \subseteq Addr
  BY <1>11, PlacesStay DEF LiveEntries
<1>13. \A q : Levels(q)' = Levels(q) /\ Depth(q)' = Depth(q)
  BY <1>1, SameLevels
<1>14. FreshOK' /\ RootOK' /\ MasterOK'
  BY <1>1, <1>13 DEF TaskInv, FreshOK, RootOK, Alive, MasterOK
<1>15. FrameStatus'
  BY <1>1, <1>13 DEF TaskInv, FrameStatus, Ended
<1>16. EntryStatus'
  <2>1. \A a : InFrame(a)' = InFrame(a)
    BY <1>1, SameFrame
  <2>2. InFrame(b) # {}
    BY <1>5
  <2> SUFFICES ASSUME NEW a \in LiveEntries
               PROVE  IF a \in doneFlight \/ At(a)'.done
                        THEN status[At(a)'.task] = "finished" /\ At(a)'.out = At(a)'.task
                        ELSE InFrame(a) = {} => status[At(a)'.task] = "ready"
    BY <1>1, <1>12, <2>1 DEF EntryStatus
  <2>3. CASE a = b
    BY <2>2, <2>3, <1>6, <1>9
  <2>4. CASE a # b
    BY <2>4, <1>9, <1>12 DEF TaskInv, EntryStatus
  <2> QED
    BY <2>3, <2>4
<1>17. CellCopies'
  BY <1>1, <1>10, CellsStay DEF TaskInv, ShapeInv
<1>18. OutWritten'
  <2> SUFFICES ASSUME NEW q \in Thread, pc'[q] = "wb", ~put'[q]
               PROVE  (At(Top(q).addr).out = Running(q))'
    BY DEF OutWritten
  <2>1. Top(q)' = Top(q) /\ Running(q)' = Running(q)
    BY <1>1, <1>13 DEF Top, Running
  <2>2. CASE q = p
    BY <2>1, <2>2, <1>4, <1>9 DEF At
  <2>3. CASE q # p
    <3>1. ~put[q] /\ pc[q] = "wb"
      BY <1>1, <2>3
    <3>2. At(Top(q).addr).out = Running(q)
      BY <3>1 DEF TaskInv, OutWritten
    <3>3. PICK c \in Addr : c = Top(q).addr
      BY <3>1, TopFacts, FrameFacts DEF Busy, ShapeInv, LocationOK
    <3>4. <<q, Depth(q)>> \in InFrame(c)
      BY <3>1, <3>3, TopFacts, FrameIn DEF Busy
    <3>5. c # b
      BY <3>4, <2>3, <1>5, OneHolder DEF ProtocolInv
    <3>6. At(c)' = At(c)
      BY <3>5, <1>9
    <3> QED
      BY <2>1, <3>2, <3>3, <3>6 DEF At
  <2> QED
    BY <2>2, <2>3
<1>19. Located'
  BY <1>1, <1>11, PlacesStay DEF TaskInv, Located, Alive
<1> QED
  BY <1>12, <1>14, <1>15, <1>16, <1>17, <1>18, <1>19 DEF TaskInv, PlaceInv

-----------------------------------------------------------------------------
(* Frames that are left *)

\* The status of a task that exists changes.
LEMMA StatusWritten ==
  ASSUME TypeOK, FreshOK, NEW t \in Task, status[t] # "none", NEW v, v # "none",
         status' = [status EXCEPT ![t] = v], UNCHANGED <<nextTask, parent>>
  PROVE  /\ FreshOK' /\ status'[t] = v
         /\ \A u \in Task \ {t} : status'[u] = status[u]
<1>1. status \in [Task -> {"none", "ready", "running", "finished", "joined"}]
  BY DEF TypeOK
<1>2. status'[t] = v /\ \A u \in Task \ {t} : status'[u] = status[u]
  BY <1>1
<1>3. \A u \in Task : status'[u] = "none" <=> status[u] = "none"
  BY <1>2
<1> QED
  BY <1>2, <1>3 DEF FreshOK

LEMMA PopPlaces ==
  ASSUME HoldInv, TaskInv, NEW p \in Thread, pc[p] \in Busy, Pop(p), tail[p] = Top(p).base,
         UNCHANGED <<deque, tail, parent>>
  PROVE  /\ PlaceInv' /\ LiveEntries' = LiveEntries
         /\ \A q \in Thread \ {p} : stack'[q] = stack[q] /\ Levels(q)' = Levels(q)
         /\ \A q \in Thread : \A k \in Levels(q)' : k \in Levels(q) /\ stack'[q][k] = stack[q][k]
         /\ Levels(p)' = Levels(p) \ {Depth(p)}
<1> USE DEF HoldInv
<1>1. /\ Depth(p) \in Levels(p) /\ Top(p) = stack[p][Depth(p)] /\ stack[p] # << >>
  BY TopFacts
<1>2. StackType
  BY DEF ShapeInv, TypeOK, StackType
<1>3. /\ \A q \in Thread \ {p} : stack'[q] = stack[q]
      /\ Depth(p)' = Depth(p) - 1 /\ \A k \in 1 .. Depth(p) - 1 : stack'[p][k] = stack[p][k]
      /\ Depth(p) \in Nat
  BY <1>1, <1>2, Popped, StackFacts
<1>4. Levels(p)' = Levels(p) \ {Depth(p)} /\ Levels(p)' = 1 .. Depth(p) - 1
  BY <1>3 DEF Levels
<1>5. \A q \in Thread \ {p} : Levels(q)' = Levels(q) /\ Depth(q)' = Depth(q)
  BY <1>3 DEF Levels, Depth
<1>6. \A q \in Thread : \A k \in Levels(q)' : k \in Levels(q) /\ stack'[q][k] = stack[q][k]
  BY <1>3, <1>4, <1>5
<1>7. LiveEntries' = LiveEntries /\ \A a : At(a)' = At(a)
  BY DEF LiveEntries, At
<1>8. EntriesApart' /\ FramesApart' /\ FramesRun'
  BY <1>6, <1>7 DEF TaskInv, EntriesApart, FramesApart, FramesRun
<1>9. FrameFamily'
  <2> SUFFICES ASSUME NEW q \in Thread, NEW k \in Levels(q)', stack'[q][k].addr = NoAddr
               PROVE  parent[stack'[q][k].task] =
                        IF k = 1 THEN NoTask ELSE stack'[q][k - 1].task
    BY DEF FrameFamily
  <2>1. k \in Levels(q) /\ stack'[q][k] = stack[q][k]
    BY <1>6
  <2>2. k # 1 => k - 1 \in Levels(q)'
    BY <1>3, <1>4, <1>5, <2>1, FrameFacts DEF Levels
  <2> QED
    BY <1>6, <2>1, <2>2 DEF TaskInv, FrameFamily
<1>10. EntryFamily'
  <2> SUFFICES ASSUME NEW a \in LiveEntries
               PROVE  \E k \in Levels(a[1])' :
                        Between(a[1], k, a[2])' /\ parent[At(a).task] = stack'[a[1]][k].task
    BY <1>7 DEF EntryFamily
  <2>1. a[1] \in Thread /\ a[2] \in Nat /\ a[2] < tail[a[1]] /\ tail[a[1]] \in Nat
    BY EntryFacts
  <2>2. PICK k \in Levels(a[1]) :
          Between(a[1], k, a[2]) /\ parent[At(a).task] = stack[a[1]][k].task
    BY DEF TaskInv, EntryFamily
  <2>3. k \in Nat /\ k <= Depth(a[1]) /\ stack[a[1]][k].base \in Nat
    BY <2>1, FrameFacts
  <2>4. a[1] # p \/ k # Depth(p)
    BY <1>1, <2>1, <2>2, <2>3 DEF Between
  <2>5. k \in Levels(a[1])' /\ stack'[a[1]][k] = stack[a[1]][k]
    BY <1>4, <1>5, <1>6, <2>1, <2>4
  <2>6. Between(a[1], k, a[2])'
    <3>1. k < Depth(a[1])' => k < Depth(a[1]) /\ stack'[a[1]][k + 1] = stack[a[1]][k + 1]
      BY <1>3, <1>5, <1>6, <2>1, <2>3 DEF Levels
    <3> QED
      BY <2>2, <2>5, <3>1 DEF Between
  <2> QED
    BY <2>2, <2>5, <2>6
<1> QED
  BY <1>3, <1>4, <1>5, <1>6, <1>7, <1>8, <1>9, <1>10 DEF PlaceInv

\* The entry of a stolen frame is in use.
LEMMA FramesGiven ==
  ASSUME ProtocolInv, HoldInv, NEW a \in Addr, InFrame(a) # {}
  PROVE  Given(a) /\ a \in LiveEntries
  BY OneHolder, GivenIn DEF ProtocolInv, HoldInv

\* Threads that write back other frames.
LEMMA OutStays ==
  ASSUME ProtocolInv, HoldInv, TaskInv, NEW p \in Thread, pc'[p] # "wb" \/ put'[p],
         \A q \in Thread \ {p} : stack'[q] = stack[q] /\ pc'[q] = pc[q] /\ put'[q] = put[q],
         \A a \in LiveEntries : At(a)'.out = At(a).out
  PROVE  OutWritten'
<1> USE DEF HoldInv
<1> SUFFICES ASSUME NEW q \in Thread, pc'[q] = "wb", ~put'[q]
             PROVE  (At(Top(q).addr).out = Running(q))'
  BY DEF OutWritten
<1>1. /\ q # p /\ pc[q] = "wb" /\ ~put[q] /\ Top(q)' = Top(q) /\ Running(q)' = Running(q)
  BY DEF Top, Running, Depth
<1>2. At(Top(q).addr).out = Running(q)
  BY <1>1 DEF TaskInv, OutWritten
<1>3. PICK c \in Addr : c = Top(q).addr
  BY <1>1, TopFacts, FrameFacts DEF Busy, ShapeInv, LocationOK
<1>4. c \in LiveEntries
  <2>1. Depth(q) \in Levels(q) /\ stack[q][Depth(q)].addr = c
    BY <1>1, <1>3, TopFacts DEF Busy
  <2> QED
    BY <2>1, FrameIn, FramesGiven
<1> QED
  BY <1>1, <1>2, <1>3, <1>4 DEF At

LEMMA FinishTasks ==
  ASSUME ProtocolInv, HoldInv, TaskInv, NEW p \in Thread, ReturnStolen(p)
  PROVE  TaskInv'
<1> USE DEF HoldInv
<1>1. /\ UNCHANGED <<deque, tail, stack, parent, nextTask, sem, cell, doneFlight>>
      /\ status' = [status EXCEPT ![Running(p)] = "finished"] /\ pc[p] = "run"
  BY DEF ReturnStolen, InHandler, dequeVars
<1>2. /\ put' = [put EXCEPT ![p] = TRUE] /\ pc' = [pc EXCEPT ![p] = "wb"]
      /\ put \in [Thread -> BOOLEAN] /\ pc \in [Thread -> Location]
  BY DEF ReturnStolen, Goto, ShapeInv, TypeOK
<1>3. \A q \in Thread \ {p} : put'[q] = put[q] /\ pc'[q] = pc[q]
  BY <1>2
<1>4. put'[p] /\ pc'[p] = "wb"
  BY <1>2
<1>5. /\ Depth(p) \in Levels(p) /\ Top(p) = stack[p][Depth(p)] /\ Running(p) \in Task
      /\ Running(p) = stack[p][Depth(p)].task
  BY <1>1, TopFacts DEF Busy
<1>6. status[Running(p)] = "running"
  BY <1>1, <1>5, FrameAlive DEF TaskInv
<1>7. FreshOK' /\ status'[Running(p)] = "finished"
      /\ \A u \in Task \ {Running(p)} : status'[u] = status[u]
  BY <1>1, <1>5, <1>6, StatusWritten DEF TaskInv, ShapeInv
<1>8. \A a : At(a)' = At(a)
  BY <1>1 DEF At
<1>9. SamePlaces /\ PlaceInv
  BY <1>1, <1>8 DEF SamePlaces, PlaceInv, TaskInv
<1>10. PlaceInv' /\ LiveEntries' = LiveEntries
  BY <1>9, PlacesStay
<1>11. \A q : Levels(q)' = Levels(q) /\ Depth(q)' = Depth(q)
  BY <1>1, SameLevels
<1>12. FrameStatus'
  <2> SUFFICES ASSUME NEW q \in Thread, NEW k \in Levels(q)
               PROVE  status'[stack[q][k].task] = IF Ended(q, k)' THEN "finished" ELSE "running"
    BY <1>1, <1>11 DEF FrameStatus
  <2>1. CASE q = p /\ k = Depth(p)
    BY <2>1, <1>4, <1>5, <1>7, <1>11 DEF Ended
  <2>2. CASE ~(q = p /\ k = Depth(p))
    <3>1. stack[q][k].task # Running(p) /\ stack[q][k].task \in Task
      BY <2>2, <1>5, FrameFacts DEF TaskInv, FramesApart
    <3>2. Ended(q, k)' <=> Ended(q, k)
      BY <2>2, <1>3, <1>1, <1>11 DEF Ended
    <3> QED
      BY <1>7, <3>1, <3>2 DEF TaskInv, FrameStatus
  <2> QED
    BY <2>1, <2>2
<1>13. EntryStatus'
  <2>1. \A a : InFrame(a)' = InFrame(a)
    BY <1>1, SameFrame
  <2>2. \A a \in LiveEntries : status[At(a).task] # "running" => status'[At(a).task] = status[At(a).task]
    BY <1>6, <1>7, EntryFacts
  <2> QED
    BY <1>1, <1>8, <1>10, <2>1, <2>2 DEF TaskInv, EntryStatus
<1>14. CellCopies'
  BY <1>1, <1>8, CellsStay DEF TaskInv, ShapeInv
<1>15. OutWritten'
  BY <1>1, <1>3, <1>4, <1>8, OutStays
<1>16. \A t \in Task : Alive(t)' <=> Alive(t)
  BY <1>5, <1>6, <1>7 DEF Alive
<1>17. Located'
  BY <1>9, <1>16, PlacesStay DEF TaskInv, Located
<1>18. RootOK'
  BY <1>1, <1>16 DEF TaskInv, RootOK
<1>19. MasterOK'
  BY <1>1, <1>3, <1>4, <1>11, ThreadAssumption DEF TaskInv, MasterOK
<1> QED
  BY <1>7, <1>10, <1>12, <1>13, <1>14, <1>15, <1>17, <1>18, <1>19 DEF TaskInv, PlaceInv

\* A thief leaves the stolen task: its entry holds the output now.
LEMMA HandBackTasks ==
  ASSUME ProtocolInv, HoldInv, TaskInv, NEW p \in Thread, WriteBackDone(p)
  PROVE  TaskInv'
<1> USE DEF HoldInv
<1>1. /\ UNCHANGED <<deque, tail, parent, nextTask, status, sem, cell, put>>
      /\ doneFlight' = doneFlight \cup {Top(p).addr} /\ pc[p] = "wb" /\ Pop(p) /\ ~put[p]
      /\ Goto(p, Top(p).back)
  BY DEF WriteBackDone, dequeVars, histVars
<1>2. tail[p] = Top(p).base /\ Top(p).addr # NoAddr
  BY <1>1 DEF ShapeInv, LocationOK
<1>3. /\ Depth(p) \in Levels(p) /\ Top(p) = stack[p][Depth(p)] /\ Running(p) \in Task
      /\ Running(p) = stack[p][Depth(p)].task /\ stack[p] # << >>
  BY <1>1, TopFacts DEF Busy
<1>4. PICK b \in Addr : b = Top(p).addr
  BY <1>2, <1>3, FrameFacts
<1>5. Top(p).back \in StealBack /\ FrameOK(p, Depth(p))
  BY <1>2, <1>3, FrameFacts DEF FrameOK
<1>6. pc'[p] = Top(p).back /\ \A q \in Thread \ {p} : pc'[q] = pc[q]
  BY <1>1 DEF Goto, ShapeInv, TypeOK
<1>7. pc'[p] # "wb"
  BY <1>5, <1>6 DEF StealBack
<1>8. /\ PlaceInv' /\ LiveEntries' = LiveEntries
      /\ \A q \in Thread \ {p} : stack'[q] = stack[q] /\ Levels(q)' = Levels(q)
      /\ \A q \in Thread : \A k \in Levels(q)' : k \in Levels(q) /\ stack'[q][k] = stack[q][k]
      /\ Levels(p)' = Levels(p) \ {Depth(p)}
  BY <1>1, <1>2, PopPlaces DEF Busy
<1>9. \A a : At(a)' = At(a)
  BY <1>1 DEF At
<1>10. FreshOK'
  BY <1>1 DEF TaskInv, FreshOK
<1>11. FrameStatus'
  <2> SUFFICES ASSUME NEW q \in Thread, NEW k \in Levels(q)'
               PROVE  status[stack[q][k].task] = IF Ended(q, k)' THEN "finished" ELSE "running"
    BY <1>1, <1>8 DEF FrameStatus
  <2>1. k \in Levels(q)
    BY <1>8
  <2>2. CASE q = p
    BY <2>1, <2>2, <1>7, <1>8 DEF TaskInv, FrameStatus, Ended
  <2>3. CASE q # p
    <3>1. Depth(q)' = Depth(q)
      BY <2>3, <1>8 DEF Depth
    <3> QED
      BY <2>1, <2>3, <3>1, <1>6 DEF TaskInv, FrameStatus, Ended
  <2> QED
    BY <2>2, <2>3
<1>12. EntryStatus'
  <2> SUFFICES ASSUME NEW a \in LiveEntries
               PROVE  IF a \in doneFlight' \/ At(a).done
                        THEN status[At(a).task] = "finished" /\ At(a).out = At(a).task
                        ELSE InFrame(a)' = {} => status[At(a).task] = "ready"
    BY <1>1, <1>8, <1>9 DEF EntryStatus
  <2>1. CASE a = b
    <3>1. At(a).task = Running(p)
      BY <2>1, <1>3, <1>4 DEF TaskInv, FramesRun
    <3>2. status[Running(p)] = "finished"
      BY <1>1, <1>3 DEF TaskInv, FrameStatus, Ended
    <3>3. At(a).out = Running(p)
      BY <2>1, <1>1, <1>4 DEF TaskInv, OutWritten
    <3>4. a \in doneFlight'
      BY <2>1, <1>1, <1>4
    <3> QED
      BY <3>1, <3>2, <3>3, <3>4
  <2>2. CASE a # b
    <3>1. InFrame(a)' = InFrame(a)
      BY <2>2, <1>1, <1>3, <1>4, FramePopped DEF ShapeInv, TypeOK, StackType
    <3>2. a \in doneFlight' <=> a \in doneFlight
      BY <2>2, <1>1, <1>4
    <3> QED
      BY <3>1, <3>2 DEF TaskInv, EntryStatus
  <2> QED
    BY <2>1, <2>2
<1>13. CellCopies'
  BY <1>1, <1>9, CellsStay DEF TaskInv, ShapeInv
<1>14. OutWritten'
  BY <1>1, <1>6, <1>7, <1>8, <1>9, OutStays
<1>15. Located'
  <2> SUFFICES ASSUME NEW t \in Task, Alive(t) PROVE InEntry(t)' \/ InCall(t)'
    BY <1>1 DEF Located, Alive
  <2>1. InEntry(t)' <=> InEntry(t)
    BY <1>8, <1>9 DEF InEntry
  <2>2. ASSUME InCall(t) PROVE InCall(t)'
    <3>1. PICK q \in Thread : \E k \in Levels(q) : stack[q][k].task = t /\ stack[q][k].addr = NoAddr
      BY <2>2 DEF InCall
    <3>2. PICK k \in Levels(q) : stack[q][k].task = t /\ stack[q][k].addr = NoAddr
      BY <3>1
    <3>3. k \in Levels(q)'
      BY <1>2, <1>3, <1>8, <3>2
    <3> QED
      BY <1>8, <3>2, <3>3 DEF InCall
  <2> QED
    BY <2>1, <2>2 DEF TaskInv, Located
<1>16. MasterOK'
  <2>1. pc'[Master] # "part"
    BY <1>3, <1>6, ThreadAssumption DEF TaskInv, MasterOK
  <2> QED
    BY <2>1, <1>8, ThreadAssumption DEF TaskInv, MasterOK
<1>17. RootOK'
  <2>1. stack'[Master] = << >> => stack[Master] = << >>
    <3>1. CASE p # Master
      BY <3>1, <1>8, ThreadAssumption
    <3>2. CASE p = Master
      <4>1. Depth(p) # 1
        BY <3>2, <1>3, <1>5 DEF FrameOK, StealBack, TaskInv, MasterOK
      <4> QED
        BY <4>1, <3>2, <1>1, <1>3, Popped DEF ShapeInv, TypeOK, StackType
    <3> QED
      BY <3>1, <3>2
  <2> QED
    BY <2>1, <1>1 DEF TaskInv, RootOK, Alive
<1> QED
  BY <1>8, <1>10, <1>11, <1>12, <1>13, <1>14, <1>15, <1>16, <1>17 DEF TaskInv, PlaceInv

\* When the root returns, no other task is left: the oldest one would be a child
\* of the root, which has joined all of them.
LEMMA LastTask ==
  ASSUME HoldInv, TaskInv, NEW p \in Thread, pc[p] = "run", tail[p] = Top(p).base,
         Top(p).back = "bar2", NEW t \in Task, Alive(t)
  PROVE  t = Running(p)
<1> USE DEF HoldInv
<1> DEFINE S == {u \in Task : Alive(u) /\ u # Running(p)}
<1> SUFFICES ASSUME t # Running(p) PROVE FALSE
  OBVIOUS
<1>1. S # {} /\ S \subseteq Nat
  BY BoundAssumption DEF Task
<1>2. \E m \in S : \A u \in S : ~(<<u, m>> \in OpToRel(<, Nat))
  <2> HIDE DEF S
  <2> QED
    BY <1>1, NatLessThanWellFounded, WFMin
<1>3. PICK m \in S : \A u \in S : ~(u < m)
  <2>1. PICK m \in S : \A u \in S : ~(<<u, m>> \in OpToRel(<, Nat))
    BY <1>2
  <2>2. ASSUME NEW u \in S, u < m PROVE FALSE
    <3>1. u \in Nat /\ m \in Nat
      BY <1>1
    <3>2. <<u, m>> \in OpToRel(<, Nat)
      BY <2>2, <3>1 DEF OpToRel
    <3> QED
      BY <2>1, <3>2
  <2> QED
    BY <2>2
<1>4. /\ Depth(p) \in Levels(p) /\ Top(p) = stack[p][Depth(p)] /\ Running(p) \in Task
      /\ Running(p) = stack[p][Depth(p)].task
  BY TopFacts DEF Busy
\* The creator of m cannot exist.
<1>5. parent[m] \notin Task \/ ~Alive(parent[m])
  <2> SUFFICES ASSUME parent[m] \in Task, Alive(parent[m]) PROVE FALSE
    OBVIOUS
  <2>1. parent[m] < m
    BY DEF TaskInv, FreshOK, NoTask, Task
  <2>2. parent[m] = Running(p)
    BY <1>3, <2>1
  <2>3. status[m] = "joined"
    BY <2>2, ChildrenGone DEF TaskInv
  <2> QED
    BY <2>3 DEF Alive
<1>6. CASE InEntry(m)
  <2>1. PICK a \in LiveEntries : At(a).task = m
    BY <1>6 DEF InEntry
  <2> QED
    BY <2>1, <1>5, ParentRunning DEF TaskInv, Alive
<1>7. CASE InCall(m)
  <2>1. PICK q \in Thread : \E k \in Levels(q) : stack[q][k].task = m /\ stack[q][k].addr = NoAddr
    BY <1>7 DEF InCall
  <2>2. PICK k \in Levels(q) : stack[q][k].task = m /\ stack[q][k].addr = NoAddr
    BY <2>1
  <2>3. CASE k = 1
    <3>1. FrameOK(q, k) /\ FrameOK(p, Depth(p)) /\ 1 <= Depth(p)
      BY <1>4, FrameFacts
    <3>2. stack[q][k].back = "bar2" /\ q = Master
      BY <2>2, <2>3, <3>1 DEF FrameOK, StealBack
    <3>3. p = Master /\ Depth(p) = 1
      BY <3>1, <1>4 DEF FrameOK
    <3> QED
      BY <2>2, <2>3, <3>2, <3>3, <1>4
  <2>4. CASE k # 1
    <3>1. k - 1 \in Levels(q)
      BY <2>4, FrameFacts DEF Levels
    <3>2. parent[m] = stack[q][k - 1].task
      BY <2>2, <2>4 DEF TaskInv, FrameFamily
    <3> QED
      BY <3>1, <3>2, <1>5, FrameAlive, FrameFacts DEF TaskInv
  <2> QED
    BY <2>3, <2>4
<1> QED
  BY <1>6, <1>7 DEF TaskInv, Located

\* The handler of a call returns on its own stack.
LEMMA ReturnTasks ==
  ASSUME ProtocolInv, HoldInv, TaskInv, NEW p \in Thread, ReturnLocal(p) \/ ReturnRoot(p)
  PROVE  TaskInv'
<1> USE DEF HoldInv
<1>1. /\ UNCHANGED <<deque, tail, parent, nextTask, sem, cell, put, doneFlight>>
      /\ status' = [status EXCEPT ![Running(p)] = "joined"] /\ pc[p] = "run" /\ Pop(p)
      /\ tail[p] = Top(p).base
  BY DEF ReturnLocal, ReturnRoot, InHandler, dequeVars, netVars
<1>2. /\ Depth(p) \in Levels(p) /\ Top(p) = stack[p][Depth(p)] /\ Running(p) \in Task
      /\ Running(p) = stack[p][Depth(p)].task /\ stack[p] # << >>
  BY <1>1, TopFacts DEF Busy
<1>3. /\ FrameOK(p, Depth(p)) /\ Top(p).addr = NoAddr
      /\ ReturnLocal(p) => Top(p).back = "run" /\ Depth(p) # 1
      /\ ReturnRoot(p) => Top(p).back = "bar2" /\ Depth(p) = 1 /\ p = Master
  BY <1>2, FrameFacts DEF FrameOK, ReturnLocal, ReturnRoot, StealBack
<1>4. pc'[p] \in {"run", "bar2"} /\ \A q \in Thread \ {p} : pc'[q] = pc[q]
  BY <1>1 DEF Goto, ShapeInv, TypeOK, ReturnLocal, ReturnRoot
<1>5. status[Running(p)] = "running"
  BY <1>1, <1>2, FrameAlive DEF TaskInv
<1>6. FreshOK' /\ status'[Running(p)] = "joined"
      /\ \A u \in Task \ {Running(p)} : status'[u] = status[u]
  BY <1>1, <1>2, <1>5, StatusWritten DEF TaskInv, ShapeInv
<1>7. /\ PlaceInv' /\ LiveEntries' = LiveEntries
      /\ \A q \in Thread \ {p} : stack'[q] = stack[q] /\ Levels(q)' = Levels(q)
      /\ \A q \in Thread : \A k \in Levels(q)' : k \in Levels(q) /\ stack'[q][k] = stack[q][k]
      /\ Levels(p)' = Levels(p) \ {Depth(p)}
  BY <1>1, PopPlaces DEF Busy
<1>8. \A a : At(a)' = At(a)
  BY <1>1 DEF At
<1>9. \A a \in LiveEntries : At(a).task # Running(p) /\ At(a).task \in Task /\ a \in Addr
  BY <1>2, <1>3, EntryFacts, AddrAssumption DEF TaskInv, FramesRun
<1>10. FrameStatus'
  <2> SUFFICES ASSUME NEW q \in Thread, NEW k \in Levels(q)'
               PROVE  status'[stack[q][k].task] = IF Ended(q, k)' THEN "finished" ELSE "running"
    BY <1>7 DEF FrameStatus
  <2>1. k \in Levels(q) /\ ~(q = p /\ k = Depth(p))
    BY <1>7
  <2>2. stack[q][k].task # Running(p) /\ stack[q][k].task \in Task
    BY <2>1, <1>2, FrameFacts DEF TaskInv, FramesApart
  <2>3. Ended(q, k)' <=> Ended(q, k)
    <3>1. CASE q = p
      BY <3>1, <1>1, <1>4 DEF Ended
    <3>2. CASE q # p
      BY <3>2, <1>4, <1>7 DEF Ended, Depth
    <3> QED
      BY <3>1, <3>2
  <2> QED
    BY <2>1, <2>2, <2>3, <1>6 DEF TaskInv, FrameStatus
<1>11. EntryStatus'
  <2>1. \A a \in Addr : InFrame(a)' = InFrame(a)
    BY <1>1, <1>2, <1>3, PlainFrames DEF ShapeInv, TypeOK, StackType
  <2>2. \A a \in LiveEntries : status'[At(a).task] = status[At(a).task]
    BY <1>6, <1>9
  <2> QED
    BY <1>1, <1>7, <1>8, <1>9, <2>1, <2>2 DEF TaskInv, EntryStatus
<1>12. CellCopies'
  BY <1>1, <1>8, CellsStay DEF TaskInv, ShapeInv
<1>13. OutWritten'
  BY <1>1, <1>4, <1>7, <1>8, OutStays
<1>14. ASSUME NEW t \in Task, Alive(t)' PROVE Alive(t) /\ t # Running(p)
  BY <1>6, <1>14 DEF Alive
<1>15. Located'
  <2> SUFFICES ASSUME NEW t \in Task, Alive(t)' PROVE InEntry(t)' \/ InCall(t)'
    BY DEF Located
  <2>1. InEntry(t)' <=> InEntry(t)
    BY <1>7, <1>8 DEF InEntry
  <2>2. ASSUME InCall(t) PROVE InCall(t)'
    <3>1. PICK q \in Thread : \E k \in Levels(q) : stack[q][k].task = t /\ stack[q][k].addr = NoAddr
      BY <2>2 DEF InCall
    <3>2. PICK k \in Levels(q) : stack[q][k].task = t /\ stack[q][k].addr = NoAddr
      BY <3>1
    <3>3. k \in Levels(q)'
      BY <1>2, <1>7, <1>14, <3>2
    <3> QED
      BY <1>7, <3>2, <3>3 DEF InCall
  <2> QED
    BY <2>1, <2>2, <1>14 DEF TaskInv, Located
<1>16. MasterOK'
  BY <1>4, <1>7, ThreadAssumption DEF TaskInv, MasterOK
<1>17. RootOK'
  <2> SUFFICES ASSUME stack'[Master] = << >>, NEW t \in Task, Alive(t)' PROVE FALSE
    BY DEF RootOK
  <2>1. CASE ReturnRoot(p)
    BY <2>1, <1>1, <1>3, <1>14, LastTask
  <2>2. CASE ReturnLocal(p)
    <3>1. stack[Master] = << >>
      <4>1. CASE p # Master
        BY <4>1, <1>7, ThreadAssumption
      <4>2. CASE p = Master
        BY <4>2, <2>2, <1>1, <1>2, <1>3, Popped DEF ShapeInv, TypeOK, StackType
      <4> QED
        BY <4>1, <4>2
    <3> QED
      BY <3>1, <1>14 DEF TaskInv, RootOK
  <2> QED
    BY <2>1, <2>2
<1> QED
  BY <1>6, <1>7, <1>10, <1>11, <1>12, <1>13, <1>15, <1>16, <1>17 DEF TaskInv, PlaceInv

-----------------------------------------------------------------------------
(* Frames that are entered *)

\* The thread starts the task of frame f, which is in no frame yet: a task that
\* was given to it, its own last entry, or a new task.
Enters(p, f) ==
  /\ Push(p, f) /\ f.base = tail'[p]
  /\ tail'[p] <= tail[p] /\ \A q \in Thread \ {p} : tail'[q] = tail[q]
  /\ deque' = deque
  /\ \A q \in Thread : \A k \in Levels(q) : stack[q][k].task # f.task
  /\ \A a \in LiveEntries' : f.task = At(a).task <=> f.addr = a
  /\ f.addr = NoAddr => parent'[f.task] = IF stack[p] = << >> THEN NoTask ELSE Running(p)
  /\ \A a \in LiveEntries : parent'[At(a).task] = parent[At(a).task]
  /\ \A q \in Thread : \A k \in Levels(q) :
       parent'[stack[q][k].task] = parent[stack[q][k].task]

LEMMA PushPlaces ==
  ASSUME HoldInv, TaskInv, NEW p \in Thread, NEW f \in Frame, Enters(p, f)
  PROVE  /\ PlaceInv' /\ LiveEntries' \subseteq LiveEntries
         /\ \A q \in Thread \ {p} : stack'[q] = stack[q] /\ Levels(q)' = Levels(q)
         /\ Levels(p)' = Levels(p) \cup {Depth(p) + 1} /\ Depth(p)' = Depth(p) + 1
         /\ Depth(p) + 1 \notin Levels(p)
         /\ stack'[p][Depth(p) + 1] = f /\ stack'[p] # << >>
         /\ \A q \in Thread : \A k \in Levels(q) : k \in Levels(q)' /\ stack'[q][k] = stack[q][k]
<1> USE DEF HoldInv, Enters
<1>1. StackType /\ Depth(p) \in Nat
  BY StackFacts DEF ShapeInv, TypeOK, StackType
<1> DEFINE n == Depth(p) + 1
<1>2. /\ \A q \in Thread \ {p} : stack'[q] = stack[q]
      /\ Depth(p)' = n /\ stack'[p][n] = f /\ stack'[p] # << >>
      /\ \A k \in Levels(p) : stack'[p][k] = stack[p][k]
  BY <1>1, Pushed
<1>3. \A q \in Thread \ {p} : Levels(q)' = Levels(q) /\ Depth(q)' = Depth(q)
  BY <1>2 DEF Levels, Depth
<1>4. Levels(p)' = Levels(p) \cup {n} /\ n \notin Levels(p) /\ n \in Nat
  BY <1>1, <1>2 DEF Levels
<1>5. \A q \in Thread : \A k \in Levels(q) : k \in Levels(q)' /\ stack'[q][k] = stack[q][k]
  BY <1>2, <1>3, <1>4
<1>6. \A q \in Thread : \A k \in Levels(q)' :
        \/ k \in Levels(q) /\ stack'[q][k] = stack[q][k]
        \/ q = p /\ k = n /\ stack'[q][k] = f
  BY <1>2, <1>3, <1>4
<1>7. tail \in [Thread -> Nat] /\ f.base \in Nat
  BY DEF ShapeInv, TypeOK, Frame
<1>8. LiveEntries' \subseteq LiveEntries /\ \A a : At(a)' = At(a)
  <2>1. ASSUME NEW a \in Addr, a[2] < tail'[a[1]] PROVE a[2] < tail[a[1]]
    <3>1. a[1] \in Thread /\ a[2] \in Nat
      BY DEF Addr, Index
    <3>2. CASE a[1] = p
      BY <1>7, <2>1, <3>1, <3>2
    <3>3. CASE a[1] # p
      BY <2>1, <3>1, <3>3
    <3> QED
      BY <3>2, <3>3
  <2> QED
    BY <2>1 DEF LiveEntries, At
<1> HIDE DEF n
<1>9. EntriesApart'
  BY <1>8 DEF TaskInv, EntriesApart
<1>10. FramesApart'
  <2> SUFFICES ASSUME NEW q \in Thread, NEW r \in Thread, NEW j \in Levels(q)', NEW k \in Levels(r)',
                      stack'[q][j].task = stack'[r][k].task
               PROVE  q = r /\ j = k
    BY DEF FramesApart
  <2>1. CASE j \in Levels(q) /\ k \in Levels(r)
    BY <2>1, <1>5 DEF TaskInv, FramesApart
  <2>2. CASE ~(j \in Levels(q) /\ k \in Levels(r))
    BY <2>2, <1>6
  <2> QED
    BY <2>1, <2>2
<1>11. FramesRun'
  <2> SUFFICES ASSUME NEW q \in Thread, NEW k \in Levels(q)', NEW a \in LiveEntries'
               PROVE  stack'[q][k].task = At(a).task <=> stack'[q][k].addr = a
    BY <1>8 DEF FramesRun
  <2> QED
    BY <1>6, <1>8 DEF TaskInv, FramesRun
<1>12. FrameFamily'
  <2> SUFFICES ASSUME NEW q \in Thread, NEW k \in Levels(q)', stack'[q][k].addr = NoAddr
               PROVE  parent'[stack'[q][k].task] =
                        IF k = 1 THEN NoTask ELSE stack'[q][k - 1].task
    BY DEF FrameFamily
  <2>1. CASE k \in Levels(q)
    <3>1. k # 1 => k - 1 \in Levels(q)
      BY <2>1, FrameFacts DEF Levels
    <3> QED
      BY <1>5, <2>1, <3>1 DEF TaskInv, FrameFamily
  <2>2. CASE k \notin Levels(q)
    <3>1. q = p /\ k = n /\ stack'[q][k] = f
      BY <1>6, <2>2
    <3>2. CASE stack[p] = << >>
      <4>1. n = 1
        BY <3>2, <1>1, StackFacts DEF n
      <4> QED
        BY <3>1, <3>2, <4>1
    <3>3. CASE stack[p] # << >>
      <4>1. n # 1 /\ n - 1 = Depth(p)
        BY <3>3, <1>1, StackFacts DEF n
      <4>2. Depth(p) \in Levels(p) /\ Running(p) = stack[p][Depth(p)].task
        BY <3>3, <1>1, StackFacts DEF Running, Top
      <4> QED
        BY <1>5, <3>1, <3>3, <4>1, <4>2
    <3> QED
      BY <3>2, <3>3
  <2> QED
    BY <2>1, <2>2
<1>13. EntryFamily'
  <2> SUFFICES ASSUME NEW a \in LiveEntries'
               PROVE  \E k \in Levels(a[1])' :
                        Between(a[1], k, a[2])' /\ parent'[At(a).task] = stack'[a[1]][k].task
    BY <1>8 DEF EntryFamily
  <2>1. /\ a[1] \in Thread /\ a[2] \in Nat /\ a[2] < tail[a[1]] /\ tail[a[1]] \in Nat
        /\ a[2] < tail'[a[1]] /\ a \in LiveEntries
    BY <1>8, EntryFacts DEF LiveEntries
  <2>2. PICK k \in Levels(a[1]) :
          Between(a[1], k, a[2]) /\ parent[At(a).task] = stack[a[1]][k].task
    BY <2>1 DEF TaskInv, EntryFamily
  <2>3. k \in Nat /\ k <= Depth(a[1]) /\ Depth(a[1]) \in Nat
    BY <2>1, FrameFacts
  <2>4. Between(a[1], k, a[2])'
    <3>1. CASE a[1] = p /\ k = Depth(p)
      <4>1. a[2] < stack'[p][k + 1].base /\ stack'[p][k] = stack[p][k]
        BY <1>2, <1>5, <2>1, <3>1 DEF n
      <4> QED
        BY <2>2, <3>1, <4>1 DEF Between
    <3>2. CASE ~(a[1] = p /\ k = Depth(p))
      <4>1. k < Depth(a[1])' => k < Depth(a[1])
        BY <1>2, <1>3, <2>1, <2>3, <3>2 DEF n
      <4>2. k < Depth(a[1]) => k + 1 \in Levels(a[1])
        BY <2>3 DEF Levels
      <4> QED
        BY <1>5, <2>1, <2>2, <4>1, <4>2 DEF Between
    <3> QED
      BY <3>1, <3>2
  <2>5. parent'[At(a).task] = parent[At(a).task]
    BY <2>1
  <2> QED
    BY <1>5, <2>1, <2>2, <2>4, <2>5
<1> QED
  BY <1>2, <1>3, <1>4, <1>5, <1>8, <1>9, <1>10, <1>11, <1>12, <1>13 DEF PlaceInv, n

LEMMA PushTasks ==
  ASSUME ProtocolInv, HoldInv, TaskInv, NEW p \in Thread, NEW f \in Frame, Enters(p, f),
         UNCHANGED <<put, doneFlight, cell>>, \A q \in Thread : sem'[q] > 0 => sem[q] > 0,
         pc[p] # "wb", pc'[p] = "run", \A q \in Thread \ {p} : pc'[q] = pc[q],
         FreshOK', status'[f.task] = "running",
         \A u \in Task \ {f.task} : status'[u] = status[u],
         f.addr # NoAddr =>
           f.addr \in LiveEntries' /\ f.addr \notin doneFlight /\ ~At(f.addr).done,
         \A a \in LiveEntries : a \notin LiveEntries' => At(a).task = f.task,
         p = Master => f.back # "part",
         p # Master => \E u \in Task : Alive(u)
  PROVE  TaskInv'
<1> USE DEF HoldInv
<1>1. /\ PlaceInv' /\ LiveEntries' \subseteq LiveEntries
      /\ \A q \in Thread \ {p} : stack'[q] = stack[q] /\ Levels(q)' = Levels(q)
      /\ Levels(p)' = Levels(p) \cup {Depth(p) + 1} /\ Depth(p)' = Depth(p) + 1
      /\ Depth(p) + 1 \notin Levels(p)
      /\ stack'[p][Depth(p) + 1] = f /\ stack'[p] # << >>
      /\ \A q \in Thread : \A k \in Levels(q) : k \in Levels(q)' /\ stack'[q][k] = stack[q][k]
  BY PushPlaces
<1>2. /\ \A a : At(a)' = At(a)
      /\ \A q \in Thread : \A k \in Levels(q) : stack[q][k].task # f.task
      /\ \A a \in LiveEntries' : f.task = At(a).task <=> f.addr = a
      /\ Push(p, f)
  BY DEF Enters, At
<1>3. f.task \in Task /\ f.addr \in Addr \cup {NoAddr}
  BY DEF Frame
<1>4. FrameStatus'
  <2> SUFFICES ASSUME NEW q \in Thread, NEW k \in Levels(q)'
               PROVE  status'[stack'[q][k].task] = IF Ended(q, k)' THEN "finished" ELSE "running"
    BY DEF FrameStatus
  <2>1. CASE k \in Levels(q)
    <3>1. /\ stack'[q][k] = stack[q][k] /\ stack[q][k].task \in Task
          /\ stack[q][k].task # f.task
      BY <2>1, <1>1, <1>2, FrameFacts
    <3>2. Ended(q, k)' <=> Ended(q, k)
      <4>1. CASE q = p
        BY <4>1 DEF Ended
      <4>2. CASE q # p
        BY <4>2, <1>1 DEF Ended, Depth
      <4> QED
        BY <4>1, <4>2
    <3> QED
      BY <2>1, <3>1, <3>2 DEF TaskInv, FrameStatus
  <2>2. CASE k \notin Levels(q)
    BY <2>2, <1>1 DEF Ended
  <2> QED
    BY <2>1, <2>2
<1>5. EntryStatus'
  <2> SUFFICES ASSUME NEW a \in LiveEntries'
               PROVE  IF a \in doneFlight \/ At(a).done
                        THEN status'[At(a).task] = "finished" /\ At(a).out = At(a).task
                        ELSE InFrame(a)' = {} => status'[At(a).task] = "ready"
    BY <1>2 DEF EntryStatus
  <2>1. a \in LiveEntries /\ a \in Addr /\ At(a).task \in Task
    BY <1>1, EntryFacts
  <2>2. StackType
    BY DEF ShapeInv, TypeOK, StackType
  <2>3. InFrame(a)' = InFrame(a) \cup (IF f.addr = a THEN {<<p, Depth(p) + 1>>} ELSE {})
    BY <1>2, <2>2, FramePushed
  <2>4. CASE f.addr = a
    BY <2>1, <2>3, <2>4, AddrAssumption
  <2>5. CASE f.addr # a
    <3>1. status'[At(a).task] = status[At(a).task]
      BY <1>2, <2>1, <2>5
    <3>2. InFrame(a)' = InFrame(a)
      BY <2>3, <2>5
    <3> QED
      BY <2>1, <3>1, <3>2 DEF TaskInv, EntryStatus
  <2> QED
    BY <2>4, <2>5
<1>6. CellCopies'
  BY <1>2, CellsStay DEF TaskInv, ShapeInv
<1>7. OutWritten'
  BY <1>1, <1>2, OutStays
<1>8. Located'
  <2> SUFFICES ASSUME NEW t \in Task, Alive(t)' PROVE InEntry(t)' \/ InCall(t)'
    BY DEF Located
  <2>1. CASE t = f.task /\ f.addr = NoAddr
    BY <2>1, <1>1 DEF InCall
  <2>2. CASE t = f.task /\ f.addr # NoAddr
    BY <2>2, <1>2 DEF InEntry
  <2>3. CASE t # f.task
    <3>1. Alive(t)
      BY <2>3 DEF Alive
    <3>2. CASE InEntry(t)
      BY <3>2, <2>3, <1>2 DEF InEntry
    <3>3. CASE InCall(t)
      <4>1. PICK q \in Thread : \E k \in Levels(q) : stack[q][k].task = t /\ stack[q][k].addr = NoAddr
        BY <3>3 DEF InCall
      <4>2. PICK k \in Levels(q) : stack[q][k].task = t /\ stack[q][k].addr = NoAddr
        BY <4>1
      <4> QED
        BY <1>1, <4>2 DEF InCall
    <3> QED
      BY <3>1, <3>2, <3>3 DEF TaskInv, Located
  <2> QED
    BY <2>1, <2>2, <2>3
<1>9. MasterOK'
  <2>1. pc'[Master] # "part"
    BY ThreadAssumption DEF TaskInv, MasterOK
  <2>2. ASSUME NEW k \in Levels(Master)' PROVE stack'[Master][k].back # "part"
    <3>1. CASE k \in Levels(Master)
      BY <3>1, <1>1, ThreadAssumption DEF TaskInv, MasterOK
    <3>2. CASE k \notin Levels(Master)
      BY <3>2, <1>1, ThreadAssumption
    <3> QED
      BY <3>1, <3>2
  <2> QED
    BY <2>1, <2>2 DEF MasterOK
<1>10. RootOK'
  BY <1>1, ThreadAssumption DEF TaskInv, RootOK
<1> QED
  BY <1>1, <1>4, <1>5, <1>6, <1>7, <1>8, <1>9, <1>10 DEF TaskInv, PlaceInv

\* A task received from another thread: its entry has no other holder.
LEMMA ReceivedReady ==
  ASSUME ProtocolInv, HoldInv, TaskInv, NEW p \in Thread, sem[p] > 0, cell[p] # Refused
  PROVE  LET b == cell[p].addr
         IN  /\ b \in LiveEntries /\ InFrame(b) = {} /\ b \notin doneFlight /\ ~At(b).done
             /\ cell[p].task = At(b).task /\ status[At(b).task] = "ready"
<1> USE DEF HoldInv
<1>1. PICK b \in Addr : b = cell[p].addr
  BY Holding DEF ProtocolInv
<1>2. Given(b) /\ p \in InCell(b)
  BY <1>1, Holding DEF ProtocolInv
<1>3. InFrame(b) = {} /\ b \notin doneFlight /\ ~At(b).done
  BY <1>2, OneHolder DEF ProtocolInv, Given
<1>4. b \in LiveEntries
  BY <1>2, GivenIn
<1>5. cell[p].task = At(b).task /\ status[At(b).task] = "ready"
  BY <1>1, <1>3, <1>4 DEF TaskInv, CellCopies, EntryStatus
<1> QED
  BY <1>1, <1>3, <1>4, <1>5

LEMMA StealRunTasks ==
  ASSUME ProtocolInv, HoldInv, TaskInv, NEW p \in Thread, StealRun(p)
  PROVE  TaskInv'
<1> USE DEF HoldInv
<1>1. /\ UNCHANGED <<deque, tail, parent, nextTask, cell, put, doneFlight>>
      /\ sem' = [sem EXCEPT ![p] = @ - 1] /\ sem[p] > 0 /\ cell[p] # Refused
      /\ status' = [status EXCEPT ![cell[p].task] = "running"] /\ pc' = [pc EXCEPT ![p] = "run"]
      /\ Push(p, [task |-> cell[p].task, addr |-> cell[p].addr,
                  back |-> AfterSuccess(pc[p]), base |-> tail[p]])
      /\ Waiting(p)
  BY DEF StealRun, Goto, dequeVars, netVars
<1>2. PICK b \in Addr : b = cell[p].addr
  BY <1>1, Holding DEF ProtocolInv
<1>3. /\ b \in LiveEntries /\ InFrame(b) = {} /\ b \notin doneFlight /\ ~At(b).done
      /\ cell[p].task = At(b).task /\ status[At(b).task] = "ready" /\ At(b).task \in Task
  BY <1>1, <1>2, ReceivedReady, EntryFacts
<1>4. /\ pc[p] \in {"part", "leap", "sweep"} /\ pc[p] # "wb"
      /\ AfterSuccess(pc[p]) \in {"part", "leap", "sweep"}
      /\ AfterSuccess(pc[p]) = "part" => pc[p] = "part"
  <2>1. pc[p] \in {"part", "leap", "sweep"}
    BY <1>1 DEF Waiting, ShapeInv, LocationOK, StealBack
  <2> QED
    BY <2>1 DEF AfterSuccess
<1>5. PICK f \in Frame :
        /\ f = [task |-> At(b).task, addr |-> b, back |-> AfterSuccess(pc[p]), base |-> tail[p]]
        /\ f.task = At(b).task /\ f.addr = b /\ f.base = tail[p] /\ f.back = AfterSuccess(pc[p])
  <2>1. tail[p] \in 0 .. DequeSize
    BY DEF ShapeInv, TypeOK
  <2>2. [task |-> At(b).task, addr |-> b, back |-> AfterSuccess(pc[p]), base |-> tail[p]] \in Frame
    BY <1>3, <1>4, <2>1 DEF Frame
  <2> QED
    BY <2>2
<1>6. b # NoAddr
  BY AddrAssumption
<1>7. Enters(p, f)
  <2>1. tail'[p] <= tail[p] /\ \A q \in Thread \ {p} : tail'[q] = tail[q]
    BY <1>1, Counters0 DEF ShapeInv
  <2>2. \A q \in Thread : \A k \in Levels(q) : stack[q][k].task # f.task
    <3> SUFFICES ASSUME NEW q \in Thread, NEW k \in Levels(q)
                 PROVE  stack[q][k].task # f.task
      OBVIOUS
    <3>1. stack[q][k].addr # b
      BY <1>3, FrameIn
    <3> QED
      BY <1>3, <1>5, <3>1 DEF TaskInv, FramesRun
  <2>3. \A a \in LiveEntries' : f.task = At(a).task <=> f.addr = a
    BY <1>1, <1>3, <1>5, SameEntries DEF TaskInv, EntriesApart
  <2> QED
    BY <1>1, <1>2, <1>3, <1>5, <1>6, <2>1, <2>2, <2>3 DEF Enters
<1>8. /\ FreshOK' /\ status'[f.task] = "running"
      /\ \A u \in Task \ {f.task} : status'[u] = status[u]
  <2>1. /\ f.task \in Task /\ status[f.task] # "none" /\ UNCHANGED <<nextTask, parent>>
        /\ status' = [status EXCEPT ![f.task] = "running"]
    BY <1>1, <1>3, <1>5
  <2> QED
    BY <2>1, StatusWritten DEF TaskInv, ShapeInv
<1>9. \A q \in Thread : sem'[q] > 0 => sem[q] > 0
  BY <1>1 DEF ShapeInv, TypeOK
<1>10. pc'[p] = "run" /\ \A q \in Thread \ {p} : pc'[q] = pc[q]
  BY <1>1 DEF ShapeInv, TypeOK
<1>11. p = Master => f.back # "part"
  BY <1>4, <1>5 DEF TaskInv, MasterOK
<1>12. \E u \in Task : Alive(u)
  BY <1>3 DEF Alive
<1>13. LiveEntries' = LiveEntries
  BY <1>1, SameEntries
<1> QED
  BY <1>1, <1>3, <1>4, <1>5, <1>7, <1>8, <1>9, <1>10, <1>11, <1>12, <1>13, PushTasks

\* The last entry of a thread that joins was spawned by the frame on top.
LEMMA LastSpawned ==
  ASSUME HoldInv, TaskInv, NEW p \in Thread, pc[p] \in {"sync", "leap", "sweep"}
  PROVE  parent[Last(p).task] = Running(p)
<1> USE DEF HoldInv
<1> DEFINE a == <<p, tail[p] - 1>>
<1>1. /\ a \in LiveEntries /\ At(a) = Last(p) /\ tail[p] - 1 \in Nat /\ tail[p] \in Nat
      /\ Top(p).base <= tail[p] - 1
  BY LastFacts
<1>2. a[1] = p /\ a[2] = tail[p] - 1
  OBVIOUS
<1> HIDE DEF a
<1>3. PICK k \in Levels(p) : Between(p, k, tail[p] - 1) /\ parent[Last(p).task] = stack[p][k].task
  BY <1>1, <1>2 DEF TaskInv, EntryFamily
<1>4. /\ Depth(p) \in Levels(p) /\ Top(p) = stack[p][Depth(p)] /\ stack[p] # << >>
      /\ Running(p) = stack[p][Depth(p)].task
  BY TopFacts DEF Busy
<1>5. k = Depth(p)
  <2> SUFFICES ASSUME k # Depth(p) PROVE FALSE
    OBVIOUS
  <2>1. k \in Nat /\ k < Depth(p) /\ Depth(p) \in Nat
    BY FrameFacts
  <2>2. k + 1 \in Levels(p)
    BY <2>1 DEF Levels
  <2>3. stack[p][k + 1].base \in Nat /\ stack[p][k + 1].base <= Top(p).base /\ Top(p).base \in Nat
    BY <1>4, <2>2, TopAbove DEF ShapeInv
  <2>4. tail[p] - 1 < stack[p][k + 1].base
    BY <1>3, <2>1 DEF Between
  <2> QED
    BY <1>1, <2>3, <2>4
<1> QED
  BY <1>3, <1>4, <1>5

\* A task popped unstolen is ready, and nobody else has it.
LEMMA InlineReady ==
  ASSUME ProtocolInv, HoldInv, TaskInv, NEW p \in Thread, pc[p] = "sync", Last(p).thief = Nobody
  PROVE  LET b == <<p, tail[p] - 1>>
         IN  b \in LiveEntries /\ ~Given(b) /\ InFrame(b) = {} /\ status[At(b).task] = "ready"
             /\ At(b) = Last(p) /\ At(b).task \in Task
<1> USE DEF HoldInv
<1>1. PICK b \in Addr : b = <<p, tail[p] - 1>> /\ b[1] = p /\ b[2] = tail[p] - 1
  BY LastFacts, EntryFacts
<1>2. b \in LiveEntries /\ At(b) = Last(p) /\ b[2] \in Nat /\ EntryOK(p, b[2]) /\ At(b).task \in Task
  BY <1>1, LastFacts, EntryFacts
<1>3. head[p] \in Nat
  BY DEF ShapeInv, TypeOK
<1>4. ~(b[2] < head[p])
  BY <1>1, <1>2 DEF EntryOK, Last
<1>5. ~At(b).done /\ ~Given(b)
  BY <1>1, <1>2, <1>3, <1>4 DEF EntryOK, At, Given
<1>6. InFrame(b) = {} /\ b \notin doneFlight
  BY <1>5, OneHolder DEF ProtocolInv
<1>7. status[At(b).task] = "ready"
  BY <1>2, <1>5, <1>6 DEF TaskInv, EntryStatus
<1> QED
  BY <1>1, <1>2, <1>5, <1>6, <1>7

LEMMA InlineTasks ==
  ASSUME ProtocolInv, HoldInv, TaskInv, NEW p \in Thread, SyncInline(p)
  PROVE  TaskInv'
<1> USE DEF HoldInv
<1>1. /\ UNCHANGED <<deque, parent, nextTask, cell, sem, put, doneFlight>>
      /\ tail' = [tail EXCEPT ![p] = @ - 1]
      /\ status' = [status EXCEPT ![Last(p).task] = "running"] /\ pc' = [pc EXCEPT ![p] = "run"]
      /\ Push(p, [task |-> Last(p).task, addr |-> NoAddr, back |-> "run", base |-> tail[p] - 1])
      /\ pc[p] = "sync" /\ Last(p).thief = Nobody
  BY DEF SyncInline, Goto, netVars
<1>2. PICK b \in Addr : b = <<p, tail[p] - 1>> /\ b[1] = p /\ b[2] = tail[p] - 1
  BY <1>1, LastFacts, EntryFacts
<1>3. /\ b \in LiveEntries /\ ~Given(b) /\ InFrame(b) = {} /\ status[At(b).task] = "ready"
      /\ At(b) = Last(p) /\ At(b).task \in Task
  BY <1>1, <1>2, InlineReady
<1>4. tail \in [Thread -> 0 .. DequeSize] /\ DequeSize \in Nat /\ tail[p] - 1 \in Nat
  BY <1>1, LastFacts, BoundAssumption DEF ShapeInv, TypeOK
<1>5. /\ tail'[p] = tail[p] - 1 /\ tail'[p] <= tail[p] /\ tail[p] - 1 \in 0 .. DequeSize
      /\ \A q \in Thread \ {p} : tail'[q] = tail[q]
  BY <1>1, <1>4
<1>6. PICK f \in Frame :
        /\ f = [task |-> Last(p).task, addr |-> NoAddr, back |-> "run", base |-> tail[p] - 1]
        /\ f.task = At(b).task /\ f.addr = NoAddr /\ f.base = tail[p] - 1 /\ f.back = "run"
  <2>1. [task |-> Last(p).task, addr |-> NoAddr, back |-> "run", base |-> tail[p] - 1] \in Frame
    BY <1>3, <1>5 DEF Frame
  <2> QED
    BY <1>3, <2>1
<1>7. LiveEntries' = LiveEntries \ {b}
  <2>1. ASSUME NEW a \in Addr PROVE a[2] < tail'[a[1]] <=> a[2] < tail[a[1]] /\ a # b
    <3>1. a[1] \in Thread /\ a[2] \in Nat /\ a = <<a[1], a[2]>>
      BY DEF Addr, Index
    <3>2. CASE a[1] = p
      BY <1>2, <1>4, <1>5, <3>1, <3>2
    <3>3. CASE a[1] # p
      BY <1>2, <1>5, <3>1, <3>3
    <3> QED
      BY <3>2, <3>3
  <2> QED
    BY <2>1 DEF LiveEntries
<1>8. Enters(p, f)
  <2>1. \A q \in Thread : \A k \in Levels(q) : stack[q][k].task # f.task
    <3> SUFFICES ASSUME NEW q \in Thread, NEW k \in Levels(q)
                 PROVE  stack[q][k].task # f.task
      OBVIOUS
    <3>1. stack[q][k].addr # b
      BY <1>3, FrameIn
    <3> QED
      BY <1>3, <1>6, <3>1 DEF TaskInv, FramesRun
  <2>2. \A a \in LiveEntries' : f.task = At(a).task <=> f.addr = a
    BY <1>3, <1>6, <1>7, AddrAssumption, EntryFacts DEF TaskInv, EntriesApart
  <2>3. stack[p] # << >>
    BY <1>1, TopFacts DEF Busy
  <2>4. parent[f.task] = Running(p)
    BY <1>1, <1>3, <1>6, LastSpawned
  <2> QED
    BY <1>1, <1>5, <1>6, <2>1, <2>2, <2>3, <2>4 DEF Enters
<1>9. /\ FreshOK' /\ status'[f.task] = "running"
      /\ \A u \in Task \ {f.task} : status'[u] = status[u]
  BY <1>1, <1>3, <1>6, StatusWritten DEF TaskInv, ShapeInv
<1>10. pc'[p] = "run" /\ \A q \in Thread \ {p} : pc'[q] = pc[q]
  BY <1>1 DEF ShapeInv, TypeOK
<1>11. \E u \in Task : Alive(u)
  BY <1>3 DEF Alive
<1>12. \A a \in LiveEntries : a \notin LiveEntries' => At(a).task = f.task
  BY <1>6, <1>7
<1> QED
  BY <1>1, <1>6, <1>8, <1>9, <1>10, <1>11, <1>12, PushTasks

-----------------------------------------------------------------------------
(* Tasks that are created, and tasks that are joined *)

LEMMA Born ==
  ASSUME HoldInv, TaskInv, nextTask <= MaxTasks, nextTask' = nextTask + 1,
         NEW v \in {"ready", "running"}, status' = [status EXCEPT ![nextTask] = v],
         parent'[nextTask] = NoTask \/ parent'[nextTask] < nextTask,
         \A u \in Task \ {nextTask} : parent'[u] = parent[u]
  PROVE  /\ nextTask \in Task /\ ~Alive(nextTask) /\ FreshOK' /\ status'[nextTask] = v
         /\ status[nextTask] = "none" /\ parent[nextTask] = NoTask
         /\ \A u \in Task \ {nextTask} : status'[u] = status[u]
         /\ \A a \in LiveEntries : At(a).task # nextTask
         /\ \A q \in Thread : \A k \in Levels(q) : stack[q][k].task # nextTask
<1> USE DEF HoldInv
<1>1. nextTask \in Task /\ nextTask \in Nat
  BY BoundAssumption DEF Task, ShapeInv, TypeOK
<1>2. status[nextTask] = "none" /\ parent[nextTask] = NoTask /\ ~Alive(nextTask)
  BY <1>1 DEF TaskInv, FreshOK, Alive
<1>3. status'[nextTask] = v /\ \A u \in Task \ {nextTask} : status'[u] = status[u]
  BY <1>1 DEF ShapeInv, TypeOK
<1>4. FreshOK'
  <2> SUFFICES ASSUME NEW u \in Task
               PROVE  /\ status'[u] = "none" <=> nextTask + 1 <= u
                      /\ nextTask + 1 <= u => parent'[u] = NoTask
                      /\ parent'[u] # NoTask => parent'[u] < u
    BY DEF FreshOK
  <2>1. u \in Nat
    BY BoundAssumption DEF Task
  <2>2. CASE u = nextTask
    BY <2>1, <2>2, <1>1, <1>3
  <2>3. CASE u # nextTask
    <3>1. nextTask + 1 <= u <=> nextTask <= u
      BY <2>1, <2>3, <1>1
    <3> QED
      BY <2>3, <3>1, <1>3 DEF TaskInv, FreshOK
  <2> QED
    BY <2>2, <2>3
<1> QED
  BY <1>1, <1>2, <1>3, <1>4, Nowhere DEF TaskInv

\* The task that creates another is older.
LEMMA CreatorOlder ==
  ASSUME HoldInv, TaskInv, NEW p \in Thread, pc[p] = "run"
  PROVE  Running(p) \in Task /\ Running(p) < nextTask /\ status[Running(p)] = "running"
<1> USE DEF HoldInv
<1>1. /\ Depth(p) \in Levels(p) /\ Running(p) \in Task /\ Running(p) = stack[p][Depth(p)].task
  BY TopFacts DEF Busy
<1>2. status[Running(p)] = "running"
  BY <1>1, FrameAlive DEF TaskInv
<1>3. ~(nextTask <= Running(p))
  BY <1>1, <1>2 DEF TaskInv, FreshOK
<1>4. nextTask \in Nat /\ Running(p) \in Nat
  BY <1>1, BoundAssumption DEF ShapeInv, TypeOK, Task
<1> QED
  BY <1>1, <1>2, <1>3, <1>4

LEMMA CallTasks ==
  ASSUME ProtocolInv, HoldInv, TaskInv, NEW p \in Thread, Call(p) \/ Initiate(p)
  PROVE  TaskInv'
<1> USE DEF HoldInv
<1>1. /\ UNCHANGED <<deque, tail, cell, sem, put, doneFlight>>
      /\ nextTask' = nextTask + 1 /\ nextTask <= MaxTasks
      /\ status' = [status EXCEPT ![nextTask] = "running"]
  BY DEF Call, Initiate, MayCreate, dequeVars, netVars
<1>2. /\ pc[p] # "wb" /\ pc'[p] = "run" /\ \A q \in Thread \ {p} : pc'[q] = pc[q]
  BY DEF Call, Initiate, InHandler, Goto, ShapeInv, TypeOK
<1>3. PICK bk \in {"bar2", "run"} :
        /\ Push(p, [task |-> nextTask, addr |-> NoAddr, back |-> bk, base |-> tail[p]])
  BY DEF Call, Initiate
<1>4. /\ Call(p) => pc[p] = "run" /\ stack[p] # << >>
                    /\ parent' = [parent EXCEPT ![nextTask] = Running(p)]
      /\ Initiate(p) => p = Master /\ stack[p] = << >> /\ parent' = parent
  BY DEF Call, Initiate, InHandler, Busy, ShapeInv, StackOK
<1>5. nextTask \in Task /\ \A u \in Task \ {nextTask} : parent'[u] = parent[u]
  <2>1. nextTask \in Task
    BY <1>1, BoundAssumption DEF Task, ShapeInv, TypeOK
  <2> QED
    BY <2>1, <1>4 DEF ShapeInv, TypeOK
<1>6. /\ Call(p) => parent'[nextTask] = Running(p) /\ Running(p) < nextTask
      /\ Initiate(p) => parent'[nextTask] = NoTask
  <2>1. CASE Call(p)
    BY <2>1, <1>4, <1>5, CreatorOlder DEF ShapeInv, TypeOK, Initiate, InHandler
  <2>2. CASE Initiate(p)
    BY <2>2, <1>1, <1>4, <1>5 DEF TaskInv, FreshOK, ShapeInv, TypeOK, Call, InHandler
  <2> QED
    BY <2>1, <2>2
<1>7. /\ nextTask \in Task /\ ~Alive(nextTask) /\ FreshOK' /\ status'[nextTask] = "running"
      /\ \A u \in Task \ {nextTask} : status'[u] = status[u]
      /\ \A a \in LiveEntries : At(a).task # nextTask
      /\ \A q \in Thread : \A k \in Levels(q) : stack[q][k].task # nextTask
  BY <1>1, <1>5, <1>6, Born
<1>8. PICK f \in Frame :
        /\ f = [task |-> nextTask, addr |-> NoAddr, back |-> bk, base |-> tail[p]]
        /\ f.task = nextTask /\ f.addr = NoAddr /\ f.base = tail[p] /\ f.back = bk
  <2>1. tail[p] \in 0 .. DequeSize
    BY DEF ShapeInv, TypeOK
  <2>2. [task |-> nextTask, addr |-> NoAddr, back |-> bk, base |-> tail[p]] \in Frame
    BY <1>5, <2>1 DEF Frame
  <2> QED
    BY <2>2
<1>9. LiveEntries' = LiveEntries
  BY <1>1, SameEntries
<1>10. Enters(p, f)
  <2>1. tail'[p] <= tail[p] /\ \A q \in Thread \ {p} : tail'[q] = tail[q]
    BY <1>1, Counters0 DEF ShapeInv
  <2>2. \A a \in LiveEntries' : f.task = At(a).task <=> f.addr = a
    BY <1>7, <1>8, <1>9, AddrAssumption, EntryFacts
  <2>3. parent'[f.task] = IF stack[p] = << >> THEN NoTask ELSE Running(p)
    BY <1>4, <1>6, <1>8
  <2>4. \A a \in LiveEntries : parent'[At(a).task] = parent[At(a).task]
    BY <1>5, <1>7, EntryFacts
  <2>5. \A q \in Thread : \A k \in Levels(q) :
          parent'[stack[q][k].task] = parent[stack[q][k].task]
    BY <1>5, <1>7, FrameFacts
  <2> QED
    BY <1>1, <1>3, <1>7, <1>8, <2>1, <2>2, <2>3, <2>4, <2>5 DEF Enters
<1>11. p # Master => \E u \in Task : Alive(u)
  BY <1>4, CreatorOlder DEF Alive
<1> QED
  BY <1>1, <1>2, <1>7, <1>8, <1>9, <1>10, <1>11, PushTasks

LEMMA SpawnTasks ==
  ASSUME ProtocolInv, HoldInv, TaskInv, NEW p \in Thread, Spawn(p)
  PROVE  TaskInv'
<1> USE DEF HoldInv
<1>1. /\ UNCHANGED <<head, cell, sem, put, doneFlight, stack, pc>>
      /\ nextTask' = nextTask + 1 /\ nextTask <= MaxTasks
      /\ status' = [status EXCEPT ![nextTask] = "ready"]
      /\ parent' = [parent EXCEPT ![nextTask] = Running(p)]
      /\ tail' = [tail EXCEPT ![p] = @ + 1] /\ tail[p] < DequeSize /\ pc[p] = "run"
  BY DEF Spawn, MayCreate, InHandler, netVars, pollVars
<1>2. nextTask \in Task /\ tail \in [Thread -> Nat] /\ tail[p] \in Index
  BY <1>1, BoundAssumption DEF Task, Index, ShapeInv, TypeOK
<1>3. parent'[nextTask] = Running(p) /\ \A u \in Task \ {nextTask} : parent'[u] = parent[u]
  BY <1>1, <1>2 DEF ShapeInv, TypeOK
<1>4. Running(p) \in Task /\ Running(p) < nextTask /\ status[Running(p)] = "running"
  BY <1>1, CreatorOlder
<1>5. /\ ~Alive(nextTask) /\ FreshOK' /\ status'[nextTask] = "ready"
      /\ \A u \in Task \ {nextTask} : status'[u] = status[u]
      /\ \A a \in LiveEntries : At(a).task # nextTask
      /\ \A q \in Thread : \A k \in Levels(q) : stack[q][k].task # nextTask
  BY <1>1, <1>3, <1>4, Born
<1>6. PICK c \in Addr : c = <<p, tail[p]>> /\ c[1] = p /\ c[2] = tail[p]
  <2>1. <<p, tail[p]>> \in Addr
    BY <1>2 DEF Addr
  <2> QED
    BY <2>1
<1>7. LiveEntries' = LiveEntries \cup {c} /\ c \notin LiveEntries
  <2>1. ASSUME NEW a \in Addr PROVE a[2] < tail'[a[1]] <=> a[2] < tail[a[1]] \/ a = c
    <3>1. a[1] \in Thread /\ a[2] \in Nat /\ a = <<a[1], a[2]>>
      BY DEF Addr, Index
    <3>2. CASE a[1] = p
      BY <1>1, <1>2, <1>6, <3>1, <3>2
    <3>3. CASE a[1] # p
      BY <1>1, <1>2, <1>6, <3>1, <3>3
    <3> QED
      BY <3>2, <3>3
  <2>2. ~(c[2] < tail[c[1]])
    BY <1>2, <1>6
  <2> QED
    BY <2>1, <2>2 DEF LiveEntries
<1>8. /\ At(c)'.task = nextTask /\ ~At(c)'.done
      /\ \A a \in LiveEntries : At(a)' = At(a)
  <2>1. deque \in [Thread -> [Index -> Entry]]
    BY DEF ShapeInv, TypeOK
  <2>2. deque' = [deque EXCEPT ![p][tail[p]] =
          [task |-> nextTask, thief |-> Nobody, done |-> FALSE, out |-> @.out]]
    BY DEF Spawn
  <2>3. At(c)'.task = nextTask /\ At(c)'.done = FALSE
    BY <1>2, <1>6, <2>1, <2>2 DEF At
  <2>4. ASSUME NEW a \in LiveEntries PROVE At(a)' = At(a)
    <3>1. a[1] \in Thread /\ a[2] \in Index /\ a # c /\ a = <<a[1], a[2]>>
      BY <1>7, EntryFacts
    <3> QED
      BY <1>2, <1>6, <2>1, <2>2, <3>1 DEF At
  <2> QED
    BY <2>3, <2>4
<1>9. \A q : Levels(q)' = Levels(q) /\ Depth(q)' = Depth(q)
  BY <1>1, SameLevels
<1>10. ~Given(c) /\ InFrame(c) = {} /\ c \notin doneFlight
  <2>1. ~Given(c)
    BY <1>7, GivenIn
  <2> QED
    BY <2>1, OneHolder DEF ProtocolInv
<1>11. \A a \in LiveEntries : At(a).task \in Task /\ parent'[At(a).task] = parent[At(a).task]
                             /\ status'[At(a).task] = status[At(a).task]
  BY <1>3, <1>5, EntryFacts
<1>12. \A q \in Thread : \A k \in Levels(q) :
         /\ parent'[stack[q][k].task] = parent[stack[q][k].task]
         /\ status'[stack[q][k].task] = status[stack[q][k].task]
  BY <1>3, <1>5, FrameFacts
<1>13. EntriesApart'
  BY <1>5, <1>7, <1>8 DEF TaskInv, EntriesApart
<1>14. FramesApart'
  BY <1>1, <1>9 DEF TaskInv, FramesApart
<1>15. FramesRun'
  <2> SUFFICES ASSUME NEW q \in Thread, NEW k \in Levels(q), NEW a \in LiveEntries'
               PROVE  stack[q][k].task = At(a)'.task <=> stack[q][k].addr = a
    BY <1>1, <1>9 DEF FramesRun
  <2>1. CASE a = c
    BY <2>1, <1>5, <1>8, <1>10, FrameIn
  <2>2. CASE a # c
    BY <2>2, <1>7, <1>8 DEF TaskInv, FramesRun
  <2> QED
    BY <2>1, <2>2
<1>16. EntryFamily'
  <2> SUFFICES ASSUME NEW a \in LiveEntries'
               PROVE  \E k \in Levels(a[1]) :
                        Between(a[1], k, a[2]) /\ parent'[At(a)'.task] = stack[a[1]][k].task
    BY <1>1, <1>9 DEF EntryFamily, Between
  <2>1. CASE a = c
    <3>1. /\ Depth(p) \in Levels(p) /\ Top(p) = stack[p][Depth(p)]
          /\ Running(p) = stack[p][Depth(p)].task
      BY <1>1, TopFacts DEF Busy
    <3>2. Top(p).base <= tail[p] /\ Depth(p) \in Nat
      BY <3>1, FrameFacts DEF FrameOK
    <3> QED
      BY <2>1, <3>1, <3>2, <1>3, <1>6, <1>8 DEF Between
  <2>2. CASE a # c
    BY <2>2, <1>7, <1>8, <1>11 DEF TaskInv, EntryFamily
  <2> QED
    BY <2>1, <2>2
<1>17. FrameFamily'
  BY <1>1, <1>9, <1>12 DEF TaskInv, FrameFamily
<1>18. FrameStatus'
  BY <1>1, <1>9, <1>12 DEF TaskInv, FrameStatus, Ended
<1>19. EntryStatus'
  <2> SUFFICES ASSUME NEW a \in LiveEntries'
               PROVE  IF a \in doneFlight \/ At(a)'.done
                        THEN status'[At(a)'.task] = "finished" /\ At(a)'.out = At(a)'.task
                        ELSE InFrame(a) = {} => status'[At(a)'.task] = "ready"
    BY <1>1, SameFrame DEF EntryStatus
  <2>1. CASE a = c
    BY <2>1, <1>5, <1>8, <1>10
  <2>2. CASE a # c
    BY <2>2, <1>7, <1>8, <1>11 DEF TaskInv, EntryStatus
  <2> QED
    BY <2>1, <2>2
<1>20. CellCopies'
  <2> SUFFICES ASSUME NEW q \in Thread, sem[q] > 0, cell[q] # Refused
               PROVE  (cell[q].task = At(cell[q].addr).task)'
    BY <1>1 DEF CellCopies
  <2>1. PICK b \in Addr : b = cell[q].addr /\ b \in LiveEntries
    BY ReceivedReady, EntryFacts
  <2>2. cell[q].task = At(b).task
    BY <2>1 DEF TaskInv, CellCopies
  <2> QED
    BY <1>1, <1>8, <2>1, <2>2 DEF At
<1>21. OutWritten'
  BY <1>1, <1>8, OutStays
<1>22. Located'
  <2> SUFFICES ASSUME NEW t \in Task, Alive(t)' PROVE InEntry(t)' \/ InCall(t)'
    BY DEF Located
  <2>1. CASE t = nextTask
    BY <2>1, <1>7, <1>8 DEF InEntry
  <2>2. CASE t # nextTask
    <3>1. Alive(t)
      BY <2>2, <1>5 DEF Alive
    <3>2. CASE InEntry(t)
      BY <3>2, <1>7, <1>8 DEF InEntry
    <3>3. CASE InCall(t)
      BY <3>3, <1>1, <1>9 DEF InCall
    <3> QED
      BY <3>1, <3>2, <3>3 DEF TaskInv, Located
  <2> QED
    BY <2>1, <2>2
<1>23. MasterOK' /\ RootOK'
  BY <1>1, <1>4, <1>9 DEF TaskInv, MasterOK, RootOK, Alive
<1> QED
  BY <1>5, <1>13, <1>14, <1>15, <1>16, <1>17, <1>18, <1>19, <1>20, <1>21, <1>22, <1>23
     DEF TaskInv

\* A task to be joined has finished, and no frame has it.
LEMMA JoinReady ==
  ASSUME ProtocolInv, HoldInv, TaskInv, NEW p \in Thread, pc[p] \in {"leap", "sweep"},
         Last(p).done
  PROVE  LET b == <<p, tail[p] - 1>>
         IN  b \in LiveEntries /\ At(b) = Last(p) /\ At(b).task \in Task
             /\ status[At(b).task] = "finished"
             /\ \A q \in Thread : \A k \in Levels(q) : stack[q][k].task # At(b).task
<1> USE DEF HoldInv
<1>1. PICK b \in Addr : b = <<p, tail[p] - 1>> /\ b \in LiveEntries /\ At(b) = Last(p)
  BY LastFacts, EntryFacts
<1>2. status[At(b).task] = "finished" /\ At(b).task \in Task
  BY <1>1, EntryFacts DEF TaskInv, EntryStatus
<1>3. InFrame(b) = {}
  BY <1>1, OneHolder DEF ProtocolInv, Given
<1>4. \A q \in Thread : \A k \in Levels(q) : stack[q][k].addr # b
  BY <1>3, FrameIn
<1>5. \A q \in Thread : \A k \in Levels(q) : stack[q][k].task # At(b).task
  BY <1>1, <1>4 DEF TaskInv, FramesRun
<1> QED
  BY <1>1, <1>2, <1>5

LEMMA JoinTasks ==
  ASSUME ProtocolInv, HoldInv, TaskInv, NEW p \in Thread, Join(p)
  PROVE  TaskInv'
<1> USE DEF HoldInv
<1>1. /\ UNCHANGED <<deque, parent, nextTask, cell, sem, put, doneFlight, stack>>
      /\ tail' = [tail EXCEPT ![p] = @ - 1]
      /\ status' = [status EXCEPT ![Last(p).task] = "joined"] /\ pc' = [pc EXCEPT ![p] = "run"]
      /\ pc[p] \in {"leap", "sweep"} /\ Last(p).done
  BY DEF Join, Goto, netVars
<1>2. PICK b \in Addr : b = <<p, tail[p] - 1>> /\ b[1] = p /\ b[2] = tail[p] - 1
  BY <1>1, LastFacts, EntryFacts
<1>3. /\ b \in LiveEntries /\ At(b) = Last(p) /\ At(b).task \in Task
      /\ status[At(b).task] = "finished"
      /\ \A q \in Thread : \A k \in Levels(q) : stack[q][k].task # At(b).task
  BY <1>1, <1>2, JoinReady
<1>4. tail \in [Thread -> Nat]
  BY DEF ShapeInv, TypeOK
<1>5. LiveEntries' = LiveEntries \ {b}
  <2>1. ASSUME NEW a \in Addr PROVE a[2] < tail'[a[1]] <=> a[2] < tail[a[1]] /\ a # b
    <3>1. a[1] \in Thread /\ a[2] \in Nat /\ a = <<a[1], a[2]>>
      BY DEF Addr, Index
    <3>2. CASE a[1] = p
      BY <1>1, <1>2, <1>4, <3>1, <3>2
    <3>3. CASE a[1] # p
      BY <1>1, <1>2, <1>4, <3>1, <3>3
    <3> QED
      BY <3>2, <3>3
  <2> QED
    BY <2>1 DEF LiveEntries
<1>6. \A a : At(a)' = At(a)
  BY <1>1 DEF At
<1>7. \A q : Levels(q)' = Levels(q) /\ Depth(q)' = Depth(q)
  BY <1>1, SameLevels
<1>8. pc'[p] = "run" /\ \A q \in Thread \ {p} : pc'[q] = pc[q]
  BY <1>1 DEF ShapeInv, TypeOK
<1>9. /\ FreshOK' /\ status'[At(b).task] = "joined"
      /\ \A u \in Task \ {At(b).task} : status'[u] = status[u]
  <2>1. /\ UNCHANGED <<nextTask, parent>> /\ status[At(b).task] # "none"
        /\ status' = [status EXCEPT ![At(b).task] = "joined"]
    BY <1>1, <1>3
  <2> QED
    BY <2>1, <1>3, StatusWritten DEF TaskInv, ShapeInv
<1>10. EntriesApart' /\ FramesApart' /\ FramesRun'
  BY <1>1, <1>5, <1>6, <1>7 DEF TaskInv, EntriesApart, FramesApart, FramesRun
<1>11. EntryFamily' /\ FrameFamily'
  BY <1>1, <1>5, <1>6, <1>7 DEF TaskInv, EntryFamily, FrameFamily, Between
<1>12. FrameStatus'
  <2> SUFFICES ASSUME NEW q \in Thread, NEW k \in Levels(q)
               PROVE  status'[stack[q][k].task] = IF Ended(q, k)' THEN "finished" ELSE "running"
    BY <1>1, <1>7 DEF FrameStatus
  <2>1. Ended(q, k)' <=> Ended(q, k)
    BY <1>1, <1>7, <1>8 DEF Ended
  <2>2. status'[stack[q][k].task] = status[stack[q][k].task]
    BY <1>3, <1>9, FrameFacts
  <2> QED
    BY <2>1, <2>2 DEF TaskInv, FrameStatus
<1>13. EntryStatus'
  <2>1. \A a \in LiveEntries' : a \in LiveEntries /\ status'[At(a).task] = status[At(a).task]
    BY <1>3, <1>5, <1>9, EntryFacts DEF TaskInv, EntriesApart
  <2>2. \A a : InFrame(a)' = InFrame(a)
    BY <1>1, SameFrame
  <2> QED
    BY <1>1, <1>6, <2>1, <2>2 DEF TaskInv, EntryStatus
<1>14. CellCopies'
  BY <1>1, <1>6, CellsStay DEF TaskInv, ShapeInv
<1>15. OutWritten'
  BY <1>1, <1>6, <1>8, OutStays
<1>16. ASSUME NEW t \in Task, Alive(t)' PROVE Alive(t) /\ t # At(b).task
  BY <1>9, <1>16 DEF Alive
<1>17. Located'
  <2> SUFFICES ASSUME NEW t \in Task, Alive(t)' PROVE InEntry(t)' \/ InCall(t)'
    BY DEF Located
  <2>1. Alive(t) /\ t # At(b).task
    BY <1>16
  <2>2. CASE InEntry(t)
    BY <2>1, <2>2, <1>5, <1>6 DEF InEntry
  <2>3. CASE InCall(t)
    BY <2>3, <1>1, <1>7 DEF InCall
  <2> QED
    BY <2>1, <2>2, <2>3 DEF TaskInv, Located
<1>18. MasterOK'
  BY <1>1, <1>7, <1>8, ThreadAssumption DEF TaskInv, MasterOK
<1>19. RootOK'
  BY <1>1, <1>16 DEF TaskInv, RootOK
<1> QED
  BY <1>9, <1>10, <1>11, <1>12, <1>13, <1>14, <1>15, <1>17, <1>18, <1>19 DEF TaskInv

-----------------------------------------------------------------------------
(* The invariant is inductive *)

LEMMA TaskNext ==
  ASSUME ProtocolInv, HoldInv, TaskInv, [Next]_vars
  PROVE  TaskInv'
<1> USE DEF HoldInv
<1>1. ASSUME NEW p \in Thread, Poll(p) PROVE TaskInv'
  BY <1>1, PollTasks
<1>2. ASSUME NEW p \in Thread, Steal(p) PROVE TaskInv'
  BY <1>2, StealTasks, StealRunTasks, HandBackTasks DEF Steal
<1>3. ASSUME NEW p \in Thread, Handler(p) PROVE TaskInv'
  BY <1>3, SyncTasks, SpawnTasks, CallTasks, ReturnTasks, FinishTasks, InlineTasks, JoinTasks
     DEF Handler, SyncOrReturn
<1>4. ASSUME NEW p \in Thread, Compute(p) PROVE TaskInv'
  BY <1>4, RoundTasks, CallTasks DEF Compute
<1>5. ASSUME NEW p \in Thread, LandTerm(p) PROVE TaskInv'
  <2>1. UNCHANGED <<deque, tail, stack, parent, status, nextTask, doneFlight, put, cell, sem, pc>>
    BY <1>5 DEF LandTerm, dequeVars, histVars
  <2> QED
    BY <2>1, DequesStay
<1>6. ASSUME Network PROVE TaskInv'
  BY <1>5, <1>6, ReplyTasks, PutTasks, DoneTasks DEF Network
<1>7. CASE UNCHANGED vars
  <2>1. UNCHANGED <<deque, tail, stack, parent, status, nextTask, doneFlight, put, cell, sem, pc>>
    BY <1>7 DEF vars
  <2> QED
    BY <2>1, DequesStay, ThreadAssumption
<1> QED
  BY <1>1, <1>2, <1>3, <1>4, <1>6, <1>7 DEF Next, Step, Terminated

LEMMA TaskInit == Init => TaskInv
<1> SUFFICES ASSUME Init PROVE TaskInv
  OBVIOUS
<1> USE DEF Init
<1>1. \A p \in Thread : Levels(p) = {}
  BY DEF Levels, Depth
<1>2. LiveEntries = {}
  BY DEF LiveEntries, Addr, Index
<1>3. FreshOK
  BY BoundAssumption DEF FreshOK, Task
<1>4. EntriesApart /\ FramesApart /\ FramesRun /\ EntryFamily /\ FrameFamily
  BY <1>1, <1>2 DEF EntriesApart, FramesApart, FramesRun, EntryFamily, FrameFamily
<1>5. FrameStatus /\ EntryStatus /\ CellCopies /\ OutWritten
  BY <1>1, <1>2 DEF FrameStatus, EntryStatus, CellCopies, OutWritten
<1>6. Located /\ MasterOK /\ RootOK
  BY <1>1, ThreadAssumption DEF Located, MasterOK, RootOK, Alive
<1> QED
  BY <1>3, <1>4, <1>5, <1>6 DEF TaskInv

LEMMA TaskAlways == Spec => [](ProtocolInv /\ HoldInv /\ TaskInv)
<1>1. Init => TaskInv
  BY TaskInit
<1>2. ProtocolInv /\ HoldInv /\ TaskInv /\ [Next]_vars => TaskInv'
  BY TaskNext
<1>3. Spec => [](ProtocolInv /\ HoldInv)
  BY HoldAlways
<1> QED
  BY <1>1, <1>2, <1>3, PTL DEF Spec

-----------------------------------------------------------------------------
(* Theorems *)

\* A join reads the output of the very task the entry was spawned for, and that
\* task has finished, whatever the order in which the write-back and the DONE
\* flag land (ws_sync's copy of the result, wstealer.c).
THEOREM JoinDeliversHolds == Spec => []JoinDelivers
<1>1. HoldInv /\ TaskInv => JoinDelivers
  <2> SUFFICES ASSUME HoldInv, TaskInv, NEW p \in Thread, NEW i \in Index,
                      i < tail[p], deque[p][i].done
               PROVE  /\ deque[p][i].out = deque[p][i].task
                      /\ status[deque[p][i].task] = "finished"
    BY DEF JoinDelivers
  <2>1. PICK a \in Addr : a = <<p, i>> /\ a[1] = p /\ a[2] = i
    <3>1. <<p, i>> \in Addr
      BY DEF Addr
    <3> QED
      BY <3>1
  <2>2. a \in LiveEntries /\ At(a) = deque[p][i]
    BY <2>1 DEF LiveEntries, At
  <2> QED
    BY <2>2 DEF TaskInv, EntryStatus
<1> QED
  BY <1>1, TaskAlways, PTL

-----------------------------------------------------------------------------
(* The scheduler implements ForkJoin: each of its steps is a step of that  *)
(* specification or leaves the tasks alone                                 *)

LEMMA ReceivedStarts ==
  ASSUME ProtocolInv, HoldInv, TaskInv, NEW p \in Thread, StealRun(p)
  PROVE  FJ!Next
<1> USE DEF HoldInv
<1>1. PICK b \in Addr : b = cell[p].addr
  BY Holding DEF ProtocolInv, StealRun
<1>2. b \in LiveEntries /\ cell[p].task = At(b).task /\ status[At(b).task] = "ready"
  BY <1>1, ReceivedReady DEF StealRun
<1>3. /\ At(b).task \in Task /\ parent[At(b).task] \in Task
      /\ status[parent[At(b).task]] = "running"
  BY <1>2, EntryFacts, ParentRunning DEF TaskInv
<1>4. status' = [status EXCEPT ![At(b).task] = "running"] /\ UNCHANGED parent
  BY <1>2 DEF StealRun
<1>5. FJ!Start(At(b).task)
  BY <1>2, <1>3, <1>4 DEF FJ!Start, FJ!Set, FJ!ParentRuns
<1> QED
  BY <1>3, <1>5 DEF FJ!Next

LEMMA InlineStarts ==
  ASSUME ProtocolInv, HoldInv, TaskInv, NEW p \in Thread, SyncInline(p)
  PROVE  FJ!Next
<1> USE DEF HoldInv
<1>1. PICK b \in LiveEntries : At(b) = Last(p) /\ status[At(b).task] = "ready"
  BY InlineReady DEF SyncInline
<1>2. /\ At(b).task \in Task /\ parent[At(b).task] \in Task
      /\ status[parent[At(b).task]] = "running"
  BY EntryFacts, ParentRunning DEF TaskInv
<1>3. status' = [status EXCEPT ![At(b).task] = "running"] /\ UNCHANGED parent
  BY <1>1 DEF SyncInline
<1>4. FJ!Start(At(b).task)
  BY <1>1, <1>2, <1>3 DEF FJ!Start, FJ!Set, FJ!ParentRuns
<1> QED
  BY <1>2, <1>4 DEF FJ!Next

LEMMA JoinJoins ==
  ASSUME ProtocolInv, HoldInv, TaskInv, NEW p \in Thread, Join(p)
  PROVE  FJ!Next
<1> USE DEF HoldInv
<1>1. PICK b \in LiveEntries : At(b) = Last(p) /\ status[At(b).task] = "finished"
  BY JoinReady DEF Join
<1>2. /\ At(b).task \in Task /\ parent[At(b).task] \in Task
      /\ status[parent[At(b).task]] = "running"
  BY EntryFacts, ParentRunning DEF TaskInv
<1>3. status' = [status EXCEPT ![At(b).task] = "joined"] /\ UNCHANGED parent
  BY <1>1 DEF Join
<1>4. FJ!Join(At(b).task)
  BY <1>1, <1>2, <1>3 DEF FJ!Join, FJ!Set, FJ!ParentRuns
<1> QED
  BY <1>2, <1>4 DEF FJ!Next

LEMMA SpawnBears ==
  ASSUME ProtocolInv, HoldInv, TaskInv, NEW p \in Thread, Spawn(p) \/ Call(p)
  PROVE  FJ!Next
<1> USE DEF HoldInv
<1>1. /\ nextTask <= MaxTasks /\ nextTask' = nextTask + 1 /\ pc[p] = "run"
      /\ parent' = [parent EXCEPT ![nextTask] = Running(p)]
  BY DEF Spawn, Call, MayCreate, InHandler
<1>2. PICK v \in {"ready", "running"} : status' = [status EXCEPT ![nextTask] = v]
  BY DEF Spawn, Call
<1>3. Running(p) \in Task /\ Running(p) < nextTask /\ status[Running(p)] = "running"
  BY <1>1, CreatorOlder
<1>4. nextTask \in Task
  BY <1>1, BoundAssumption DEF Task, ShapeInv, TypeOK
<1>5. status[nextTask] = "none"
  BY <1>4 DEF TaskInv, FreshOK, ShapeInv, TypeOK
<1>6. FJ!Born(nextTask, Running(p))
  BY <1>1, <1>3 DEF FJ!Born
<1>7. FJ!Set(nextTask, "none", v)
  BY <1>2, <1>5 DEF FJ!Set
<1>8. FJ!Spawn(nextTask) \/ FJ!Call(nextTask)
  BY <1>3, <1>6, <1>7 DEF FJ!Spawn, FJ!Call
<1> QED
  BY <1>4, <1>8 DEF FJ!Next

\* ws_initiate finds no task of an earlier round.
LEMMA InitiateRoots ==
  ASSUME ProtocolInv, HoldInv, TaskInv, NEW p \in Thread, Initiate(p)
  PROVE  FJ!Next
<1> USE DEF HoldInv
<1>1. /\ nextTask <= MaxTasks /\ p = Master /\ pc[p] = "bar1" /\ UNCHANGED parent
      /\ status' = [status EXCEPT ![nextTask] = "running"]
  BY DEF Initiate
<1>2. nextTask \in Task /\ nextTask \in Nat
  BY <1>1, BoundAssumption DEF Task, ShapeInv, TypeOK
<1>3. status[nextTask] = "none" /\ parent[nextTask] = NoTask
  BY <1>2 DEF TaskInv, FreshOK
<1>4. stack[Master] = << >>
  BY <1>1 DEF ShapeInv, StackOK, Busy
<1>5. \A u \in Task : status[u] \in {"none", "joined"}
  BY <1>4 DEF TaskInv, RootOK, Alive, ShapeInv, TypeOK
<1>6. parent' = [parent EXCEPT ![nextTask] = NoTask]
  BY <1>1, <1>3 DEF ShapeInv, TypeOK
<1>7. FJ!Root(nextTask)
  <2>1. NoTask \notin Task
    BY DEF NoTask, Task
  <2> QED
    BY <1>1, <1>3, <1>5, <1>6, <2>1 DEF FJ!Root, FJ!Set, FJ!Born
<1> QED
  BY <1>2, <1>7 DEF FJ!Next

LEMMA ReturnEnds ==
  ASSUME ProtocolInv, HoldInv, TaskInv, NEW p \in Thread,
         ReturnStolen(p) \/ ReturnLocal(p) \/ ReturnRoot(p)
  PROVE  FJ!Next
<1> USE DEF HoldInv
<1>1. pc[p] = "run" /\ tail[p] = Top(p).base /\ UNCHANGED parent
  BY DEF ReturnStolen, ReturnLocal, ReturnRoot, InHandler
<1>2. /\ Depth(p) \in Levels(p) /\ Top(p) = stack[p][Depth(p)] /\ Running(p) \in Task
      /\ Running(p) = stack[p][Depth(p)].task
  BY <1>1, TopFacts DEF Busy
<1>3. status[Running(p)] = "running"
  BY <1>1, <1>2, FrameAlive DEF TaskInv
<1>4. FJ!ChildrenJoined(Running(p))
  BY <1>1, ChildrenGone DEF TaskInv, FJ!ChildrenJoined
<1>5. CASE ReturnStolen(p)
  <2>1. FJ!Finish(Running(p))
    BY <1>1, <1>3, <1>4, <1>5 DEF ReturnStolen, FJ!Finish, FJ!Set
  <2> QED
    BY <1>2, <2>1 DEF FJ!Next
<1>6. CASE ReturnLocal(p) \/ ReturnRoot(p)
  <2>1. FrameOK(p, Depth(p)) /\ Top(p).addr = NoAddr /\ Depth(p) \in Nat
    BY <1>2, <1>6, FrameFacts DEF FrameOK, ReturnLocal, ReturnRoot, StealBack
  <2>2. parent[Running(p)] =
          IF Depth(p) = 1 THEN NoTask ELSE stack[p][Depth(p) - 1].task
    BY <1>2, <2>1 DEF TaskInv, FrameFamily
  <2>3. parent[Running(p)] = NoTask \/ FJ!ParentRuns(Running(p))
    <3>1. CASE Depth(p) = 1
      BY <2>2, <3>1
    <3>2. CASE Depth(p) # 1
      <4>1. Depth(p) - 1 \in Levels(p) /\ Depth(p) - 1 # Depth(p)
        BY <1>2, <2>1, <3>2, FrameFacts DEF Levels
      <4>2. stack[p][Depth(p) - 1].task \in Task /\ status[stack[p][Depth(p) - 1].task] = "running"
        BY <4>1, FrameFacts, FrameAlive DEF TaskInv
      <4> QED
        BY <2>2, <3>2, <4>2 DEF FJ!ParentRuns
    <3> QED
      BY <3>1, <3>2
  <2>4. status' = [status EXCEPT ![Running(p)] = "joined"]
    BY <1>6 DEF ReturnLocal, ReturnRoot
  <2>5. FJ!Return(Running(p))
    BY <1>1, <1>3, <1>4, <2>3, <2>4 DEF FJ!Return, FJ!Set
  <2> QED
    BY <1>2, <2>5 DEF FJ!Next
<1> QED
  BY <1>5, <1>6

LEMMA StepImplements ==
  ASSUME ProtocolInv, HoldInv, TaskInv, [Next]_vars
  PROVE  [FJ!Next]_FJ!fjVars
<1> USE DEF FJ!fjVars
<1>1. ASSUME NEW p \in Thread, Poll(p) PROVE [FJ!Next]_FJ!fjVars
  BY <1>1 DEF Poll, PollSkip, PollRefuse, PollSeeFree, PollCasWon, PollCasLost, PollUnblock,
              PollServe, histVars
<1>2. ASSUME NEW p \in Thread, Steal(p) PROVE [FJ!Next]_FJ!fjVars
  BY <1>2, ReceivedStarts
     DEF Steal, StealCasWon, StealCasLost, StealRefused, WriteBackPoll, WriteBackDone, histVars
<1>3. ASSUME NEW p \in Thread, Handler(p) PROVE [FJ!Next]_FJ!fjVars
  BY <1>3, SpawnBears, InlineStarts, JoinJoins, ReturnEnds
     DEF Handler, SyncOrReturn, Progress, Sync, SyncStolen, SyncSteal, histVars
<1>4. ASSUME NEW p \in Thread, Compute(p) PROVE [FJ!Next]_FJ!fjVars
  BY <1>4, InitiateRoots DEF Compute, Reset, Participate, PoolSteal, LeavePool, EndRound, histVars
<1>5. ASSUME Network PROVE [FJ!Next]_FJ!fjVars
  BY <1>5 DEF Network, LandReply, LandPut, LandDone, LandTerm, histVars
<1>6. CASE UNCHANGED vars
  BY <1>6 DEF vars
<1> QED
  BY <1>1, <1>2, <1>3, <1>4, <1>5, <1>6 DEF Next, Step, Terminated

\* Every task is started once, by its creator or by one thief, finishes after all
\* its children are joined and is joined once, by its creator: the protocol of
\* slots, cells, semaphores and flags is invisible to the handlers.
THEOREM SchedulerImplements == Spec => ImplementsForkJoin
<1>1. Init => FJ!Init
  BY DEF Init, FJ!Init
<1>2. ProtocolInv /\ HoldInv /\ TaskInv /\ [Next]_vars => [FJ!Next]_FJ!fjVars
  BY StepImplements
<1>3. Spec => [](ProtocolInv /\ HoldInv /\ TaskInv)
  BY TaskAlways
<1> QED
  BY <1>1, <1>2, <1>3, PTL DEF Spec, ImplementsForkJoin, FJ!Spec
=============================================================================
