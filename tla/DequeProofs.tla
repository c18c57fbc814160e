----------------------------- MODULE DequeProofs -----------------------------
(***************************************************************************)
(* Theorems about WorkStealing, for any number of threads, request slots,  *)
(* tasks and rounds: types, the fit of stacks, deques and locations, who   *)
(* holds an entry that was given away, and the request slots.              *)
(***************************************************************************)
EXTENDS StealingInv, WorkStealingProofs, SequenceTheorems

-----------------------------------------------------------------------------
(* Stacks *)

\* A sequence without its last element.
LEMMA Shorter ==
  ASSUME NEW s \in Seq(Frame), s # << >>
  PROVE  LET r == SubSeq(s, 1, Len(s) - 1)
         IN  /\ r \in Seq(Frame)
             /\ Len(r) = Len(s) - 1
             /\ \A k \in 1 .. Len(s) - 1 : r[k] = s[k]
<1>1. Len(s) \in Nat /\ Len(s) > 0 /\ \A k \in 1 .. Len(s) : s[k] \in Frame
  OBVIOUS
<1> DEFINE n == Len(s) - 1
           r == SubSeq(s, 1, n)
<1>2. n \in Nat /\ 1 \in Int /\ n \in Int /\ \A k \in 1 .. n : s[k] \in Frame
  BY <1>1
<1> HIDE DEF n
<1>3. r \in Seq(Frame)
  BY <1>2, SubSeqProperties
<1>4. Len(r) = n /\ \A k \in 1 .. n : r[k] = s[k]
  <2>1. CASE n = 0
    BY <1>2, <2>1, SubSeqEmpty
  <2>2. CASE n # 0
    <3>1. Len(r) = n - 1 + 1
      <4>1. Len(r) = IF 1 <= n THEN n - 1 + 1 ELSE 0
        BY <1>2, SubSeqProperties
      <4>2. 1 <= n
        BY <1>2, <2>2
      <4> QED
        BY <4>1, <4>2
    <3>2. \A k \in 1 .. n - 1 + 1 : r[k] = s[1 + k - 1]
      BY <1>2, SubSeqProperties
    <3>3. n - 1 + 1 = n /\ \A k \in 1 .. n : 1 + k - 1 = k
      BY <1>2
    <3> QED
      BY <3>1, <3>2, <3>3, Zenon
  <2> QED
    BY <2>1, <2>2
<1> QED
  BY <1>3, <1>4 DEF n

LEMMA EmptyStack == ASSUME NEW s \in Seq(Frame) PROVE s = << >> <=> Len(s) = 0
  OBVIOUS

StackType == stack \in [Thread -> Seq(Frame)]

LEMMA StackFacts ==
  ASSUME StackType, NEW p \in Thread
  PROVE  /\ Depth(p) \in Nat
         /\ Depth(p) = 0 <=> stack[p] = << >>
         /\ \A k \in Levels(p) : stack[p][k] \in Frame
         /\ stack[p] # << >> => Depth(p) \in Levels(p) /\ Top(p) \in Frame
<1>1. stack[p] \in Seq(Frame)
  BY DEF StackType
<1> QED
  BY <1>1 DEF Depth, Levels, Top

\* A frame pushed on a stack is its top, above the others.
LEMMA Pushed ==
  ASSUME StackType, NEW p \in Thread, NEW f \in Frame, Push(p, f)
  PROVE  /\ StackType'
         /\ \A q \in Thread \ {p} : stack'[q] = stack[q]
         /\ Depth(p)' = Depth(p) + 1
         /\ Top(p)' = f /\ stack'[p][Depth(p) + 1] = f
         /\ \A k \in Levels(p) : stack'[p][k] = stack[p][k]
         /\ stack'[p] # << >>
<1>1. stack[p] \in Seq(Frame) /\ stack'[p] = Append(stack[p], f)
  BY DEF StackType, Push
<1>2. StackType' /\ \A q \in Thread \ {p} : stack'[q] = stack[q]
  BY <1>1 DEF StackType, Push
<1>3. /\ Len(stack'[p]) = Len(stack[p]) + 1
      /\ stack'[p][Len(stack[p]) + 1] = f
      /\ \A k \in 1 .. Len(stack[p]) : stack'[p][k] = stack[p][k]
      /\ stack'[p] # << >>
  BY <1>1
<1> QED
  BY <1>2, <1>3 DEF Depth, Top, Levels

LEMMA Popped ==
  ASSUME StackType, NEW p \in Thread, stack[p] # << >>, Pop(p)
  PROVE  /\ StackType'
         /\ \A q \in Thread \ {p} : stack'[q] = stack[q]
         /\ Depth(p)' = Depth(p) - 1
         /\ \A k \in 1 .. Depth(p) - 1 : stack'[p][k] = stack[p][k]
         /\ stack'[p] = << >> <=> Depth(p) = 1
<1>1. stack[p] \in Seq(Frame) /\ stack'[p] = SubSeq(stack[p], 1, Len(stack[p]) - 1)
  BY DEF StackType, Pop
<1>2. /\ stack'[p] \in Seq(Frame) /\ Len(stack'[p]) = Len(stack[p]) - 1
      /\ \A k \in 1 .. Len(stack[p]) - 1 : stack'[p][k] = stack[p][k]
  BY <1>1, Shorter
<1>3. StackType' /\ \A q \in Thread \ {p} : stack'[q] = stack[q]
  BY <1>2 DEF StackType, Pop
<1>4. stack'[p] = << >> <=> Len(stack'[p]) = 0
  BY <1>2, EmptyStack
<1>5. Len(stack[p]) - 1 = 0 <=> Len(stack[p]) = 1
  BY <1>1
<1>6. stack'[p] = << >> <=> Len(stack[p]) = 1
  BY <1>2, <1>4, <1>5
<1> QED
  BY <1>2, <1>3, <1>6 DEF Depth

-----------------------------------------------------------------------------
(* Types *)

\* The parts of TypeOK that an action changes keep it.
LEMMA SlotWritten ==
  ASSUME TypeOK, NEW p \in Thread, Visiting(p), NEW v \in Thread \cup {Free, Block},
         SetSlot(p, v), NextSlot(p)
  PROVE  /\ poll[p] \in Slot
         /\ request' \in [Thread -> [Slot -> Thread \cup {Free, Block}]]
         /\ poll' \in [Thread -> Slot \cup {0}]
<1>1. poll[p] \in Slot
  BY DEF TypeOK, Visiting
<1>2. request' \in [Thread -> [Slot -> Thread \cup {Free, Block}]]
  BY <1>1 DEF TypeOK, SetSlot
<1>3. poll' \in [Thread -> Slot \cup {0}]
  <2>1. (IF poll[p] = NSlots THEN 0 ELSE poll[p] + 1) \in Slot \cup {0}
    BY <1>1, BoundAssumption DEF Slot
  <2> QED
    BY <2>1 DEF TypeOK, NextSlot
<1> QED
  BY <1>1, <1>2, <1>3

LEMMA PollTypes ==
  ASSUME TypeOK, NEW p \in Thread, Poll(p)
  PROVE  TypeOK'
<1>1. CASE PollSkip(p)
  <2>1. poll' \in [Thread -> Slot \cup {0}]
    BY <1>1, BoundAssumption DEF TypeOK, PollSkip, NextSlot, Slot, Visiting
  <2> QED
    BY <1>1, <2>1 DEF TypeOK, PollSkip, dequeVars, netVars, histVars
<1>2. CASE PollSeeFree(p)
  BY <1>2 DEF TypeOK, PollSeeFree, dequeVars, netVars, histVars
<1>3. CASE PollCasWon(p) \/ PollUnblock(p)
  <2>1. PICK v \in {Free, Block} : SetSlot(p, v) /\ NextSlot(p) /\ Visiting(p)
    BY <1>3 DEF PollCasWon, PollUnblock
  <2>2. /\ request' \in [Thread -> [Slot -> Thread \cup {Free, Block}]]
        /\ poll' \in [Thread -> Slot \cup {0}]
    BY <2>1, SlotWritten
  <2>3. seen' \in [Thread -> BOOLEAN]
    BY <1>3 DEF TypeOK, PollCasWon, PollUnblock
  <2> QED
    BY <1>3, <2>2, <2>3 DEF TypeOK, PollCasWon, PollUnblock, dequeVars, netVars, histVars
<1>4. CASE PollRefuse(p) \/ PollCasLost(p)
  <2>1. /\ SetSlot(p, Block) /\ NextSlot(p) /\ Visiting(p)
        /\ SlotOf(p) \in Thread /\ Reply(SlotOf(p), Refused)
    BY <1>4 DEF PollRefuse, PollCasLost
  <2>2. /\ request' \in [Thread -> [Slot -> Thread \cup {Free, Block}]]
        /\ poll' \in [Thread -> Slot \cup {0}]
    BY <2>1, SlotWritten
  <2>3. seen' \in [Thread -> BOOLEAN]
    BY <1>4 DEF TypeOK, PollRefuse, PollCasLost
  <2>4. net' \subseteq [to : Thread, src : Addr \cup {Refused}]
    BY <2>1 DEF TypeOK, Reply
  <2>5. UNCHANGED <<deque, head, tail, cell, sem, term, put, doneFlight, termFlight, pc,
                    stack, trying, epoch, nextTask, status, parent>>
    BY <1>4 DEF PollRefuse, PollCasLost, dequeVars, histVars
  <2> QED
    BY <2>2, <2>3, <2>4, <2>5 DEF TypeOK
<1>5. CASE PollServe(p)
  <2>1. /\ SetSlot(p, Free) /\ NextSlot(p) /\ Visiting(p)
        /\ SlotOf(p) \in Thread /\ Reply(SlotOf(p), <<p, head[p]>>)
    BY <1>5 DEF PollServe
  <2>2. /\ request' \in [Thread -> [Slot -> Thread \cup {Free, Block}]]
        /\ poll' \in [Thread -> Slot \cup {0}]
    BY <2>1, SlotWritten
  <2>3. head[p] \in Index /\ head[p] + 1 \in 0 .. DequeSize
    <3>1. head[p] \in 0 .. DequeSize /\ tail[p] \in 0 .. DequeSize
      BY DEF TypeOK
    <3>2. ~ (tail[p] < head[p] + Threshold)
      BY <1>5 DEF PollServe, Few
    <3> QED
      BY <3>1, <3>2, BoundAssumption DEF Index
  <2>4. net' \subseteq [to : Thread, src : Addr \cup {Refused}]
    BY <2>1, <2>3 DEF TypeOK, Reply, Addr
  <2>5. deque' \in [Thread -> [Index -> Entry]]
    BY <1>5, <2>1, <2>3 DEF TypeOK, PollServe, Entry, Stolen
  <2>6. head' \in [Thread -> 0 .. DequeSize]
    BY <1>5, <2>3 DEF TypeOK, PollServe
  <2> QED
    BY <1>5, <2>2, <2>4, <2>5, <2>6 DEF TypeOK, PollServe, histVars
<1> QED
  BY <1>1, <1>2, <1>3, <1>4, <1>5 DEF Poll

LEMMA StealTypes ==
  ASSUME ShapeInv, NEW p \in Thread, Steal(p)
  PROVE  TypeOK'
<1> USE DEF ShapeInv
<1>1. CASE StealCasWon(p)
  <2>1. request' \in [Thread -> [Slot -> Thread \cup {Free, Block}]]
    BY <1>1 DEF TypeOK, StealCasWon, Victims
  <2> QED
    BY <1>1, <2>1 DEF TypeOK, StealCasWon, dequeVars, netVars, pollVars, histVars
<1>2. ASSUME StealCasLost(p) \/ StealRefused(p) PROVE TypeOK'
  <2>1. pc[p] \in StealBack
    BY <1>2 DEF LocationOK, StealCasLost, StealRefused, Casing, Waiting
  <2>2. \A l \in AfterFailure(pc[p]) : l \in StealBack
    BY <2>1 DEF AfterFailure, StealBack
  <2>3. pc' \in [Thread -> Location]
    <3>1. \E l \in AfterFailure(pc[p]) : pc' = [pc EXCEPT ![p] = l]
      BY <1>2 DEF StealCasLost, StealRefused, Goto
    <3>2. PICK l \in StealBack : pc' = [pc EXCEPT ![p] = l]
      BY <2>2, <3>1
    <3>3. l \in Location
      BY DEF StealBack, Location
    <3> QED
      BY <3>2, <3>3 DEF TypeOK
  <2>4. sem' \in [Thread -> Nat]
    <3>1. CASE StealRefused(p)
      <4>1. sem[p] - 1 \in Nat
        BY <3>1 DEF TypeOK, StealRefused
      <4> QED
        BY <3>1, <4>1 DEF TypeOK, StealRefused
    <3>2. CASE StealCasLost(p)
      BY <3>2 DEF TypeOK, StealCasLost
    <3> QED
      BY <1>2, <3>1, <3>2
  <2>5. trying' \in [Thread -> {"no", "cas", "wait"}]
    BY <1>2 DEF TypeOK, StealCasLost, StealRefused
  <2> QED
    BY <1>2, <2>3, <2>4, <2>5
    DEF TypeOK, StealCasLost, StealRefused, dequeVars, netVars, pollVars, histVars
<1>3. CASE StealRun(p)
  <2>1. pc[p] \in StealBack
    BY <1>3 DEF LocationOK, StealRun, Waiting
  <2>2. AfterSuccess(pc[p]) \in StealBack
    BY <2>1 DEF AfterSuccess, StealBack
  <2>3. cell[p].task \in Task /\ cell[p].addr \in Addr
    BY <1>3 DEF TypeOK, StealRun
  <2>4. [task |-> cell[p].task, addr |-> cell[p].addr,
         back |-> AfterSuccess(pc[p]), base |-> tail[p]] \in Frame
    BY <2>2, <2>3 DEF TypeOK, Frame, StealBack
  <2>5. stack' \in [Thread -> Seq(Frame)]
    BY <1>3, <2>4, Pushed DEF StackType, TypeOK, StealRun
  <2>6. /\ sem' \in [Thread -> Nat] /\ pc' \in [Thread -> Location]
        /\ trying' \in [Thread -> {"no", "cas", "wait"}]
        /\ status' \in [Task -> {"none", "ready", "running", "finished", "joined"}]
    BY <1>3, <2>3 DEF TypeOK, StealRun, Goto, Location
  <2> QED
    BY <1>3, <2>5, <2>6 DEF TypeOK, StealRun, dequeVars, netVars, pollVars
<1>4. CASE WriteBackPoll(p)
  <2>1. poll' \in [Thread -> Slot \cup {0}]
    BY <1>4, BoundAssumption DEF TypeOK, WriteBackPoll, Communicate, Slot
  <2> QED
    BY <1>4, <2>1 DEF TypeOK, WriteBackPoll, dequeVars, netVars, histVars
<1>5. CASE WriteBackDone(p)
  <2>1. stack[p] # << >> /\ Top(p).addr # NoAddr
    BY <1>5 DEF WriteBackDone, StackOK, LocationOK, Busy
  <2>2. Top(p) \in Frame
    BY <2>1, StackFacts DEF TypeOK, StackType
  <2>3. Top(p).addr \in Addr /\ Top(p).back \in Location
    BY <2>1, <2>2 DEF Frame, Location
  <2>4. stack' \in [Thread -> Seq(Frame)]
    BY <1>5, <2>1, Popped DEF StackType, TypeOK, WriteBackDone
  <2>5. doneFlight' \subseteq Addr /\ pc' \in [Thread -> Location]
    BY <1>5, <2>3 DEF TypeOK, WriteBackDone, Goto
  <2> QED
    BY <1>5, <2>4, <2>5 DEF TypeOK, WriteBackDone, dequeVars, pollVars, histVars
<1> QED
  BY <1>1, <1>2, <1>3, <1>4, <1>5 DEF Steal

LEMMA HandlerTypes ==
  ASSUME ShapeInv, NEW p \in Thread, Handler(p)
  PROVE  TypeOK'
<1> USE DEF ShapeInv
<1>0. poll' = [poll EXCEPT ![p] = 1] => poll' \in [Thread -> Slot \cup {0}]
  BY BoundAssumption DEF TypeOK, Slot
\* Where the thread has a frame, its top is one.
<1>1. pc[p] \in Busy => stack[p] # << >> /\ Top(p) \in Frame /\ Running(p) \in Task
  BY StackFacts DEF StackOK, TypeOK, StackType, Running, Frame
\* Where it joins, its last entry is in use.
<1>2. pc[p] \in {"sync", "leap", "sweep"} =>
        /\ tail[p] - 1 \in 0 .. DequeSize
        /\ tail[p] - 1 \in Live(p) /\ Last(p).task \in Task
  <2>1. ASSUME pc[p] \in {"sync", "leap", "sweep"}
        PROVE  tail[p] - 1 \in Index /\ tail[p] - 1 < tail[p] /\ tail[p] - 1 \in 0 .. DequeSize
    BY <1>1, <2>1, BoundAssumption DEF Busy, LocationOK, Frame, TypeOK, Index
  <2> QED
    BY <2>1 DEF Live, DequeOK, EntryOK, Last
<1>3. nextTask <= MaxTasks => nextTask \in Task /\ nextTask + 1 \in Nat \ {0}
  BY BoundAssumption DEF TypeOK, Task
<1>4. CASE Progress(p)
  BY <1>0, <1>4 DEF TypeOK, Progress, Communicate, dequeVars, netVars, histVars
<1>5. CASE Spawn(p)
  <2>0. tail[p] \in Nat /\ tail[p] < DequeSize /\ nextTask <= MaxTasks /\ DequeSize \in Nat
    BY <1>5, BoundAssumption DEF TypeOK, Spawn, MayCreate
  <2>1. tail[p] \in Index /\ tail[p] + 1 \in 0 .. DequeSize
    BY <2>0, BoundAssumption DEF Index
  <2>2. deque' \in [Thread -> [Index -> Entry]]
    BY <1>3, <1>5, <2>0, <2>1 DEF TypeOK, Spawn, Entry
  <2>3. tail' \in [Thread -> 0 .. DequeSize] /\ nextTask' \in Nat \ {0}
    BY <1>3, <1>5, <2>0, <2>1 DEF TypeOK, Spawn
  <2>4. /\ status' \in [Task -> {"none", "ready", "running", "finished", "joined"}]
        /\ parent' \in [Task -> Task \cup {NoTask}]
    BY <1>1, <1>3, <1>5, <2>0, <2>1 DEF TypeOK, Spawn, InHandler, Busy
  <2> QED
    BY <1>5, <2>2, <2>3, <2>4 DEF TypeOK, Spawn, netVars, pollVars
<1>6. CASE Call(p)
  <2>1. nextTask \in Task /\ nextTask + 1 \in Nat \ {0}
    BY <1>3, <1>6 DEF Call, MayCreate
  <2>2. [task |-> nextTask, addr |-> NoAddr, back |-> "run", base |-> tail[p]] \in Frame
    BY <2>1 DEF TypeOK, Frame
  <2>3. stack' \in [Thread -> Seq(Frame)]
    BY <1>6, <2>2, Pushed DEF StackType, TypeOK, Call
  <2>4. /\ status' \in [Task -> {"none", "ready", "running", "finished", "joined"}]
        /\ parent' \in [Task -> Task \cup {NoTask}] /\ nextTask' \in Nat \ {0}
    BY <1>1, <1>6, <2>1 DEF TypeOK, Call, InHandler, Busy
  <2> QED
    BY <1>0, <1>6, <2>3, <2>4 DEF TypeOK, Call, Communicate, dequeVars, netVars
<1>7. CASE Sync(p) \/ SyncStolen(p)
  <2>1. pc' \in [Thread -> Location] /\ poll' \in [Thread -> Slot \cup {0}]
    BY <1>0, <1>7 DEF TypeOK, Sync, SyncStolen, Goto, Location, Communicate, pollVars
  <2> QED
    BY <1>7, <2>1 DEF TypeOK, Sync, SyncStolen, dequeVars, netVars, pollVars, histVars
<1>8. CASE SyncInline(p)
  <2>1. [task |-> Last(p).task, addr |-> NoAddr, back |-> "run",
         base |-> tail[p] - 1] \in Frame
    BY <1>2, <1>8 DEF SyncInline, Frame
  <2>2. stack' \in [Thread -> Seq(Frame)]
    BY <1>8, <2>1, Pushed DEF StackType, TypeOK, SyncInline
  <2>3. tail' \in [Thread -> 0 .. DequeSize] /\ pc' \in [Thread -> Location]
    BY <1>2, <1>8 DEF TypeOK, SyncInline, Goto, Location
  <2>4. status' \in [Task -> {"none", "ready", "running", "finished", "joined"}]
    BY <1>2, <1>8 DEF TypeOK, SyncInline
  <2> QED
    BY <1>8, <2>2, <2>3, <2>4 DEF TypeOK, SyncInline, netVars, pollVars
<1>9. CASE SyncSteal(p)
  <2>1. trying' \in [Thread -> {"no", "cas", "wait"}] /\ poll' \in [Thread -> Slot \cup {0}]
    BY <1>0, <1>9 DEF TypeOK, SyncSteal, BeginSteal, Communicate
  <2> QED
    BY <1>9, <2>1 DEF TypeOK, SyncSteal, dequeVars, netVars, histVars
<1>10. CASE Join(p)
  <2>1. head[p] - 1 \in 0 .. DequeSize /\ tail[p] - 1 \in 0 .. DequeSize
    BY <1>2, <1>10 DEF Join, LocationOK
  <2>2. /\ head' \in [Thread -> 0 .. DequeSize] /\ tail' \in [Thread -> 0 .. DequeSize]
        /\ pc' \in [Thread -> Location]
    BY <1>10, <2>1 DEF TypeOK, Join, Goto, Location
  <2>3. status' \in [Task -> {"none", "ready", "running", "finished", "joined"}]
    BY <1>2, <1>10 DEF TypeOK, Join
  <2> QED
    BY <1>10, <2>2, <2>3 DEF TypeOK, Join, netVars, pollVars
<1>11. CASE ReturnLocal(p) \/ ReturnRoot(p)
  <2>1. Pop(p) /\ pc[p] = "run"
    BY <1>11 DEF ReturnLocal, ReturnRoot, InHandler
  <2>2. stack' \in [Thread -> Seq(Frame)]
    BY <1>1, <2>1, Popped DEF StackType, TypeOK, Busy
  <2>3. status' \in [Task -> {"none", "ready", "running", "finished", "joined"}]
    BY <1>1, <1>11, <2>1 DEF TypeOK, ReturnLocal, ReturnRoot, Busy
  <2>4. pc' \in [Thread -> Location] /\ epoch' \in [Thread -> Nat] /\ termFlight' \in [Thread -> Nat]
    <3>1. CASE ReturnLocal(p)
      BY <3>1 DEF TypeOK, ReturnLocal, netVars
    <3>2. CASE ReturnRoot(p)
      <4>1. /\ pc' = [pc EXCEPT ![p] = "bar2"] /\ epoch' = [epoch EXCEPT ![p] = @ + 1]
            /\ termFlight' = [q \in Thread |-> termFlight[q] + 1]
        BY <3>2 DEF ReturnRoot, Goto
      <4>2. "bar2" \in Location
        BY DEF Location
      <4>3. pc' \in [Thread -> Location] /\ epoch' \in [Thread -> Nat]
        BY <4>1, <4>2 DEF TypeOK
      <4>4. termFlight' \in [Thread -> Nat]
        BY <4>1 DEF TypeOK
      <4> QED
        BY <4>3, <4>4
    <3> QED
      BY <1>11, <3>1, <3>2
  <2> QED
    BY <1>11, <2>2, <2>3, <2>4 DEF TypeOK, ReturnLocal, ReturnRoot, dequeVars, netVars, pollVars
<1>12. CASE ReturnStolen(p)
  <2>1. put' \in [Thread -> BOOLEAN] /\ pc' \in [Thread -> Location]
    BY <1>12 DEF TypeOK, ReturnStolen, Goto, Location
  <2>2. status' \in [Task -> {"none", "ready", "running", "finished", "joined"}]
    BY <1>1, <1>12 DEF TypeOK, ReturnStolen, InHandler, Busy
  <2> QED
    BY <1>12, <2>1, <2>2 DEF TypeOK, ReturnStolen, dequeVars, pollVars
<1> QED
  BY <1>4, <1>5, <1>6, <1>7, <1>8, <1>9, <1>10, <1>11, <1>12 DEF Handler, SyncOrReturn

LEMMA ComputeTypes ==
  ASSUME TypeOK, NEW p \in Thread, Compute(p)
  PROVE  TypeOK'
<1>0. poll' = [poll EXCEPT ![p] = 1] => poll' \in [Thread -> Slot \cup {0}]
  BY BoundAssumption DEF TypeOK, Slot
<1>1. CASE Reset(p) \/ LeavePool(p) \/ EndRound(p)
  <2>1. term' \in [Thread -> BOOLEAN] /\ epoch' \in [Thread -> Nat]
    <3>1. CASE Reset(p)
      BY <3>1 DEF TypeOK, Reset
    <3>2. CASE LeavePool(p)
      BY <3>2 DEF TypeOK, LeavePool
    <3>3. CASE EndRound(p)
      BY <3>3 DEF TypeOK, EndRound
    <3> QED
      BY <1>1, <3>1, <3>2, <3>3
  <2>2. \E l \in Location : Goto(p, l)
    BY <1>1 DEF Reset, LeavePool, EndRound, Location
  <2>3. pc' \in [Thread -> Location]
    BY <2>2 DEF TypeOK, Goto
  <2> QED
    BY <1>1, <2>1, <2>3
    DEF TypeOK, Reset, LeavePool, EndRound, dequeVars, netVars, pollVars, histVars
<1>2. CASE Initiate(p)
  <2>1. nextTask \in Task /\ nextTask + 1 \in Nat \ {0}
    BY <1>2, BoundAssumption DEF TypeOK, Initiate, Task
  <2>2. [task |-> nextTask, addr |-> NoAddr, back |-> "bar2", base |-> tail[p]] \in Frame
    BY <2>1 DEF TypeOK, Frame
  <2>3. stack' \in [Thread -> Seq(Frame)]
    BY <1>2, <2>2, Pushed DEF StackType, TypeOK, Initiate
  <2>4. /\ status' \in [Task -> {"none", "ready", "running", "finished", "joined"}]
        /\ nextTask' \in Nat \ {0} /\ pc' \in [Thread -> Location]
    BY <1>2, <2>1 DEF TypeOK, Initiate, Goto, Location
  <2> QED
    BY <1>0, <1>2, <2>3, <2>4 DEF TypeOK, Initiate, Communicate, dequeVars, netVars
<1>3. CASE Participate(p) \/ PoolSteal(p)
  <2>1. /\ trying' \in [Thread -> {"no", "cas", "wait"}] /\ poll' \in [Thread -> Slot \cup {0}]
        /\ pc' \in [Thread -> Location]
    BY <1>0, <1>3 DEF TypeOK, Participate, PoolSteal, BeginSteal, Communicate, Goto, Location
  <2> QED
    BY <1>3, <2>1 DEF TypeOK, Participate, PoolSteal, dequeVars, netVars, histVars
<1> QED
  BY <1>1, <1>2, <1>3 DEF Compute

-----------------------------------------------------------------------------
(* Holders of an entry given away *)

LEMMA FrameIn ==
  ASSUME NEW a
  PROVE  /\ \A p \in Thread : \A k \in Levels(p) : stack[p][k].addr = a => <<p, k>> \in InFrame(a)
         /\ \A l \in InFrame(a) : \E p \in Thread : \E k \in Levels(p) :
              l = <<p, k>> /\ stack[p][k].addr = a
  BY DEF InFrame, Levels

LEMMA HolderTypes ==
  ASSUME ProtocolTypes, FramesFinite, NEW a \in Addr
  PROVE  /\ IsFiniteSet(InNet(a)) /\ Cardinality(InNet(a)) \in Nat
         /\ IsFiniteSet(InCell(a)) /\ Cardinality(InCell(a)) \in Nat
         /\ IsFiniteSet(InFrame(a)) /\ Cardinality(InFrame(a)) \in Nat
<1>1. InNet(a) \in SUBSET net /\ IsFiniteSet(net) /\ InCell(a) \in SUBSET Thread
  BY DEF InNet, InCell, ProtocolTypes
<1>2. IsFiniteSet(InNet(a)) /\ IsFiniteSet(InCell(a)) /\ IsFiniteSet(InFrame(a))
  BY <1>1, FS_Subset, ThreadAssumption DEF FramesFinite
<1> QED
  BY <1>2, FS_CardinalityType

LEMMA AtMostOne ==
  ASSUME NEW S, IsFiniteSet(S), Cardinality(S) <= 1
  PROVE  \A x, y \in S : x = y
<1> SUFFICES ASSUME NEW x \in S, NEW y \in S, x # y PROVE FALSE
  OBVIOUS
<1>1. IsFiniteSet(S \ {x}) /\ Cardinality(S \ {x}) = Cardinality(S) - 1
  BY FS_RemoveElement
<1>2. y \in S \ {x} /\ Cardinality(S) \in Nat
  BY FS_CardinalityType
<1>3. Cardinality(S \ {x}) # 0
  BY <1>1, <1>2, FS_EmptySet
<1>4. Cardinality(S \ {x}) \in Nat
  BY <1>1, FS_CardinalityType
<1> QED
  BY <1>1, <1>2, <1>3, <1>4

\* An entry that is held was given away and is not done, and is held but once.
LEMMA OneHolder ==
  ASSUME ProtocolTypes, FramesFinite, HeldOnce, NEW a \in Addr
  PROVE  /\ InNet(a) # {} => Given(a) /\ InCell(a) = {} /\ InFrame(a) = {} /\ a \notin doneFlight
         /\ InCell(a) # {} => Given(a) /\ InNet(a) = {} /\ InFrame(a) = {} /\ a \notin doneFlight
         /\ InFrame(a) # {} => Given(a) /\ InNet(a) = {} /\ InCell(a) = {} /\ a \notin doneFlight
         /\ a \in doneFlight => Given(a) /\ InNet(a) = {} /\ InCell(a) = {} /\ InFrame(a) = {}
         /\ \A x, y \in InNet(a) : x = y
         /\ \A x, y \in InCell(a) : x = y
         /\ \A x, y \in InFrame(a) : x = y
<1> DEFINE n == Cardinality(InNet(a))
           c == Cardinality(InCell(a))
           f == Cardinality(InFrame(a))
           d == IF a \in doneFlight THEN 1 ELSE 0
<1>1. /\ IsFiniteSet(InNet(a)) /\ n \in Nat
      /\ IsFiniteSet(InCell(a)) /\ c \in Nat
      /\ IsFiniteSet(InFrame(a)) /\ f \in Nat
  BY HolderTypes
<1>2. n + c + f + d = IF Given(a) THEN 1 ELSE 0
  BY DEF HeldOnce, Holders, Given
<1>3. (n = 0 <=> InNet(a) = {}) /\ (c = 0 <=> InCell(a) = {}) /\ (f = 0 <=> InFrame(a) = {})
  BY <1>1, FS_EmptySet
<1>4. d \in {0, 1} /\ (d = 1 <=> a \in doneFlight)
  OBVIOUS
<1>5. n <= 1 /\ c <= 1 /\ f <= 1
  <2> HIDE DEF n, c, f, d
  <2> QED
    BY <1>1, <1>2, <1>4
<1>6. /\ \A x, y \in InNet(a) : x = y
      /\ \A x, y \in InCell(a) : x = y
      /\ \A x, y \in InFrame(a) : x = y
  BY <1>1, <1>5, AtMostOne
<1>7. /\ n # 0 => Given(a) /\ c = 0 /\ f = 0 /\ d = 0
      /\ c # 0 => Given(a) /\ n = 0 /\ f = 0 /\ d = 0
      /\ f # 0 => Given(a) /\ n = 0 /\ c = 0 /\ d = 0
      /\ d # 0 => Given(a) /\ n = 0 /\ c = 0 /\ f = 0
  <2> HIDE DEF n, c, f, d
  <2> QED
    BY <1>1, <1>2, <1>4
<1> QED
  BY <1>3, <1>4, <1>6, <1>7

\* The same in terms of the parts of the state.
LEMMA Holding ==
  ASSUME ProtocolTypes, HoldInv
  PROVE  /\ \A m \in net : m.src # Refused => m.src \in Addr /\ Given(m.src)
         /\ \A p \in Thread : sem[p] > 0 /\ cell[p] # Refused =>
              cell[p].addr \in Addr /\ Given(cell[p].addr) /\ p \in InCell(cell[p].addr)
         /\ \A p \in Thread : \A k \in Levels(p) : stack[p][k].addr # NoAddr =>
              stack[p][k].addr \in Addr /\ Given(stack[p][k].addr)
              /\ <<p, k>> \in InFrame(stack[p][k].addr)
         /\ \A a \in doneFlight : a \in Addr /\ Given(a)
<1>1. ASSUME NEW m \in net, m.src # Refused PROVE m.src \in Addr /\ Given(m.src)
  <2>1. m.src \in Addr /\ m \in InNet(m.src)
    BY <1>1 DEF HoldInv, ShapeInv, TypeOK, InNet
  <2> QED
    BY <2>1, OneHolder DEF HoldInv
<1>2. ASSUME NEW p \in Thread, sem[p] > 0, cell[p] # Refused
      PROVE  cell[p].addr \in Addr /\ Given(cell[p].addr) /\ p \in InCell(cell[p].addr)
  <2>1. cell[p].addr \in Addr /\ p \in InCell(cell[p].addr)
    BY <1>2 DEF HoldInv, ShapeInv, TypeOK, InCell
  <2> QED
    BY <2>1, OneHolder DEF HoldInv
<1>3. ASSUME NEW p \in Thread, NEW k \in Levels(p), stack[p][k].addr # NoAddr
      PROVE  stack[p][k].addr \in Addr /\ Given(stack[p][k].addr)
             /\ <<p, k>> \in InFrame(stack[p][k].addr)
  <2>1. stack[p][k] \in Frame
    BY StackFacts DEF HoldInv, ShapeInv, TypeOK, StackType
  <2>2. stack[p][k].addr \in Addr /\ <<p, k>> \in InFrame(stack[p][k].addr)
    BY <1>3, <2>1, FrameIn DEF Frame
  <2> QED
    BY <2>2, OneHolder DEF HoldInv
<1>4. ASSUME NEW a \in doneFlight PROVE a \in Addr /\ Given(a)
  <2>1. a \in Addr
    BY DEF HoldInv, ShapeInv, TypeOK
  <2> QED
    BY <2>1, OneHolder DEF HoldInv
<1> QED
  BY <1>1, <1>2, <1>3, <1>4

\* What is given away is in use.
LEMMA GivenLive ==
  ASSUME ShapeInv, NEW a \in Addr, Given(a)
  PROVE  a[1] \in Thread /\ a[2] \in Live(a[1]) /\ At(a).task \in Task /\ a[2] < tail[a[1]]
<1>1. a[1] \in Thread /\ a[2] \in Index
  BY DEF Addr
<1>2. head[a[1]] \in Nat /\ tail[a[1]] \in Nat /\ a[2] \in Nat /\ head[a[1]] <= tail[a[1]]
  BY <1>1 DEF ShapeInv, TypeOK, LocationOK, Index
<1>3. a[2] < tail[a[1]]
  BY <1>2 DEF Given
<1> QED
  BY <1>1, <1>3 DEF Live, ShapeInv, DequeOK, EntryOK, At

LEMMA NetworkTypes ==
  ASSUME ProtocolTypes, HoldInv, Network
  PROVE  TypeOK'
<1> USE DEF HoldInv, ShapeInv
<1>1. ASSUME NEW m \in net, LandReply(m) PROVE TypeOK'
  <2>1. m.to \in Thread /\ m.src \in Addr \cup {Refused}
    BY DEF TypeOK
  <2>2. m.src # Refused => [addr |-> m.src, task |-> At(m.src).task] \in [addr : Addr, task : Task]
    BY <2>1, Holding, GivenLive
  <2>3. cell' \in [Thread -> [addr : Addr, task : Task] \cup {Refused}]
    BY <1>1, <2>1, <2>2 DEF TypeOK, LandReply
  <2>4. sem' \in [Thread -> Nat] /\ net' \subseteq [to : Thread, src : Addr \cup {Refused}]
    BY <1>1, <2>1 DEF TypeOK, LandReply
  <2> QED
    BY <1>1, <2>3, <2>4 DEF TypeOK, LandReply, dequeVars, pollVars, histVars
<1>2. ASSUME NEW p \in Thread, LandPut(p) PROVE TypeOK'
  <2>1. pc[p] = "wb" /\ Top(p).addr # NoAddr /\ stack[p] # << >>
    BY <1>2 DEF LandPut, LocationOK, StackOK, Busy
  <2>2. Top(p) \in Frame
    BY <2>1, StackFacts DEF TypeOK, StackType
  <2>3. Running(p) \in Task /\ Top(p).addr \in Addr
    BY <2>1, <2>2 DEF Frame, Running
  <2>4. deque' \in [Thread -> [Index -> Entry]]
    BY <1>2, <2>3 DEF TypeOK, LandPut, Entry, Addr
  <2>5. put' \in [Thread -> BOOLEAN]
    BY <1>2 DEF TypeOK, LandPut
  <2> QED
    BY <1>2, <2>4, <2>5 DEF TypeOK, LandPut, pollVars, histVars
<1>3. ASSUME NEW p \in Thread, LandTerm(p) PROVE TypeOK'
  <2>1. termFlight[p] - 1 \in Nat
    BY <1>3 DEF TypeOK, LandTerm
  <2>2. termFlight' \in [Thread -> Nat] /\ term' \in [Thread -> BOOLEAN]
    BY <1>3, <2>1 DEF TypeOK, LandTerm
  <2> QED
    BY <1>3, <2>2 DEF TypeOK, LandTerm, dequeVars, pollVars, histVars
<1>4. ASSUME NEW a \in doneFlight, LandDone(a) PROVE TypeOK'
  <2>1. deque' \in [Thread -> [Index -> Entry]]
    BY <1>4 DEF TypeOK, LandDone, Entry, Addr, Completed
  <2> QED
    BY <1>4, <2>1 DEF TypeOK, LandDone, pollVars, histVars
<1> QED
  BY <1>1, <1>2, <1>3, <1>4 DEF Network

-----------------------------------------------------------------------------
(* Stacks, locations and deques: what a step leaves alone *)

LocalOK(p) == StackOK(p) /\ LocationOK(p) /\ DequeOK(p)

LEMMA StackMoved ==
  ASSUME TypeOK, NEW p \in Thread, StackOK(p), stack'[p] = stack[p],
         pc'[p] \in Busy <=> pc[p] \in Busy,
         NEW h \in Nat, NEW t \in Nat, head'[p] = h, tail'[p] = t,
         head[p] <= h, tail[p] <= t
  PROVE  StackOK(p)'
<1>1. /\ Levels(p)' = Levels(p) /\ \A k \in Levels(p) : stack[p][k].base \in Nat
      /\ head[p] \in Nat /\ tail[p] \in Nat
  <2>1. \A k \in Levels(p) : stack[p][k] \in Frame
    BY StackFacts DEF TypeOK, StackType
  <2>2. \A k \in Levels(p) : stack[p][k].base \in Nat
    BY <2>1 DEF Frame
  <2>3. head[p] \in Nat /\ tail[p] \in Nat
    BY DEF TypeOK
  <2> QED
    BY <2>2, <2>3 DEF Levels, Depth
<1>2. ASSUME NEW k \in Levels(p) PROVE FrameOK(p, k)'
  BY <1>1 DEF StackOK, FrameOK
<1>3. \A j, k \in Levels(p) : j < k => Above(stack[p][j], stack[p][k])'
  BY DEF StackOK, Above
<1> QED
  BY <1>1, <1>2, <1>3 DEF StackOK, Above

LEMMA LocationStays ==
  ASSUME NEW p \in Thread, LocationOK(p), stack'[p] = stack[p], pc'[p] = pc[p],
         head'[p] = head[p], tail'[p] = tail[p], put'[p] = put[p],
         trying'[p] = trying[p], poll'[p] = poll[p]
  PROVE  LocationOK(p)'
  BY DEF LocationOK, Top, Depth

LEMMA DequeStays ==
  ASSUME NEW p \in Thread, DequeOK(p), deque'[p] = deque[p], head'[p] = head[p],
         tail'[p] = tail[p]
  PROVE  DequeOK(p)'
  BY DEF DequeOK, EntryOK, Live

LEMMA LocalStays ==
  ASSUME TypeOK, NEW p \in Thread, LocalOK(p), stack'[p] = stack[p], pc'[p] = pc[p],
         head'[p] = head[p], tail'[p] = tail[p], put'[p] = put[p],
         trying'[p] = trying[p], poll'[p] = poll[p], deque'[p] = deque[p]
  PROVE  LocalOK(p)'
<1>1. head[p] \in Nat /\ tail[p] \in Nat /\ head[p] <= head[p] /\ tail[p] <= tail[p]
  BY DEF TypeOK
<1>2. StackOK(p)'
  BY <1>1, StackMoved DEF LocalOK
<1> QED
  BY <1>2, LocationStays, DequeStays DEF LocalOK

-----------------------------------------------------------------------------
(* Pushing and popping *)

LEMMA TopAbove ==
  ASSUME TypeOK, NEW p \in Thread, StackOK(p), stack[p] # << >>
  PROVE  /\ Depth(p) \in Levels(p) /\ Top(p) \in Frame
         /\ \A k \in Levels(p) : stack[p][k].base \in Nat /\ stack[p][k].base <= Top(p).base
<1>1. /\ Depth(p) \in Levels(p) /\ Top(p) \in Frame
      /\ \A k \in Levels(p) : stack[p][k] \in Frame
  BY StackFacts DEF TypeOK, StackType
<1>2. ASSUME NEW k \in Levels(p)
      PROVE  stack[p][k].base \in Nat /\ stack[p][k].base <= Top(p).base
  <2>1. stack[p][k].base \in Nat
    BY <1>1 DEF Frame
  <2>2. k = Depth(p) \/ k < Depth(p)
    BY <1>1 DEF Levels
  <2>3. k < Depth(p) => stack[p][k].base <= Top(p).base
    BY <1>1 DEF StackOK, Above, Top
  <2> QED
    BY <2>1, <2>2, <2>3 DEF Top
<1> QED
  BY <1>1, <1>2

\* What a frame must satisfy to be pushed.
Fits(p, f, t) ==
  /\ stack[p] = << >> <=> f.back \in {"bar2", "part"}
  /\ f.back = "bar2" => p = Master
  /\ stack[p] = << >> => f.base = 0
  /\ (f.addr # NoAddr) <=> (f.back \in StealBack)
  /\ f.base <= t
  /\ f.back \in {"leap", "sweep"} => f.base <= head[p]
  /\ \A k \in Levels(p) : Above(stack[p][k], f)

LEMMA StackPushed ==
  ASSUME TypeOK, NEW p \in Thread, StackOK(p), NEW f \in Frame, Push(p, f),
         NEW t \in Nat, Fits(p, f, t), tail'[p] = t, head'[p] = head[p], pc'[p] \in Busy
  PROVE  StackOK(p)'
<1>1. /\ Depth(p) \in Nat /\ \A k \in Levels(p) : stack[p][k] \in Frame
      /\ Depth(p) = 0 <=> stack[p] = << >>
  BY StackFacts DEF TypeOK, StackType
<1>2. /\ Depth(p)' = Depth(p) + 1 /\ stack'[p][Depth(p) + 1] = f
      /\ \A k \in Levels(p) : stack'[p][k] = stack[p][k]
      /\ stack'[p] # << >>
  BY Pushed DEF TypeOK, StackType
<1>3. Levels(p)' = Levels(p) \cup {Depth(p) + 1} /\ \A k \in Levels(p) : k < Depth(p) + 1
  BY <1>1, <1>2 DEF Levels
<1>4. ASSUME NEW k \in Levels(p) PROVE FrameOK(p, k)'
  <2>1. FrameOK(p, k) /\ stack[p][k].base <= f.base
    BY DEF StackOK, Fits, Above
  <2>2. stack[p][k].base \in Nat /\ f.base \in Nat /\ f.base <= t
    BY <1>1 DEF Frame, Fits
  <2>3. stack[p][k].base <= t
    BY <2>1, <2>2
  <2> QED
    BY <1>2, <2>1, <2>3 DEF FrameOK
<1>5. ASSUME NEW n \in Nat, n = Depth(p) + 1 PROVE FrameOK(p, n)'
  <2>1. n = 1 <=> stack[p] = << >>
    BY <1>1, <1>5
  <2>2. /\ n = 1 <=> f.back \in {"bar2", "part"}
        /\ f.back = "bar2" => p = Master
        /\ n = 1 => f.base = 0
        /\ (f.addr # NoAddr) <=> (f.back \in StealBack)
        /\ f.base <= tail'[p]
        /\ f.back \in {"leap", "sweep"} => f.base <= head'[p]
    BY <2>1 DEF Fits
  <2>3. stack'[p][n] = f
    BY <1>2, <1>5
  <2> QED
    BY <2>2, <2>3 DEF FrameOK
<1>6. ASSUME NEW j \in Levels(p)', NEW k \in Levels(p)', j < k
      PROVE  Above(stack[p][j], stack[p][k])'
  <2>1. j \in Levels(p)
    BY <1>1, <1>3, <1>6 DEF Levels
  <2>2. CASE k \in Levels(p)
    BY <1>2, <1>6, <2>1, <2>2 DEF StackOK, Above
  <2>3. CASE k = Depth(p) + 1
    BY <1>2, <2>1, <2>3 DEF Fits, Above
  <2> QED
    BY <1>3, <2>2, <2>3
<1>7. ASSUME NEW k \in Levels(p)' PROVE FrameOK(p, k)'
  <2>1. Depth(p) + 1 \in Nat
    BY <1>1
  <2> QED
    BY <1>3, <1>4, <1>5, <2>1
<1>8. (stack'[p] # << >>) <=> pc'[p] \in Busy
  BY <1>2
<1> QED
  BY <1>6, <1>7, <1>8, Zenon DEF StackOK

LEMMA StackPopped ==
  ASSUME TypeOK, NEW p \in Thread, StackOK(p), stack[p] # << >>, Pop(p),
         tail'[p] = tail[p], head'[p] = head[p], pc'[p] \in Busy <=> Depth(p) # 1
  PROVE  StackOK(p)'
<1>1. Depth(p) \in Nat
  BY StackFacts DEF TypeOK, StackType
<1>2. /\ Depth(p)' = Depth(p) - 1
      /\ \A k \in 1 .. Depth(p) - 1 : stack'[p][k] = stack[p][k]
      /\ stack'[p] = << >> <=> Depth(p) = 1
  BY Popped DEF TypeOK, StackType
<1>3. Levels(p)' = 1 .. Depth(p) - 1 /\ \A k \in Levels(p)' : k \in Levels(p) /\ stack'[p][k] = stack[p][k]
  BY <1>1, <1>2 DEF Levels
<1>4. ASSUME NEW k \in Levels(p)' PROVE FrameOK(p, k)'
  BY <1>3 DEF StackOK, FrameOK
<1>5. ASSUME NEW j \in Levels(p)', NEW k \in Levels(p)', j < k
      PROVE  Above(stack[p][j], stack[p][k])'
  BY <1>3, <1>5 DEF StackOK, Above
<1> QED
  BY <1>2, <1>4, <1>5 DEF StackOK

-----------------------------------------------------------------------------
(* The steps of a thread leave the others alone *)

Same(q) ==
  /\ stack'[q] = stack[q] /\ pc'[q] = pc[q]
  /\ head'[q] = head[q] /\ tail'[q] = tail[q] /\ deque'[q] = deque[q]
  /\ put'[q] = put[q] /\ trying'[q] = trying[q] /\ poll'[q] = poll[q]

LEMMA PollOthers ==
  ASSUME TypeOK, NEW p \in Thread, NEW q \in Thread \ {p}, Poll(p)
  PROVE  Same(q)
<1> USE DEF TypeOK, Same, NextSlot, dequeVars, netVars
<1>1. CASE PollSkip(p) \/ PollSeeFree(p) \/ PollCasWon(p) \/ PollUnblock(p)
  BY <1>1 DEF PollSkip, PollSeeFree, PollCasWon, PollUnblock
<1>2. CASE PollRefuse(p) \/ PollCasLost(p) \/ PollServe(p)
  BY <1>2 DEF PollRefuse, PollCasLost, PollServe
<1> QED
  BY <1>1, <1>2 DEF Poll

LEMMA StealOthers ==
  ASSUME TypeOK, NEW p \in Thread, NEW q \in Thread \ {p}, Steal(p)
  PROVE  Same(q)
<1> USE DEF TypeOK, Same, Goto, Push, Pop, Communicate, dequeVars, netVars, pollVars
<1>1. CASE StealCasWon(p) \/ StealCasLost(p) \/ StealRefused(p)
  BY <1>1 DEF StealCasWon, StealCasLost, StealRefused
<1>2. CASE StealRun(p) \/ WriteBackPoll(p) \/ WriteBackDone(p)
  BY <1>2 DEF StealRun, WriteBackPoll, WriteBackDone
<1> QED
  BY <1>1, <1>2 DEF Steal

LEMMA HandlerOthers ==
  ASSUME TypeOK, NEW p \in Thread, NEW q \in Thread \ {p}, Handler(p)
  PROVE  Same(q)
<1> USE DEF TypeOK, Same, Goto, Push, Pop, Communicate, BeginSteal, dequeVars, netVars, pollVars
<1>1. CASE Progress(p) \/ Spawn(p) \/ Call(p)
  BY <1>1 DEF Progress, Spawn, Call
<1>2. CASE Sync(p) \/ SyncInline(p) \/ SyncStolen(p)
  BY <1>2 DEF Sync, SyncInline, SyncStolen
<1>3. CASE SyncSteal(p) \/ Join(p)
  BY <1>3 DEF SyncSteal, Join
<1>4. CASE ReturnLocal(p) \/ ReturnStolen(p) \/ ReturnRoot(p)
  BY <1>4 DEF ReturnLocal, ReturnStolen, ReturnRoot
<1> QED
  BY <1>1, <1>2, <1>3, <1>4 DEF Handler, SyncOrReturn

LEMMA ComputeOthers ==
  ASSUME TypeOK, NEW p \in Thread, NEW q \in Thread \ {p}, Compute(p)
  PROVE  Same(q)
<1> USE DEF TypeOK, Same, Goto, Push, Communicate, BeginSteal, dequeVars, netVars, pollVars
<1>1. CASE Reset(p) \/ LeavePool(p)
  BY <1>1 DEF Reset, LeavePool
<1>2. CASE Initiate(p)
  BY <1>2 DEF Initiate
<1>3. CASE Participate(p) \/ PoolSteal(p)
  BY <1>3 DEF Participate, PoolSteal
<1>4. CASE EndRound(p)
  <2>1. \E l : Goto(p, l)
    BY <1>4 DEF EndRound
  <2>2. pc'[q] = pc[q]
    BY <2>1
  <2> QED
    BY <1>4, <2>2 DEF EndRound
<1> QED
  BY <1>1, <1>2, <1>3, <1>4 DEF Compute

\* A step of p keeps LocalOK everywhere if it does so at p.
LEMMA StepOthers ==
  ASSUME ShapeInv, NEW p \in Thread, Step(p), LocalOK(p)'
  PROVE  \A q \in Thread : LocalOK(q)'
<1> SUFFICES ASSUME NEW q \in Thread, q # p PROVE LocalOK(q)'
  OBVIOUS
<1>1. Same(q)
  BY PollOthers, StealOthers, HandlerOthers, ComputeOthers DEF Step, ShapeInv
<1> QED
  BY <1>1, LocalStays DEF Same, ShapeInv, LocalOK

-----------------------------------------------------------------------------
(* The steps of a thread, at the thread itself *)

LEMMA Counters0 ==
  ASSUME TypeOK, NEW p \in Thread
  PROVE  head[p] \in Nat /\ tail[p] \in Nat /\ head[p] <= head[p] /\ tail[p] <= tail[p]
  BY DEF TypeOK

LEMMA PollLocal ==
  ASSUME ShapeInv, NEW p \in Thread, Poll(p)
  PROVE  LocalOK(p)'
<1> USE DEF ShapeInv
<1>1. /\ Visiting(p) /\ UNCHANGED <<stack, pc, tail, put, trying>>
      /\ poll' = [poll EXCEPT ![p] = poll'[p]]
  BY DEF Poll, PollSkip, PollRefuse, PollSeeFree, PollCasWon, PollCasLost, PollUnblock,
         PollServe, NextSlot, TypeOK, dequeVars, netVars
<1>2. pc[p] \in Busy \cup {"part"}
  BY <1>1 DEF LocationOK, Visiting
<1>3. CASE ~ PollServe(p)
  <2>1. UNCHANGED <<head, deque>>
    BY <1>3 DEF Poll, PollSkip, PollRefuse, PollSeeFree, PollCasWon, PollCasLost, PollUnblock,
                dequeVars
  <2>2. StackOK(p)'
    BY <1>1, <2>1, Counters0, StackMoved
  <2>3. LocationOK(p)'
    BY <1>1, <1>2, <2>1 DEF LocationOK, Top, Depth
  <2> QED
    BY <1>1, <2>1, <2>2, <2>3, DequeStays DEF LocalOK
<1>4. CASE PollServe(p)
  <2> DEFINE h == head[p] + 1
  <2>1. /\ ~Few(p) /\ SlotOf(p) \in Thread /\ head' = [head EXCEPT ![p] = @ + 1]
        /\ deque' = [deque EXCEPT ![p][head[p]] = Stolen(@, SlotOf(p))]
    BY <1>4 DEF PollServe
  <2>2. h \in Nat /\ head[p] < tail[p] /\ h <= tail[p] /\ head[p] \in Index /\ head[p] <= h
    <3>1. head[p] \in 0 .. DequeSize /\ tail[p] \in 0 .. DequeSize
      BY DEF TypeOK
    <3>2. ~ (tail[p] < head[p] + Threshold)
      BY <2>1 DEF Few
    <3> QED
      BY <3>1, <3>2, BoundAssumption DEF Index
  <2>3. head'[p] = h
    BY <2>1 DEF TypeOK
  <2>4. StackOK(p)'
    BY <1>1, <2>2, <2>3, Counters0, StackMoved
  <2>5. LocationOK(p)'
    <3>1. pc[p] \notin {"leap", "sweep"}
      BY <2>2 DEF LocationOK, TypeOK
    <3> QED
      BY <1>1, <1>2, <2>2, <2>3, <3>1 DEF LocationOK, Top, Depth
  <2>6. DequeOK(p)'
    <3>1. Live(p)' = Live(p)
      BY <1>1 DEF Live
    <3>2. \A i \in Index : i # head[p] => deque'[p][i] = deque[p][i]
      BY <2>1 DEF TypeOK
    <3>3. deque'[p][head[p]] = Stolen(deque[p][head[p]], SlotOf(p))
      BY <2>1, <2>2 DEF TypeOK
    <3>4. ASSUME NEW i \in Live(p), i # head[p] PROVE EntryOK(p, i)'
      <4>1. i \in Nat /\ (i < h <=> i < head[p]) /\ (h <= i => head[p] <= i) /\ i \in Index
        BY <2>2, <3>4 DEF Live, Index, TypeOK
      <4> HIDE DEF h
      <4> QED
        BY <2>3, <3>2, <3>4, <4>1 DEF DequeOK, EntryOK
    <3>5. ASSUME NEW i \in Live(p), i = head[p] PROVE EntryOK(p, i)'
      <4>1. i < h /\ ~ (h <= i)
        BY <2>2, <3>5 DEF TypeOK
      <4> HIDE DEF h
      <4> QED
        BY <2>1, <2>3, <3>3, <3>5, <4>1, ThreadAssumption DEF DequeOK, EntryOK, Stolen
    <3> QED
      BY <3>1, <3>4, <3>5 DEF DequeOK
  <2> QED
    BY <2>4, <2>5, <2>6 DEF LocalOK
<1> QED
  BY <1>3, <1>4

LEMMA StealLocal ==
  ASSUME ShapeInv, NEW p \in Thread, Steal(p)
  PROVE  LocalOK(p)'
<1> USE DEF ShapeInv
<1>1. CASE StealCasWon(p) \/ StealCasLost(p) \/ StealRefused(p)
  <2>1. /\ UNCHANGED <<stack, deque, head, tail, put, poll>>
        /\ trying[p] # "no"
        /\ pc' = pc \/ \E l \in AfterFailure(pc[p]) : Goto(p, l)
    <3>1. CASE StealCasWon(p)
      BY <3>1 DEF StealCasWon, Casing, dequeVars, netVars, pollVars
    <3>2. CASE StealCasLost(p)
      BY <3>2 DEF StealCasLost, Casing, dequeVars, netVars, pollVars, TypeOK
    <3>3. CASE StealRefused(p)
      BY <3>3 DEF StealRefused, Waiting, dequeVars, netVars, pollVars, TypeOK
    <3> QED
      BY <1>1, <3>1, <3>2, <3>3
  <2>2. pc[p] \in StealBack
    BY <2>1 DEF LocationOK
  <2>3. /\ pc'[p] \in StealBack
        /\ pc'[p] \in Busy <=> pc[p] \in Busy
        /\ pc'[p] \in {"leap", "sweep"} <=> pc[p] \in {"leap", "sweep"}
    BY <2>1, <2>2 DEF AfterFailure, StealBack, Goto, TypeOK, Busy
  <2>4. StackOK(p)'
    BY <2>1, <2>3, Counters0, StackMoved
  <2>5. LocationOK(p)'
    BY <2>1, <2>2, <2>3 DEF LocationOK, Top, Depth, StealBack, Busy
  <2> QED
    BY <2>1, <2>4, <2>5, DequeStays DEF LocalOK
<1>2. CASE StealRun(p)
  <2> DEFINE f == [task |-> cell[p].task, addr |-> cell[p].addr,
                   back |-> AfterSuccess(pc[p]), base |-> tail[p]]
  <2>1. /\ Push(p, f) /\ trying[p] # "no" /\ trying'[p] = "no" /\ cell[p] # Refused
        /\ pc'[p] = "run" /\ UNCHANGED <<deque, head, tail, put, poll>>
    BY <1>2 DEF StealRun, Waiting, dequeVars, netVars, pollVars, TypeOK, Goto
  <2>2. pc[p] \in StealBack
    BY <2>1 DEF LocationOK
  <2>3. /\ AfterSuccess(pc[p]) \in StealBack
        /\ AfterSuccess(pc[p]) = "part" <=> pc[p] = "part"
    BY <2>2 DEF AfterSuccess, StealBack
  <2>4. cell[p].task \in Task /\ cell[p].addr \in Addr
    BY <2>1 DEF TypeOK
  <2>5. f \in Frame
    BY <2>3, <2>4 DEF TypeOK, Frame, StealBack
  <2>6. Fits(p, f, tail[p])
    <3>1. stack[p] = << >> <=> pc[p] = "part"
      BY <2>2 DEF StackOK, Busy, StealBack
    <3>2. pc[p] \in {"leap", "sweep"} => head[p] = tail[p] /\ Top(p).base < tail[p]
      BY DEF LocationOK
    <3>3. \A k \in Levels(p) : stack[p][k].base <= tail[p]
      BY DEF StackOK, FrameOK
    <3>4. ASSUME NEW k \in Levels(p), pc[p] \in {"leap", "sweep"} PROVE stack[p][k].base < tail[p]
      <4>1. /\ stack[p][k].base \in Nat /\ stack[p][k].base <= Top(p).base
            /\ Top(p).base \in Nat /\ tail[p] \in Nat
        <5>1. stack[p] # << >>
          BY <3>1, <3>4
        <5>2. /\ Top(p) \in Frame
              /\ \A j \in Levels(p) : stack[p][j].base \in Nat /\ stack[p][j].base <= Top(p).base
          BY <5>1, TopAbove
        <5>3. Top(p).base \in Nat
          BY <5>2 DEF Frame
        <5> QED
          BY <5>2, <5>3, Counters0
      <4> QED
        BY <3>2, <3>4, <4>1
    <3>5. \A k \in Levels(p) : Above(stack[p][k], f)
      BY <2>2, <2>3, <3>3, <3>4 DEF Above, StealBack
    <3>6. /\ f.back \in StealBack /\ f.addr # NoAddr /\ f.base = tail[p]
          /\ f.back = "part" <=> pc[p] = "part"
      BY <2>3, <2>4, AddrAssumption
    <3>7. stack[p] = << >> => tail[p] = 0
      BY DEF LocationOK
    <3>8. f.back \in {"leap", "sweep"} => f.base <= head[p]
      BY <2>2, <3>2, <3>6, Counters0 DEF StealBack
    <3> HIDE DEF f
    <3> QED
      BY <3>1, <3>5, <3>6, <3>7, <3>8, Counters0 DEF Fits, StealBack
  <2>7. StackOK(p)'
    <3> HIDE DEF f
    <3> QED
      BY <2>1, <2>5, <2>6, Counters0, StackPushed DEF Busy
  <2>8. LocationOK(p)'
    <3>1. stack'[p] # << >>
      BY <2>1, <2>7 DEF StackOK, Busy
    <3>2. put[p] = FALSE
      BY <2>2 DEF LocationOK, TypeOK, StealBack
    <3> QED
      BY <2>1, <3>1, <3>2 DEF LocationOK, Busy
  <2> QED
    BY <2>1, <2>7, <2>8, DequeStays DEF LocalOK
<1>3. CASE WriteBackPoll(p)
  <2>1. /\ UNCHANGED <<stack, pc, deque, head, tail, put, trying>> /\ pc[p] = "wb"
    BY <1>3 DEF WriteBackPoll, dequeVars, netVars
  <2>2. StackOK(p)'
    BY <2>1, Counters0, StackMoved
  <2>3. LocationOK(p)'
    BY <2>1 DEF LocationOK, Top, Depth, Busy
  <2> QED
    BY <2>1, <2>2, <2>3, DequeStays DEF LocalOK
<1>4. CASE WriteBackDone(p)
  <2> DEFINE f == Top(p)
  <2>1. /\ Pop(p) /\ pc[p] = "wb" /\ Idle(p) /\ ~put[p] /\ pc'[p] = f.back
        /\ UNCHANGED <<deque, head, tail, put, trying, poll>>
    BY <1>4 DEF WriteBackDone, dequeVars, pollVars, TypeOK, Goto
  <2>2. stack[p] # << >> /\ tail[p] = f.base /\ f.addr # NoAddr
    BY <2>1 DEF StackOK, LocationOK, Busy
  <2>3. /\ Depth(p) \in Levels(p) /\ f \in Frame /\ FrameOK(p, Depth(p))
        /\ \A k \in Levels(p) : stack[p][k].base \in Nat /\ stack[p][k].base <= f.base
    BY <2>2, TopAbove DEF StackOK
  <2>4. f.back \in StealBack /\ (Depth(p) = 1 <=> f.back = "part")
        /\ (f.back \in {"leap", "sweep"} => f.base <= head[p])
    BY <2>2, <2>3 DEF FrameOK, Top, StealBack
  <2>5. pc'[p] \in Busy <=> Depth(p) # 1
    BY <2>1, <2>4 DEF Busy, StealBack
  <2>6. StackOK(p)'
    BY <2>1, <2>2, <2>5, StackPopped
  <2>7. LocationOK(p)'
    <3>1. head[p] \in Nat /\ tail[p] \in Nat /\ head[p] <= tail[p]
      BY Counters0 DEF LocationOK
    <3>2. stack'[p] = << >> => tail[p] = 0
      <4>1. stack'[p] = << >> <=> Depth(p) = 1
        BY <2>1, <2>2, Popped DEF TypeOK, StackType
      <4> QED
        BY <2>2, <2>3, <4>1 DEF FrameOK, Top
    <3>3. ASSUME f.back \in {"leap", "sweep"}
          PROVE  /\ head[p] = tail[p]
                 /\ Top(p)'.base < tail[p]
      <4>1. head[p] = tail[p]
        BY <2>2, <2>4, <3>1, <3>3
      <4>2. Depth(p) # 1 /\ Depth(p) \in Nat
        BY <2>3, <2>4, <3>3 DEF Levels
      <4>3. /\ Depth(p)' = Depth(p) - 1
            /\ \A k \in 1 .. Depth(p) - 1 : stack'[p][k] = stack[p][k]
        BY <2>1, <2>2, Popped DEF TypeOK, StackType
      <4>4. Depth(p) - 1 \in Levels(p) /\ Depth(p) - 1 \in 1 .. Depth(p) - 1 /\ Depth(p) - 1 < Depth(p)
        BY <2>3, <4>2 DEF Levels
      <4>5. Above(stack[p][Depth(p) - 1], f)
        BY <2>3, <4>4 DEF StackOK, Top
      <4>6. Top(p)' = stack[p][Depth(p) - 1]
        BY <4>3, <4>4 DEF Top
      <4> QED
        BY <2>2, <3>3, <4>1, <4>5, <4>6 DEF Above
    <3> HIDE DEF f
    <3> QED
      BY <2>1, <2>4, <3>1, <3>2, <3>3 DEF LocationOK, StealBack, Idle
  <2> QED
    BY <2>1, <2>6, <2>7, DequeStays DEF LocalOK
<1> QED
  BY <1>1, <1>2, <1>3, <1>4 DEF Steal

LEMMA HandlerLocal ==
  ASSUME ShapeInv, NEW p \in Thread, Handler(p)
  PROVE  LocalOK(p)'
<1> USE DEF ShapeInv
<1>a. head[p] \in Nat /\ tail[p] \in Nat /\ head[p] <= tail[p]
  BY Counters0 DEF LocationOK
<1>b. pc[p] \in Busy =>
        /\ stack[p] # << >> /\ Depth(p) \in Levels(p) /\ Top(p) \in Frame /\ Top(p).base \in Nat
        /\ FrameOK(p, Depth(p)) /\ Top(p).base <= tail[p]
        /\ \A k \in Levels(p) : stack[p][k].base \in Nat /\ stack[p][k].base <= Top(p).base
  <2> SUFFICES ASSUME pc[p] \in Busy
               PROVE  /\ stack[p] # << >> /\ Depth(p) \in Levels(p) /\ Top(p) \in Frame
                      /\ Top(p).base \in Nat
                      /\ FrameOK(p, Depth(p)) /\ Top(p).base <= tail[p]
                      /\ \A k \in Levels(p) :
                           stack[p][k].base \in Nat /\ stack[p][k].base <= Top(p).base
    OBVIOUS
  <2>1. stack[p] # << >>
    BY DEF StackOK
  <2>2. /\ Depth(p) \in Levels(p) /\ Top(p) \in Frame
        /\ \A k \in Levels(p) : stack[p][k].base \in Nat /\ stack[p][k].base <= Top(p).base
    BY <2>1, TopAbove
  <2>3. FrameOK(p, Depth(p))
    BY <2>2 DEF StackOK
  <2>4. Top(p).base \in Nat /\ Top(p).base <= tail[p]
    BY <2>2, <2>3 DEF Top, FrameOK
  <2> QED
    BY <2>1, <2>2, <2>3, <2>4
\* The last entry of a thread that joins.
<1>c. pc[p] \in {"sync", "leap", "sweep"} =>
        tail[p] - 1 \in Live(p) /\ tail[p] - 1 \in Nat /\ Top(p).base <= tail[p] - 1
  <2> SUFFICES ASSUME pc[p] \in {"sync", "leap", "sweep"}
               PROVE  tail[p] - 1 \in Live(p) /\ tail[p] - 1 \in Nat /\ Top(p).base <= tail[p] - 1
    OBVIOUS
  <2>1. Top(p).base \in Nat /\ Top(p).base < tail[p]
    BY <1>b DEF Busy, LocationOK
  <2>2. tail[p] - 1 \in Nat /\ Top(p).base <= tail[p] - 1 /\ tail[p] - 1 < tail[p]
    BY <1>a, <2>1
  <2>3. tail[p] - 1 \in Index
    BY <2>2, BoundAssumption DEF TypeOK, Index
  <2> QED
    BY <2>2, <2>3 DEF Live
<1>1. CASE Progress(p) \/ SyncSteal(p)
  <2>1. /\ UNCHANGED <<stack, pc, deque, head, tail, put>>
        /\ pc[p] \in {"run", "leap", "sweep"}
        /\ trying'[p] # trying[p] => pc[p] \in {"leap", "sweep"}
    BY <1>1 DEF Progress, SyncSteal, BeginSteal, InHandler, dequeVars, netVars
  <2>2. StackOK(p)'
    BY <2>1, Counters0, StackMoved
  <2>3. LocationOK(p)'
    BY <2>1 DEF LocationOK, Top, Depth, StealBack, Busy
  <2> QED
    BY <2>1, <2>2, <2>3, DequeStays DEF LocalOK
<1>2. CASE Spawn(p)
  <2> DEFINE t == tail[p] + 1
  <2>1. /\ UNCHANGED <<stack, pc, head, put, trying, poll>> /\ pc[p] = "run"
        /\ nextTask <= MaxTasks /\ tail[p] < DequeSize
        /\ tail' = [tail EXCEPT ![p] = @ + 1]
        /\ deque' = [deque EXCEPT ![p][tail[p]] =
             [task |-> nextTask, thief |-> Nobody, done |-> FALSE, out |-> @.out]]
    BY <1>2 DEF Spawn, InHandler, MayCreate, netVars, pollVars
  <2>2. t \in Nat /\ tail'[p] = t /\ tail[p] <= t /\ head[p] <= t
    BY <1>a, <2>1 DEF TypeOK
  <2>3. StackOK(p)'
    BY <2>1, <2>2, Counters0, StackMoved
  <2>4. LocationOK(p)'
    <3>1. stack[p] # << >>
      BY <1>b, <2>1 DEF Busy
    <3> HIDE DEF t
    <3> QED
      BY <2>1, <2>2, <3>1 DEF LocationOK, Top, Depth
  <2>5. DequeOK(p)'
    <3>1. tail[p] \in Index /\ \A i \in Live(p)' : i \in Live(p) \/ i = tail[p]
      BY <1>a, <2>1, <2>2, BoundAssumption DEF Live, Index
    <3>2. ASSUME NEW i \in Live(p)' PROVE EntryOK(p, i)'
      <4>1. CASE i = tail[p]
        <5>1. deque'[p][i].task = nextTask /\ deque'[p][i].thief = Nobody /\ ~deque'[p][i].done
          BY <2>1, <3>1, <4>1 DEF TypeOK
        <5>2. ~ (i < head'[p])
          BY <1>a, <2>1, <4>1
        <5>3. nextTask \in Task
          BY <2>1, BoundAssumption DEF TypeOK, Task
        <5> QED
          BY <5>1, <5>2, <5>3 DEF EntryOK
      <4>2. CASE i # tail[p]
        <5>1. i \in Live(p) /\ deque'[p][i] = deque[p][i]
          BY <2>1, <3>1, <4>2 DEF TypeOK, Live
        <5> QED
          BY <2>1, <5>1 DEF DequeOK, EntryOK
      <4> QED
        BY <4>1, <4>2
    <3> QED
      BY <3>2 DEF DequeOK
  <2> QED
    BY <2>3, <2>4, <2>5 DEF LocalOK
<1>3. CASE Call(p)
  <2> DEFINE f == [task |-> nextTask, addr |-> NoAddr, back |-> "run", base |-> tail[p]]
  <2>1. /\ Push(p, f) /\ UNCHANGED <<pc, deque, head, tail, put, trying>> /\ pc[p] = "run"
        /\ nextTask <= MaxTasks
    BY <1>3 DEF Call, InHandler, MayCreate, dequeVars, netVars
  <2>2. f \in Frame
    BY <2>1, BoundAssumption DEF TypeOK, Task, Frame
  <2>3. Fits(p, f, tail[p])
    <3>1. \A k \in Levels(p) : stack[p][k].base <= tail[p]
      BY DEF StackOK, FrameOK
    <3>2. stack[p] # << >>
      BY <1>b, <2>1 DEF Busy
    <3> QED
      BY <1>a, <3>1, <3>2 DEF Fits, Above, StealBack
  <2>4. StackOK(p)'
    <3> HIDE DEF f
    <3> QED
      BY <2>1, <2>2, <2>3, Counters0, StackPushed DEF Busy
  <2>5. LocationOK(p)'
    <3>1. stack'[p] # << >>
      BY <2>1, <2>4 DEF StackOK, Busy
    <3> QED
      BY <2>1, <3>1 DEF LocationOK, Busy
  <2> QED
    BY <2>1, <2>4, <2>5, DequeStays DEF LocalOK
<1>4. CASE Sync(p) \/ SyncStolen(p)
  <2>1. /\ UNCHANGED <<stack, deque, head, tail, put, trying>>
        /\ pc[p] \in {"run", "sync"} /\ Idle(p)
        /\ \/ pc'[p] = "sync" /\ Top(p).base < tail[p]
           \/ pc[p] = "sync" /\ pc'[p] = "leap" /\ Last(p).thief # Nobody
    BY <1>4 DEF Sync, SyncStolen, InHandler, Goto, TypeOK, dequeVars, netVars
  <2>2. StackOK(p)'
    BY <2>1, Counters0, StackMoved DEF Busy
  <2>3. pc'[p] = "leap" => head[p] = tail[p]
    <3>1. ASSUME pc'[p] = "leap" PROVE tail[p] - 1 < head[p]
      BY <1>c, <2>1, <3>1 DEF DequeOK, EntryOK, Last
    <3> QED
      BY <1>a, <3>1
  <2>4. stack[p] # << >> /\ ~put[p] /\ trying[p] = "no"
    BY <1>b, <2>1 DEF Busy, LocationOK, Idle
  <2>5. LocationOK(p)'
    BY <1>a, <2>1, <2>3, <2>4 DEF LocationOK, Top, Depth, Busy
  <2> QED
    BY <2>1, <2>2, <2>5, DequeStays DEF LocalOK
<1>5. CASE SyncInline(p)
  <2> DEFINE f == [task |-> Last(p).task, addr |-> NoAddr, back |-> "run", base |-> tail[p] - 1]
             t == tail[p] - 1
  <2>1. /\ Push(p, f) /\ UNCHANGED <<deque, head, put, trying, poll>>
        /\ pc[p] = "sync" /\ pc'[p] = "run" /\ Idle(p) /\ Last(p).thief = Nobody
        /\ tail'[p] = t
    BY <1>5 DEF SyncInline, Goto, TypeOK, netVars, pollVars
  <2>2. t \in Live(p) /\ t \in Nat /\ Top(p).base <= t
    BY <1>c, <2>1
  <2>3. Last(p).task \in Task /\ ~ (t < head[p])
    BY <2>1, <2>2 DEF DequeOK, EntryOK, Last
  <2>4. f \in Frame
    <3>1. tail[p] \in 0 .. DequeSize
      BY DEF TypeOK
    <3>2. t \in 0 .. DequeSize
      BY <2>2, <3>1, BoundAssumption
    <3> QED
      BY <2>3, <3>2 DEF Frame
  <2>5. Fits(p, f, t)
    <3>1. stack[p] # << >>
      BY <1>b, <2>1 DEF Busy
    <3>2. ASSUME NEW k \in Levels(p) PROVE stack[p][k].base <= t
      BY <1>b, <2>1, <2>2 DEF Busy
    <3> QED
      BY <2>2, <3>1, <3>2 DEF Fits, Above, StealBack
  <2>6. StackOK(p)'
    <3> HIDE DEF f, t
    <3> QED
      BY <2>1, <2>2, <2>4, <2>5, StackPushed DEF Busy
  <2>7. LocationOK(p)'
    <3>1. stack'[p] # << >>
      BY <2>1, <2>6 DEF StackOK, Busy
    <3>2. head[p] <= t
      BY <1>a, <2>2, <2>3
    <3> HIDE DEF t
    <3> QED
      BY <2>1, <3>1, <3>2 DEF LocationOK, Busy, Idle
  <2>8. DequeOK(p)'
    <3>1. \A i \in Live(p)' : i \in Live(p)
      BY <1>a, <2>1 DEF Live, Index
    <3> QED
      BY <2>1, <3>1 DEF DequeOK, EntryOK
  <2> QED
    BY <2>6, <2>7, <2>8 DEF LocalOK
<1>6. CASE Join(p)
  <2> DEFINE t == tail[p] - 1
  <2>1. /\ UNCHANGED <<stack, deque, put, trying, poll>>
        /\ pc[p] \in {"leap", "sweep"} /\ pc'[p] = "run" /\ Idle(p)
        /\ tail'[p] = t /\ head'[p] = head[p] - 1
    BY <1>6 DEF Join, Goto, TypeOK, netVars, pollVars
  <2>2. t \in Live(p) /\ t \in Nat /\ Top(p).base <= t
    BY <1>c, <2>1
  <2>3. head[p] = tail[p] /\ head'[p] = t
    BY <2>1 DEF LocationOK
  <2>4. stack[p] # << >>
    BY <1>b, <2>1 DEF Busy
  <2>5. StackOK(p)'
    <3>1. ASSUME NEW k \in Levels(p) PROVE FrameOK(p, k) /\ stack[p][k].base <= t
      BY <1>b, <2>1, <2>2 DEF Busy, StackOK
    <3>2. Levels(p)' = Levels(p)
      BY <2>1 DEF Levels, Depth
    <3>3. \A k \in Levels(p) : FrameOK(p, k)'
      <4> HIDE DEF t
      <4> QED
        BY <2>1, <2>3, <3>1 DEF FrameOK
    <3> QED
      BY <2>1, <2>4, <3>2, <3>3 DEF StackOK, Above, Busy
  <2>6. LocationOK(p)'
    <3> HIDE DEF t
    <3> QED
      BY <2>1, <2>2, <2>3, <2>4 DEF LocationOK, Busy, Idle
  <2>7. DequeOK(p)'
    <3>1. ASSUME NEW i \in Live(p)'
          PROVE  i \in Live(p) /\ i < t /\ i < head[p] /\ ~ (t <= i)
      <4>1. i \in Nat /\ i \in Index /\ i < t
        BY <2>1 DEF Live, Index
      <4> QED
        BY <1>a, <2>2, <2>3, <4>1 DEF Live
    <3> HIDE DEF t
    <3> QED
      BY <2>1, <2>3, <3>1 DEF DequeOK, EntryOK
  <2> QED
    BY <2>5, <2>6, <2>7 DEF LocalOK
<1>7. CASE ReturnLocal(p)
  <2>1. /\ Pop(p) /\ UNCHANGED <<pc, deque, head, tail, put, trying, poll>>
        /\ pc[p] = "run" /\ Top(p).back = "run" /\ Idle(p)
    BY <1>7 DEF ReturnLocal, InHandler, dequeVars, netVars, pollVars
  <2>2. stack[p] # << >> /\ Depth(p) # 1
    BY <1>b, <2>1 DEF Busy, FrameOK, Top
  <2>3. StackOK(p)'
    BY <2>1, <2>2, StackPopped DEF Busy
  <2>4. stack'[p] # << >>
    BY <2>1, <2>3 DEF StackOK, Busy
  <2>5. LocationOK(p)'
    BY <2>1, <2>4 DEF LocationOK, Busy
  <2> QED
    BY <2>1, <2>3, <2>5, DequeStays DEF LocalOK
<1>8. CASE ReturnStolen(p)
  <2>1. /\ UNCHANGED <<stack, deque, head, tail, trying, poll>> /\ Idle(p)
        /\ pc[p] = "run" /\ pc'[p] = "wb" /\ tail[p] = Top(p).base /\ Top(p).addr # NoAddr
    BY <1>8 DEF ReturnStolen, InHandler, Goto, TypeOK, dequeVars, pollVars
  <2>2. StackOK(p)'
    BY <2>1, Counters0, StackMoved DEF Busy
  <2>3. LocationOK(p)'
    BY <2>1 DEF LocationOK, Top, Depth, Busy, Idle
  <2> QED
    BY <2>1, <2>2, <2>3, DequeStays DEF LocalOK
<1>9. CASE ReturnRoot(p)
  <2>1. /\ Pop(p) /\ UNCHANGED <<deque, head, tail, put, trying, poll>> /\ Idle(p)
        /\ pc[p] = "run" /\ pc'[p] = "bar2" /\ tail[p] = Top(p).base /\ Top(p).back = "bar2"
    BY <1>9 DEF ReturnRoot, InHandler, Goto, TypeOK, dequeVars, pollVars
  <2>2. stack[p] # << >> /\ Depth(p) = 1 /\ Top(p).base = 0
    BY <1>b, <2>1 DEF Busy, FrameOK, Top
  <2>3. StackOK(p)'
    BY <2>1, <2>2, StackPopped DEF Busy
  <2>4. LocationOK(p)'
    BY <1>a, <2>1, <2>2 DEF LocationOK, Busy, Idle
  <2> QED
    BY <2>1, <2>3, <2>4, DequeStays DEF LocalOK
<1> QED
  BY <1>1, <1>2, <1>3, <1>4, <1>5, <1>6, <1>7, <1>8, <1>9 DEF Handler, SyncOrReturn

LEMMA ComputeLocal ==
  ASSUME ShapeInv, NEW p \in Thread, Compute(p)
  PROVE  LocalOK(p)'
<1> USE DEF ShapeInv
<1>1. CASE Reset(p) \/ LeavePool(p) \/ EndRound(p)
  <2>1. /\ UNCHANGED <<stack, deque, head, tail, put, trying, poll>>
        /\ pc[p] \in {"start", "part", "bar2"} /\ (pc[p] = "part" => Idle(p))
        /\ pc'[p] \in {"start", "bar1", "bar2", "end"}
    <3>1. CASE Reset(p)
      BY <3>1 DEF Reset, Goto, TypeOK, dequeVars, netVars, pollVars
    <3>2. CASE LeavePool(p)
      BY <3>2 DEF LeavePool, Goto, TypeOK, dequeVars, netVars, pollVars
    <3>3. CASE EndRound(p)
      <4>1. pc'[p] = IF epoch[p] = 2 * Rounds THEN "end" ELSE "start"
        BY <3>3 DEF EndRound, Goto, TypeOK
      <4> QED
        BY <3>3, <4>1 DEF EndRound, dequeVars, netVars, pollVars
    <3> QED
      BY <1>1, <3>1, <3>2, <3>3
  <2>2. StackOK(p)'
    BY <2>1, Counters0, StackMoved DEF Busy
  <2>3. LocationOK(p)'
    BY <2>1 DEF LocationOK, Top, Depth, Busy, StealBack, Idle
  <2> QED
    BY <2>1, <2>2, <2>3, DequeStays DEF LocalOK
<1>2. CASE Initiate(p)
  <2> DEFINE f == [task |-> nextTask, addr |-> NoAddr, back |-> "bar2", base |-> tail[p]]
  <2>1. /\ Push(p, f) /\ UNCHANGED <<deque, head, tail, put, trying>> /\ p = Master
        /\ pc[p] = "bar1" /\ pc'[p] = "run" /\ nextTask <= MaxTasks
    BY <1>2 DEF Initiate, Goto, TypeOK, dequeVars, netVars
  <2>2. f \in Frame
    BY <2>1, BoundAssumption DEF TypeOK, Task, Frame
  <2>3. stack[p] = << >> /\ tail[p] = 0
    BY <2>1 DEF StackOK, LocationOK, Busy
  <2>4. Fits(p, f, tail[p])
    BY <2>1, <2>3 DEF Fits, Levels, Depth, StealBack
  <2>5. StackOK(p)'
    <3> HIDE DEF f
    <3> QED
      BY <2>1, <2>2, <2>4, Counters0, StackPushed DEF Busy
  <2>6. LocationOK(p)'
    <3>1. stack'[p] # << >>
      BY <2>1, <2>5 DEF StackOK, Busy
    <3> QED
      BY <2>1, <3>1 DEF LocationOK, Busy, StealBack
  <2> QED
    BY <2>1, <2>5, <2>6, DequeStays DEF LocalOK
<1>3. CASE Participate(p) \/ PoolSteal(p)
  <2>1. /\ UNCHANGED <<stack, deque, head, tail, put>>
        /\ pc[p] \in {"bar1", "part"} /\ pc'[p] = "part"
    BY <1>3 DEF Participate, PoolSteal, Goto, TypeOK, dequeVars, netVars
  <2>2. StackOK(p)'
    BY <2>1, Counters0, StackMoved DEF Busy
  <2>3. LocationOK(p)'
    BY <2>1 DEF LocationOK, Top, Depth, StealBack, Busy
  <2> QED
    BY <2>1, <2>2, <2>3, DequeStays DEF LocalOK
<1> QED
  BY <1>1, <1>2, <1>3 DEF Compute

-----------------------------------------------------------------------------
(* The steps of the network *)

\* A remote write hits an entry that was given away.
LEMMA EntryWritten ==
  ASSUME ShapeInv, NEW a \in Addr, Given(a), NEW e, e.task \in Task, e.thief # Nobody,
         deque' = [deque EXCEPT ![a[1]][a[2]] = e], UNCHANGED <<head, tail>>
  PROVE  \A q \in Thread : DequeOK(q)'
<1>1. /\ a[1] \in Thread /\ a[2] \in Index /\ a[2] \in Nat /\ a[2] < head[a[1]]
      /\ head[a[1]] \in Nat
  BY GivenLive DEF Given, Addr, Index, ShapeInv, TypeOK
<1>2. /\ deque'[a[1]][a[2]] = e
      /\ \A q \in Thread : \A i \in Index : <<q, i>> # <<a[1], a[2]>> => deque'[q][i] = deque[q][i]
  BY <1>1 DEF ShapeInv, TypeOK
<1>3. ASSUME NEW q \in Thread, NEW i \in Live(q)' PROVE EntryOK(q, i)'
  <2>1. i \in Live(q) /\ i \in Index /\ EntryOK(q, i)
    BY DEF Live, ShapeInv, DequeOK
  <2>2. CASE q = a[1] /\ i = a[2]
    <3>1. ~ (head[q] <= i) /\ i < head[q]
      BY <1>1, <2>2
    <3> QED
      BY <1>2, <2>2, <3>1 DEF EntryOK
  <2>3. CASE ~ (q = a[1] /\ i = a[2])
    BY <1>2, <2>1, <2>3 DEF EntryOK
  <2> QED
    BY <2>2, <2>3
<1> QED
  BY <1>3 DEF DequeOK

LEMMA NetworkLocal ==
  ASSUME ProtocolTypes, HoldInv, Network
  PROVE  \A q \in Thread : LocalOK(q)'
<1> USE DEF HoldInv, ShapeInv
<1>1. ASSUME NEW q \in Thread, UNCHANGED <<stack, pc, head, tail, trying, poll>>,
             put'[q] => put[q]
      PROVE  StackOK(q)' /\ LocationOK(q)'
  <2>1. StackOK(q)'
    BY <1>1, Counters0, StackMoved
  <2> QED
    BY <1>1, <2>1 DEF LocationOK, Top, Depth
<1>2. ASSUME NEW m \in net, LandReply(m) PROVE \A q \in Thread : LocalOK(q)'
  <2>1. UNCHANGED <<stack, pc, head, tail, trying, poll, put, deque>>
    BY <1>2 DEF LandReply, dequeVars, pollVars
  <2> QED
    BY <1>1, <2>1, DequeStays DEF LocalOK
<1>3. ASSUME NEW p \in Thread, LandTerm(p) PROVE \A q \in Thread : LocalOK(q)'
  <2>1. UNCHANGED <<stack, pc, head, tail, trying, poll, put, deque>>
    BY <1>3 DEF LandTerm, dequeVars, pollVars
  <2> QED
    BY <1>1, <2>1, DequeStays DEF LocalOK
<1>4. ASSUME NEW p \in Thread, LandPut(p) PROVE \A q \in Thread : LocalOK(q)'
  <2> DEFINE a == Top(p).addr
             e == [task |-> Running(p), thief |-> p, done |-> FALSE, out |-> Running(p)]
  <2>1. /\ UNCHANGED <<stack, pc, head, tail, trying, poll>>
        /\ put' = [put EXCEPT ![p] = FALSE]
        /\ deque' = [deque EXCEPT ![a[1]][a[2]] = e]
        /\ pc[p] = "wb"
    BY <1>4 DEF LandPut, pollVars, LocationOK
  <2>2. \A q \in Thread : put'[q] => put[q]
    BY <2>1 DEF TypeOK
  <2>3. stack[p] # << >> /\ a # NoAddr
    BY <2>1 DEF LocationOK, StackOK, Busy
  <2>4. Depth(p) \in Levels(p) /\ Top(p) \in Frame
    BY <2>3, StackFacts DEF TypeOK, StackType
  <2>5. a \in Addr /\ Given(a)
    BY <2>3, <2>4, Holding DEF Top
  <2>6. e.task \in Task /\ e.thief # Nobody
    BY <2>4, ThreadAssumption DEF Running, Frame
  <2>7. \A q \in Thread : DequeOK(q)'
    <3> HIDE DEF a, e
    <3> QED
      BY <2>1, <2>5, <2>6, EntryWritten
  <2> QED
    BY <1>1, <2>1, <2>2, <2>7 DEF LocalOK
<1>5. ASSUME NEW a \in doneFlight, LandDone(a) PROVE \A q \in Thread : LocalOK(q)'
  <2> DEFINE e == Completed(deque[a[1]][a[2]])
  <2>1. /\ UNCHANGED <<stack, pc, head, tail, trying, poll, put>>
        /\ deque' = [deque EXCEPT ![a[1]][a[2]] = e]
    BY <1>5 DEF LandDone, pollVars
  <2>2. a \in Addr /\ Given(a)
    BY Holding
  <2>3. EntryOK(a[1], a[2]) /\ a[2] < head[a[1]]
    BY <2>2, GivenLive DEF DequeOK, Given
  <2>4. e.task \in Task /\ e.thief # Nobody
    BY <2>3 DEF EntryOK, Completed
  <2>5. \A q \in Thread : DequeOK(q)'
    <3> HIDE DEF e
    <3> QED
      BY <2>1, <2>2, <2>4, EntryWritten
  <2> QED
    BY <1>1, <2>1, <2>5 DEF LocalOK
<1> QED
  BY <1>2, <1>3, <1>4, <1>5 DEF Network

\* Types, stacks, locations and deques: preserved by every step.
LEMMA ShapeNext ==
  ASSUME ProtocolTypes, HoldInv, [Next]_vars
  PROVE  ShapeInv'
<1> USE DEF HoldInv
<1>1. CASE UNCHANGED vars
  <2>1. TypeOK'
    BY <1>1 DEF ShapeInv, TypeOK, vars
  <2>2. \A q \in Thread : LocalOK(q)'
    BY <1>1, LocalStays DEF ShapeInv, LocalOK, vars
  <2> QED
    BY <2>1, <2>2 DEF ShapeInv, LocalOK
<1>2. ASSUME NEW p \in Thread, Step(p) PROVE ShapeInv'
  <2>1. TypeOK'
    BY <1>2, PollTypes, StealTypes, HandlerTypes, ComputeTypes DEF Step, ShapeInv
  <2>2. LocalOK(p)'
    BY <1>2, PollLocal, StealLocal, HandlerLocal, ComputeLocal DEF Step
  <2>3. \A q \in Thread : LocalOK(q)'
    BY <1>2, <2>2, StepOthers
  <2> QED
    BY <2>1, <2>3 DEF ShapeInv, LocalOK
<1>3. CASE Network
  BY <1>3, NetworkTypes, NetworkLocal DEF ShapeInv, LocalOK
<1> QED
  BY <1>1, <1>2, <1>3 DEF Next, Terminated

-----------------------------------------------------------------------------
(* Each entry given away has one holder: what a step does to one entry *)

Held(a) ==
  IsFiniteSet(InFrame(a)) /\ Holders(a) = IF Given(a) THEN 1 ELSE 0

LEMMA HeldEach == FramesFinite /\ HeldOnce <=> \A a \in Addr : Held(a)
  BY DEF FramesFinite, HeldOnce, Held, Given

LEMMA Small ==
  /\ IsFiniteSet({}) /\ Cardinality({}) = 0
  /\ \A x : IsFiniteSet({x}) /\ Cardinality({x}) = 1
  BY FS_EmptySet, FS_Singleton

\* Nothing happens to the entry.
LEMMA HeldStays ==
  ASSUME NEW a, Held(a), InNet(a)' = InNet(a), InCell(a)' = InCell(a),
         InFrame(a)' = InFrame(a), (a \in doneFlight)' <=> a \in doneFlight,
         Given(a)' <=> Given(a)
  PROVE  Held(a)'
  BY DEF Held, Holders

\* Somebody holds it after the step.
LEMMA HeldThen ==
  ASSUME NEW a, Given(a)', NEW x,
         \/ InNet(a)' = {x} /\ InCell(a)' = {} /\ InFrame(a)' = {} /\ (a \notin doneFlight)'
         \/ InNet(a)' = {} /\ InCell(a)' = {x} /\ InFrame(a)' = {} /\ (a \notin doneFlight)'
         \/ InNet(a)' = {} /\ InCell(a)' = {} /\ InFrame(a)' = {x} /\ (a \notin doneFlight)'
         \/ InNet(a)' = {} /\ InCell(a)' = {} /\ InFrame(a)' = {} /\ (a \in doneFlight)'
  PROVE  Held(a)'
<1>0. IsFiniteSet({x}) /\ Cardinality({x}) = 1 /\ IsFiniteSet({}) /\ Cardinality({}) = 0
  BY Small
<1>1. CASE InNet(a)' = {x} /\ InCell(a)' = {} /\ InFrame(a)' = {} /\ (a \notin doneFlight)'
  BY <1>0, <1>1 DEF Held, Holders
<1>2. CASE InNet(a)' = {} /\ InCell(a)' = {x} /\ InFrame(a)' = {} /\ (a \notin doneFlight)'
  BY <1>0, <1>2 DEF Held, Holders
<1>3. CASE InNet(a)' = {} /\ InCell(a)' = {} /\ InFrame(a)' = {x} /\ (a \notin doneFlight)'
  BY <1>0, <1>3 DEF Held, Holders
<1>4. CASE InNet(a)' = {} /\ InCell(a)' = {} /\ InFrame(a)' = {} /\ (a \in doneFlight)'
  BY <1>4, Small DEF Held, Holders
<1> QED
  BY <1>1, <1>2, <1>3, <1>4

\* Nobody does.
LEMMA FreeThen ==
  ASSUME NEW a, ~Given(a)', InNet(a)' = {}, InCell(a)' = {}, InFrame(a)' = {},
         (a \notin doneFlight)'
  PROVE  Held(a)'
  BY Small DEF Held, Holders

-----------------------------------------------------------------------------
(* Each entry given away has one holder: what a step does to a kind of     *)
(* holder                                                                  *)

LEMMA SameNet == ASSUME NEW a, net' = net PROVE InNet(a)' = InNet(a)
  BY DEF InNet

LEMMA SameCell == ASSUME NEW a, sem' = sem, cell' = cell PROVE InCell(a)' = InCell(a)
  BY DEF InCell

LEMMA SameFrame == ASSUME NEW a, stack' = stack PROVE InFrame(a)' = InFrame(a)
  BY DEF InFrame, Depth

LEMMA SameGiven == ASSUME NEW a, head' = head, deque' = deque PROVE Given(a)' <=> Given(a)
  BY DEF Given, At

LEMMA FramePushed ==
  ASSUME StackType, NEW p \in Thread, NEW f \in Frame, Push(p, f), NEW a
  PROVE  InFrame(a)' = InFrame(a) \cup (IF f.addr = a THEN {<<p, Depth(p) + 1>>} ELSE {})
<1>1. /\ \A q \in Thread \ {p} : stack'[q] = stack[q]
      /\ Depth(p)' = Depth(p) + 1 /\ stack'[p][Depth(p) + 1] = f
      /\ \A k \in Levels(p) : stack'[p][k] = stack[p][k]
      /\ Depth(p) \in Nat
  BY Pushed, StackFacts
<1>2. Levels(p)' = Levels(p) \cup {Depth(p) + 1} /\ \A q \in Thread \ {p} : Levels(q)' = Levels(q)
  BY <1>1 DEF Levels, Depth
<1>3. ASSUME NEW l \in InFrame(a)'
      PROVE  l \in InFrame(a) \cup (IF f.addr = a THEN {<<p, Depth(p) + 1>>} ELSE {})
  <2>1. PICK q \in Thread : \E k \in Levels(q)' : l = <<q, k>> /\ stack'[q][k].addr = a
    BY <1>3 DEF InFrame, Levels
  <2>2. PICK k \in Levels(q)' : l = <<q, k>> /\ stack'[q][k].addr = a
    BY <2>1
  <2>3. CASE q # p
    BY <1>1, <1>2, <2>2, <2>3, FrameIn
  <2>4. CASE q = p /\ k \in Levels(p)
    BY <1>1, <2>2, <2>4, FrameIn
  <2>5. CASE q = p /\ k = Depth(p) + 1
    BY <1>1, <2>2, <2>5
  <2> QED
    BY <1>2, <2>3, <2>4, <2>5
<1>4. ASSUME NEW l \in InFrame(a) PROVE l \in InFrame(a)'
  <2>1. PICK q \in Thread : \E k \in Levels(q) : l = <<q, k>> /\ stack[q][k].addr = a
    BY FrameIn
  <2>2. PICK k \in Levels(q) : l = <<q, k>> /\ stack[q][k].addr = a
    BY <2>1
  <2>3. k \in Levels(q)' /\ stack'[q][k] = stack[q][k]
    BY <1>1, <1>2
  <2> QED
    BY <2>2, <2>3 DEF InFrame, Levels
<1>5. f.addr = a => <<p, Depth(p) + 1>> \in InFrame(a)'
  <2>1. Depth(p) + 1 \in Levels(p)'
    BY <1>2
  <2> QED
    BY <1>1, <2>1 DEF InFrame, Levels
<1> QED
  BY <1>3, <1>4, <1>5

LEMMA FramePopped ==
  ASSUME StackType, NEW p \in Thread, stack[p] # << >>, Pop(p), NEW a
  PROVE  InFrame(a)' = IF Top(p).addr = a THEN InFrame(a) \ {<<p, Depth(p)>>} ELSE InFrame(a)
<1>1. /\ \A q \in Thread \ {p} : stack'[q] = stack[q]
      /\ Depth(p)' = Depth(p) - 1 /\ Depth(p) \in Levels(p) /\ Depth(p) \in Nat
      /\ \A k \in 1 .. Depth(p) - 1 : stack'[p][k] = stack[p][k]
  BY Popped, StackFacts
<1>2. /\ Levels(p)' = 1 .. Depth(p) - 1
      /\ Levels(p) = Levels(p)' \cup {Depth(p)} /\ Depth(p) \notin Levels(p)'
      /\ \A q \in Thread \ {p} : Levels(q)' = Levels(q)
  BY <1>1 DEF Levels, Depth
<1>3. ASSUME NEW l \in InFrame(a)' PROVE l \in InFrame(a) /\ l # <<p, Depth(p)>>
  <2>1. PICK q \in Thread : \E k \in Levels(q)' : l = <<q, k>> /\ stack'[q][k].addr = a
    BY <1>3 DEF InFrame, Levels
  <2>2. PICK k \in Levels(q)' : l = <<q, k>> /\ stack'[q][k].addr = a
    BY <2>1
  <2>3. k \in Levels(q) /\ stack'[q][k] = stack[q][k] /\ (q = p => k # Depth(p))
    BY <1>1, <1>2
  <2> QED
    BY <2>2, <2>3, FrameIn
<1>4. ASSUME NEW l \in InFrame(a), l # <<p, Depth(p)>> PROVE l \in InFrame(a)'
  <2>1. PICK q \in Thread : \E k \in Levels(q) : l = <<q, k>> /\ stack[q][k].addr = a
    BY FrameIn
  <2>2. PICK k \in Levels(q) : l = <<q, k>> /\ stack[q][k].addr = a
    BY <2>1
  <2>3. k \in Levels(q)' /\ stack'[q][k] = stack[q][k]
    BY <1>1, <1>2, <1>4, <2>2
  <2> QED
    BY <2>2, <2>3 DEF InFrame, Levels
<1>5. <<p, Depth(p)>> \in InFrame(a) => Top(p).addr = a
  BY FrameIn DEF Top
<1> QED
  BY <1>3, <1>4, <1>5

\* Frames of tasks that were not stolen hold no entry.
LEMMA PlainFrames ==
  ASSUME StackType, NEW p \in Thread, NEW a \in Addr,
         \/ UNCHANGED stack
         \/ \E f \in Frame : f.addr = NoAddr /\ Push(p, f)
         \/ stack[p] # << >> /\ Top(p).addr = NoAddr /\ Pop(p)
  PROVE  InFrame(a)' = InFrame(a)
<1>1. a # NoAddr
  BY AddrAssumption
<1>2. CASE UNCHANGED stack
  BY <1>2, SameFrame
<1>3. ASSUME NEW f \in Frame, f.addr = NoAddr, Push(p, f) PROVE InFrame(a)' = InFrame(a)
  <2>1. InFrame(a)' = InFrame(a) \cup (IF f.addr = a THEN {<<p, Depth(p) + 1>>} ELSE {})
    BY <1>3, FramePushed
  <2>2. f.addr # a
    BY <1>1, <1>3
  <2> QED
    BY <2>1, <2>2
<1>4. CASE stack[p] # << >> /\ Top(p).addr = NoAddr /\ Pop(p)
  BY <1>1, <1>4, FramePopped
<1> QED
  BY <1>2, <1>3, <1>4

\* Steps that move no holder.
LEMMA PlainStep ==
  ASSUME HoldInv, NEW p \in Thread, UNCHANGED <<net, sem, cell, doneFlight>>,
         \A a \in Addr : Given(a)' <=> Given(a),
         \/ UNCHANGED stack
         \/ \E f \in Frame : f.addr = NoAddr /\ Push(p, f)
         \/ stack[p] # << >> /\ Top(p).addr = NoAddr /\ Pop(p)
  PROVE  \A a \in Addr : Held(a)'
<1> SUFFICES ASSUME NEW a \in Addr PROVE Held(a)'
  OBVIOUS
<1>1. Held(a)
  BY HeldEach DEF HoldInv
<1>2. InFrame(a)' = InFrame(a)
  BY PlainFrames DEF HoldInv, ShapeInv, TypeOK, StackType
<1>3. InNet(a)' = InNet(a) /\ InCell(a)' = InCell(a)
  BY SameNet, SameCell
<1> QED
  BY <1>1, <1>2, <1>3, HeldStays

\* What the request protocol says of answers and semaphores.
LEMMA Answering ==
  ASSUME ProtocolInv
  PROVE  /\ \A m \in net : sem[m.to] = 0
         /\ \A p \in Thread : sem[p] > 0 => sem[p] = 1 /\ Waiting(p)
<1>1. ASSUME NEW q \in Thread
      PROVE  /\ IsFiniteSet(Replies(q)) /\ Cardinality(Requests(q)) \in Nat
             /\ Cardinality(Replies(q)) \in Nat /\ sem[q] \in Nat
             /\ Cardinality(Requests(q)) + Cardinality(Replies(q)) + sem[q]
                  = IF Waiting(q) THEN 1 ELSE 0
  BY CountTypes DEF ProtocolInv, OneAnswer
<1>2. ASSUME NEW m \in net PROVE sem[m.to] = 0
  <2>1. m.to \in Thread /\ m \in Replies(m.to)
    BY DEF ProtocolInv, ProtocolTypes, Replies
  <2>2. Cardinality(Replies(m.to)) # 0
    BY <1>1, <2>1, FS_EmptySet
  <2>3. PICK q \in Thread : q = m.to
    BY <2>1
  <2>4. Cardinality(Replies(q)) # 0
    BY <2>2, <2>3
  <2>5. sem[q] = 0
    BY <1>1, <2>4
  <2> QED
    BY <2>3, <2>5
<1>3. ASSUME NEW q \in Thread, sem[q] > 0 PROVE sem[q] = 1 /\ Waiting(q)
  BY <1>1, <1>3
<1> QED
  BY <1>2, <1>3

-----------------------------------------------------------------------------
(* Each entry given away has one holder: the steps *)

\* A refusal is no holder.
LEMMA RefusedHeld ==
  ASSUME HoldInv, NEW t \in Thread, Reply(t, Refused),
         UNCHANGED <<sem, cell, doneFlight, stack, head, deque>>
  PROVE  \A a \in Addr : Held(a)'
<1> SUFFICES ASSUME NEW a \in Addr PROVE Held(a)'
  OBVIOUS
<1>1. Held(a)
  BY HeldEach DEF HoldInv
<1>2. InNet(a)' = InNet(a)
  BY AddrAssumption DEF InNet, Reply
<1> QED
  BY <1>1, <1>2, SameCell, SameFrame, SameGiven, HeldStays

\* The entry at the head is given away: the answer in flight holds it.
LEMMA ServeHeld ==
  ASSUME ProtocolInv, HoldInv, NEW p \in Thread, PollServe(p)
  PROVE  \A a \in Addr : Held(a)'
<1> DEFINE h == head[p]
           b == <<p, h>>
           t == SlotOf(p)
           m == [to |-> t, src |-> b]
<1>1. /\ ~Few(p) /\ t \in Thread
      /\ head' = [head EXCEPT ![p] = @ + 1]
      /\ deque' = [deque EXCEPT ![p][h] = Stolen(@, t)]
      /\ net' = net \cup {m}
      /\ UNCHANGED <<sem, cell, doneFlight, stack>>
  BY DEF PollServe, Reply
<1>2. h \in Nat /\ h \in Index /\ h < tail[p]
  <2>1. head[p] \in 0 .. DequeSize /\ tail[p] \in 0 .. DequeSize
    BY DEF HoldInv, ShapeInv, TypeOK
  <2>2. ~ (tail[p] < head[p] + Threshold)
    BY <1>1 DEF Few
  <2> QED
    BY <2>1, <2>2, BoundAssumption DEF Index
<1>3. b \in Addr /\ b[1] = p /\ b[2] = h /\ m.src = b
  BY <1>2 DEF Addr
<1>4. ~Given(b) /\ ~deque[p][h].done
  <2>1. ~ (h < h) /\ h <= h
    BY <1>2
  <2>2. EntryOK(p, h)
    BY <1>2 DEF HoldInv, ShapeInv, DequeOK, Live
  <2> QED
    BY <1>3, <2>1, <2>2 DEF Given, EntryOK
<1>5. head'[p] = h + 1 /\ \A q \in Thread \ {p} : head'[q] = head[q]
  BY <1>1 DEF HoldInv, ShapeInv, TypeOK
<1>6. /\ deque'[p][h].done = deque[p][h].done
      /\ \A q \in Thread, i \in Index : <<q, i>> # <<p, h>> => deque'[q][i] = deque[q][i]
  BY <1>1, <1>2 DEF HoldInv, ShapeInv, TypeOK, Stolen
<1>7. ASSUME NEW a \in Addr, a = b PROVE Held(a)'
  <2>1. InNet(a) = {} /\ InCell(a) = {} /\ InFrame(a) = {} /\ a \notin doneFlight
    BY <1>4, <1>7, OneHolder DEF HoldInv, ProtocolInv
  <2>2. Given(a)'
    <3>1. h < h + 1
      BY <1>2
    <3> QED
      BY <1>3, <1>4, <1>5, <1>6, <1>7, <3>1 DEF Given, At
  <2>3. InNet(a)' = {m}
    BY <1>1, <1>3, <1>7, <2>1 DEF InNet
  <2>4. InCell(a)' = {} /\ InFrame(a)' = {} /\ (a \notin doneFlight)'
    BY <1>1, <2>1, SameCell, SameFrame
  <2> QED
    BY <2>2, <2>3, <2>4, HeldThen
<1>8. ASSUME NEW a \in Addr, a # b PROVE Held(a)'
  <2>1. InNet(a)' = InNet(a)
    BY <1>1, <1>3, <1>8 DEF InNet
  <2>2. a[1] \in Thread /\ a[2] \in Index /\ a[2] \in Nat /\ a = <<a[1], a[2]>>
    BY DEF Addr, Index
  <2>3. Given(a)' <=> Given(a)
    <3>1. CASE a[1] = p
      <4>1. a[2] # h
        BY <1>8, <2>2, <3>1
      <4>2. a[2] < h + 1 <=> a[2] < h
        BY <1>2, <2>2, <4>1
      <4>3. deque'[p][a[2]] = deque[p][a[2]]
        BY <1>6, <2>2, <4>1
      <4> QED
        BY <1>5, <3>1, <4>2, <4>3 DEF Given, At
    <3>2. CASE a[1] # p
      BY <1>5, <1>6, <2>2, <3>2 DEF Given, At
    <3> QED
      BY <3>1, <3>2
  <2>4. Held(a)
    BY HeldEach DEF HoldInv
  <2>5. InCell(a)' = InCell(a) /\ InFrame(a)' = InFrame(a)
    BY <1>1, SameCell, SameFrame
  <2> QED
    BY <1>1, <2>1, <2>3, <2>4, <2>5, HeldStays
<1> QED
  BY <1>7, <1>8

\* The thief takes a refusal off its semaphore.
LEMMA RefusalTaken ==
  ASSUME ProtocolInv, HoldInv, NEW p \in Thread, StealRefused(p)
  PROVE  \A a \in Addr : Held(a)'
<1> SUFFICES ASSUME NEW a \in Addr PROVE Held(a)'
  OBVIOUS
<1>1. /\ cell[p] = Refused /\ sem' = [sem EXCEPT ![p] = @ - 1]
      /\ UNCHANGED <<cell, net, doneFlight, stack, head, deque>>
  BY DEF StealRefused, dequeVars, netVars
<1>2. Held(a)
  BY HeldEach DEF HoldInv
<1>3. InCell(a)' = InCell(a)
  <2>1. \A q \in Thread \ {p} : sem'[q] = sem[q]
    BY <1>1 DEF HoldInv, ShapeInv, TypeOK
  <2> QED
    BY <1>1, <2>1 DEF InCell
<1> QED
  BY <1>1, <1>2, <1>3, SameNet, SameFrame, SameGiven, HeldStays

\* The thief runs the task: its frame holds the entry that its cell held.
LEMMA RunHeld ==
  ASSUME ProtocolInv, HoldInv, NEW p \in Thread, StealRun(p), StackType
  PROVE  \A a \in Addr : Held(a)'
<1> DEFINE b == cell[p].addr
           f == [task |-> cell[p].task, addr |-> cell[p].addr,
                 back |-> AfterSuccess(pc[p]), base |-> tail[p]]
<1>1. /\ cell[p] # Refused /\ sem[p] > 0 /\ sem' = [sem EXCEPT ![p] = @ - 1]
      /\ Push(p, f) /\ UNCHANGED <<cell, net, doneFlight, head, deque>>
  BY DEF StealRun, dequeVars, netVars
<1>2. sem[p] = 1 /\ sem'[p] = 0 /\ \A q \in Thread \ {p} : sem'[q] = sem[q]
  BY <1>1, Answering DEF HoldInv, ShapeInv, TypeOK
<1>3. b \in Addr /\ Given(b) /\ p \in InCell(b)
  BY <1>1, Holding DEF ProtocolInv
<1>4. f \in Frame
  <2>1. pc[p] \in StealBack
    BY DEF HoldInv, ShapeInv, LocationOK, StealRun, Waiting
  <2>2. AfterSuccess(pc[p]) \in StealBack /\ cell[p].task \in Task
    BY <1>1, <2>1 DEF AfterSuccess, StealBack, HoldInv, ShapeInv, TypeOK
  <2> QED
    BY <1>3, <2>2 DEF Frame, StealBack, HoldInv, ShapeInv, TypeOK
<1>5. \A a : InFrame(a)' = InFrame(a) \cup (IF f.addr = a THEN {<<p, Depth(p) + 1>>} ELSE {})
  <2> HIDE DEF f
  <2> QED
    BY <1>1, <1>4, FramePushed
<1>6. \A a : InCell(a)' = InCell(a) \ {p}
  BY <1>1, <1>2 DEF InCell
<1>7. ASSUME NEW a \in Addr, a = b PROVE Held(a)'
  <2>1. InNet(a) = {} /\ InCell(a) = {p} /\ InFrame(a) = {} /\ a \notin doneFlight /\ Given(a)
    BY <1>3, <1>7, OneHolder DEF HoldInv, ProtocolInv
  <2>2. InCell(a)' = {} /\ InFrame(a)' = {<<p, Depth(p) + 1>>}
    BY <1>5, <1>6, <1>7, <2>1
  <2>3. Given(a)' /\ InNet(a)' = {} /\ (a \notin doneFlight)'
    BY <1>1, <2>1, SameNet, SameGiven
  <2> QED
    BY <2>2, <2>3, HeldThen
<1>8. ASSUME NEW a \in Addr, a # b PROVE Held(a)'
  <2>1. InCell(a)' = InCell(a)
    BY <1>6, <1>8 DEF InCell
  <2>2. InFrame(a)' = InFrame(a)
    BY <1>5, <1>8
  <2>3. Held(a)
    BY HeldEach DEF HoldInv
  <2> QED
    BY <1>1, <2>1, <2>2, <2>3, SameNet, SameGiven, HeldStays
<1> QED
  BY <1>7, <1>8

\* The task is written back: DONE in flight holds the entry that the frame held.
LEMMA DoneHeld ==
  ASSUME ProtocolInv, HoldInv, NEW p \in Thread, WriteBackDone(p), StackType
  PROVE  \A a \in Addr : Held(a)'
<1> DEFINE b == Top(p).addr
<1>1. /\ pc[p] = "wb" /\ doneFlight' = doneFlight \cup {b} /\ Pop(p)
      /\ UNCHANGED <<sem, cell, net, head, deque>>
  BY DEF WriteBackDone, dequeVars
<1>2. stack[p] # << >> /\ b # NoAddr
  BY <1>1 DEF HoldInv, ShapeInv, StackOK, LocationOK, Busy
<1>3. Depth(p) \in Levels(p)
  BY <1>2, StackFacts
<1>4. b \in Addr /\ Given(b) /\ <<p, Depth(p)>> \in InFrame(b)
  BY <1>2, <1>3, Holding DEF ProtocolInv, Top
<1>5. \A a : InFrame(a)' = IF b = a THEN InFrame(a) \ {<<p, Depth(p)>>} ELSE InFrame(a)
  BY <1>1, <1>2, FramePopped
<1>6. ASSUME NEW a \in Addr, a = b PROVE Held(a)'
  <2>1. InNet(a) = {} /\ InCell(a) = {} /\ InFrame(a) = {<<p, Depth(p)>>} /\ Given(a)
    BY <1>4, <1>6, OneHolder DEF HoldInv, ProtocolInv
  <2>2. InFrame(a)' = {} /\ (a \in doneFlight)'
    BY <1>1, <1>5, <1>6, <2>1
  <2>3. Given(a)' /\ InNet(a)' = {} /\ InCell(a)' = {}
    BY <1>1, <2>1, SameNet, SameCell, SameGiven
  <2> QED
    BY <2>2, <2>3, HeldThen
<1>7. ASSUME NEW a \in Addr, a # b PROVE Held(a)'
  <2>1. InFrame(a)' = InFrame(a) /\ ((a \in doneFlight)' <=> a \in doneFlight)
    BY <1>1, <1>5, <1>7
  <2>2. Held(a)
    BY HeldEach DEF HoldInv
  <2> QED
    BY <1>1, <2>1, <2>2, SameNet, SameCell, SameGiven, HeldStays
<1> QED
  BY <1>6, <1>7

\* The entry that a spawn writes was not given away, and still is not.
LEMMA SpawnGiven ==
  ASSUME HoldInv, NEW p \in Thread, Spawn(p), NEW a \in Addr
  PROVE  Given(a)' <=> Given(a)
<1>1. /\ head' = head
      /\ deque' = [deque EXCEPT ![p][tail[p]] =
           [task |-> nextTask, thief |-> Nobody, done |-> FALSE, out |-> @.out]]
  BY DEF Spawn
<1>2. a[1] \in Thread /\ a[2] \in Index /\ a[2] \in Nat
  BY DEF Addr, Index
<1>3. head[p] \in Nat /\ tail[p] \in Nat /\ head[p] <= tail[p]
  BY Counters0 DEF HoldInv, ShapeInv, LocationOK
<1>4. CASE a[1] = p /\ a[2] = tail[p]
  <2>1. ~ (a[2] < head[a[1]])
    BY <1>3, <1>4
  <2> QED
    BY <1>1, <2>1 DEF Given
<1>5. CASE ~ (a[1] = p /\ a[2] = tail[p])
  <2>1. At(a)' = At(a)
    BY <1>1, <1>2, <1>5 DEF At, HoldInv, ShapeInv, TypeOK
  <2> QED
    BY <1>1, <2>1 DEF Given
<1> QED
  BY <1>4, <1>5

\* A join drops an entry that is done: nobody holds it.
LEMMA JoinGiven ==
  ASSUME HoldInv, NEW p \in Thread, Join(p), NEW a \in Addr
  PROVE  Given(a)' <=> Given(a)
<1>1. /\ pc[p] \in {"leap", "sweep"} /\ Last(p).done /\ deque' = deque
      /\ head'[p] = head[p] - 1 /\ \A q \in Thread \ {p} : head'[q] = head[q]
  BY DEF Join, HoldInv, ShapeInv, TypeOK
<1>2. a[1] \in Thread /\ a[2] \in Nat
  BY DEF Addr, Index
<1>3. head[p] \in Nat /\ head[p] = tail[p]
  BY <1>1, Counters0 DEF HoldInv, ShapeInv, LocationOK
<1>4. CASE a[1] = p /\ a[2] = tail[p] - 1
  <2>1. At(a).done
    BY <1>1, <1>4 DEF At, Last
  <2> QED
    BY <1>1, <2>1 DEF Given, At
<1>5. CASE a[1] = p /\ a[2] # tail[p] - 1
  <2>1. a[2] < head[p] - 1 <=> a[2] < head[p]
    BY <1>2, <1>3, <1>5
  <2> QED
    BY <1>1, <1>5, <2>1 DEF Given, At
<1>6. CASE a[1] # p
  BY <1>1, <1>2, <1>6 DEF Given, At
<1> QED
  BY <1>4, <1>5, <1>6

\* An answer lands: the transfer cell holds the entry that the answer held.
LEMMA ReplyHeld ==
  ASSUME ProtocolInv, HoldInv, NEW m \in net, LandReply(m)
  PROVE  \A a \in Addr : Held(a)'
<1> DEFINE t == m.to
           b == m.src
<1>1. /\ net' = net \ {m} /\ sem' = [sem EXCEPT ![t] = @ + 1]
      /\ cell' = [cell EXCEPT ![t] =
           IF b = Refused THEN Refused ELSE [addr |-> b, task |-> At(b).task]]
      /\ UNCHANGED <<doneFlight, stack, head, deque>>
  BY DEF LandReply, dequeVars
<1>2. /\ sem[t] = 0 /\ t \in Thread /\ b \in Addr \cup {Refused}
      /\ sem'[t] = 1 /\ \A q \in Thread \ {t} : sem'[q] = sem[q] /\ cell'[q] = cell[q]
      /\ cell'[t] = IF b = Refused THEN Refused ELSE [addr |-> b, task |-> At(b).task]
  <2>1. sem[t] = 0 /\ t \in Thread /\ b \in Addr \cup {Refused}
    BY Answering DEF HoldInv, ShapeInv, TypeOK
  <2> QED
    BY <1>1, <2>1 DEF HoldInv, ShapeInv, TypeOK
<1>3. \A a : InNet(a)' = InNet(a) \ {m}
  BY <1>1 DEF InNet
<1>4. [addr |-> b, task |-> At(b).task] # Refused \/ b = Refused
  <2>1. ASSUME b # Refused PROVE b \in Addr /\ At(b).task \in Task /\ sem[t] = 0
    BY <1>2, <2>1, Holding, GivenLive DEF HoldInv, ProtocolInv
  <2> QED
    BY <2>1, AddrAssumption
<1>5. ASSUME NEW a \in Addr, a = b PROVE Held(a)'
  <2>1. b # Refused /\ m \in InNet(a)
    BY <1>5, AddrAssumption DEF InNet
  <2>2. InNet(a) = {m} /\ InCell(a) = {} /\ InFrame(a) = {} /\ a \notin doneFlight /\ Given(a)
    BY <2>1, OneHolder DEF HoldInv, ProtocolInv
  <2>3. InCell(a)' = {t}
    BY <1>2, <1>4, <1>5, <2>1, <2>2 DEF InCell
  <2>4. Given(a)' /\ InNet(a)' = {} /\ InFrame(a)' = {} /\ (a \notin doneFlight)'
    BY <1>1, <1>3, <2>2, SameFrame, SameGiven
  <2> QED
    BY <2>3, <2>4, HeldThen
<1>6. ASSUME NEW a \in Addr, a # b PROVE Held(a)'
  <2>1. InNet(a)' = InNet(a)
    BY <1>3, <1>6 DEF InNet
  <2>2. t \notin InCell(a) /\ t \notin InCell(a)'
    BY <1>2, <1>6 DEF InCell
  <2>3. InCell(a)' = InCell(a)
    BY <1>2, <2>2 DEF InCell
  <2>4. Held(a)
    BY HeldEach DEF HoldInv
  <2> QED
    BY <1>1, <2>1, <2>3, <2>4, SameFrame, SameGiven, HeldStays
<1> QED
  BY <1>5, <1>6

\* DONE lands: the entry is done, and nobody holds it.
LEMMA DoneLands ==
  ASSUME ProtocolInv, HoldInv, NEW b \in doneFlight, LandDone(b)
  PROVE  \A a \in Addr : Held(a)'
<1>1. /\ doneFlight' = doneFlight \ {b}
      /\ deque' = [deque EXCEPT ![b[1]][b[2]] = Completed(@)]
      /\ UNCHANGED <<head, net, sem, cell, stack>>
  BY DEF LandDone
<1>2. b \in Addr /\ Given(b)
  BY Holding DEF ProtocolInv
<1>3. \A a \in Addr : a[1] \in Thread /\ a[2] \in Index /\ a = <<a[1], a[2]>>
  BY DEF Addr
<1>4. At(b)'.done /\ \A a \in Addr : a # b => At(a)' = At(a)
  <2>1. /\ deque'[b[1]][b[2]] = Completed(deque[b[1]][b[2]])
        /\ \A p \in Thread, i \in Index : <<p, i>> # <<b[1], b[2]>> => deque'[p][i] = deque[p][i]
    BY <1>1, <1>2, <1>3 DEF HoldInv, ShapeInv, TypeOK
  <2>2. At(b)'.done
    BY <2>1 DEF At, Completed
  <2>3. \A a \in Addr : a # b => At(a)' = At(a)
    BY <1>2, <1>3, <2>1 DEF At
  <2> QED
    BY <2>2, <2>3
<1>5. Held(b)'
  <2>1. InNet(b) = {} /\ InCell(b) = {} /\ InFrame(b) = {}
    BY <1>2, OneHolder DEF HoldInv, ProtocolInv
  <2>2. ~Given(b)' /\ (b \notin doneFlight)'
    BY <1>1, <1>4 DEF Given
  <2> QED
    BY <1>1, <2>1, <2>2, SameNet, SameCell, SameFrame, FreeThen
<1>6. ASSUME NEW a \in Addr, a # b PROVE Held(a)'
  <2>1. (a \in doneFlight)' <=> a \in doneFlight
    BY <1>1, <1>6
  <2>2. Given(a)' <=> Given(a)
    BY <1>1, <1>4, <1>6 DEF Given
  <2>3. Held(a)
    BY HeldEach DEF HoldInv
  <2> QED
    BY <1>1, <2>1, <2>2, <2>3, SameNet, SameCell, SameFrame, HeldStays
<1> QED
  BY <1>5, <1>6

\* The write-back lands in an entry that was given away and is not done.
LEMMA PutHeld ==
  ASSUME ProtocolInv, HoldInv, NEW p \in Thread, LandPut(p)
  PROVE  \A a \in Addr : Held(a)'
<1> DEFINE b == Top(p).addr
<1>1. /\ deque' = [deque EXCEPT ![b[1]][b[2]] =
           [task |-> Running(p), thief |-> p, done |-> FALSE, out |-> Running(p)]]
      /\ pc[p] = "wb" /\ UNCHANGED <<head, net, sem, cell, stack, doneFlight>>
  BY DEF LandPut, HoldInv, ShapeInv, LocationOK
<1>2. stack[p] # << >> /\ b # NoAddr
  BY <1>1 DEF HoldInv, ShapeInv, LocationOK, StackOK, Busy
<1>3. Depth(p) \in Levels(p)
  BY <1>2, StackFacts DEF HoldInv, ShapeInv, TypeOK, StackType
<1>4. b \in Addr /\ Given(b)
  BY <1>2, <1>3, Holding DEF ProtocolInv, Top
<1>5. \A a \in Addr : a[1] \in Thread /\ a[2] \in Index /\ a = <<a[1], a[2]>>
  BY DEF Addr
<1>6. ASSUME NEW a \in Addr PROVE Given(a)' <=> Given(a)
  <2>1. CASE a = b
    <3>1. ~At(a)'.done
      BY <1>1, <1>5, <2>1 DEF At, HoldInv, ShapeInv, TypeOK
    <3> QED
      BY <1>1, <1>4, <2>1, <3>1 DEF Given
  <2>2. CASE a # b
    <3>1. At(a)' = At(a)
      BY <1>1, <1>4, <1>5, <2>2 DEF At, HoldInv, ShapeInv, TypeOK
    <3> QED
      BY <1>1, <3>1 DEF Given
  <2> QED
    BY <2>1, <2>2
<1> QED
  BY <1>1, <1>6, PlainStep

LEMMA HeldNext ==
  ASSUME ProtocolInv, HoldInv, [Next]_vars
  PROVE  \A a \in Addr : Held(a)'
<1>0. StackType
  BY DEF HoldInv, ShapeInv, TypeOK, StackType
\* Most steps touch no holder at all.
<1>1. ASSUME UNCHANGED <<net, sem, cell, doneFlight, stack, head, deque>>
      PROVE  \A a \in Addr : Held(a)'
  <2> SUFFICES ASSUME NEW a \in Addr PROVE Held(a)'
    OBVIOUS
  <2>1. Held(a)
    BY HeldEach DEF HoldInv
  <2> QED
    BY <1>1, <2>1, SameNet, SameCell, SameFrame, SameGiven, HeldStays
<1>2. CASE UNCHANGED vars
  BY <1>1, <1>2 DEF vars
<1>3. ASSUME NEW p \in Thread, Poll(p) PROVE \A a \in Addr : Held(a)'
  <2>1. CASE PollSkip(p) \/ PollSeeFree(p) \/ PollCasWon(p) \/ PollUnblock(p)
    BY <1>1, <2>1 DEF PollSkip, PollSeeFree, PollCasWon, PollUnblock, dequeVars, netVars
  <2>2. CASE PollRefuse(p) \/ PollCasLost(p)
    <3>1. /\ SlotOf(p) \in Thread /\ Reply(SlotOf(p), Refused)
          /\ UNCHANGED <<sem, cell, doneFlight, stack, head, deque>>
      BY <2>2 DEF PollRefuse, PollCasLost, dequeVars
    <3> QED
      BY <3>1, RefusedHeld
  <2>3. CASE PollServe(p)
    BY <2>3, ServeHeld
  <2> QED
    BY <1>3, <2>1, <2>2, <2>3 DEF Poll
<1>4. ASSUME NEW p \in Thread, Steal(p) PROVE \A a \in Addr : Held(a)'
  <2>1. CASE StealCasWon(p) \/ StealCasLost(p) \/ WriteBackPoll(p)
    BY <1>1, <2>1 DEF StealCasWon, StealCasLost, WriteBackPoll, dequeVars, netVars
  <2>2. CASE StealRefused(p)
    BY <2>2, RefusalTaken
  <2>3. CASE StealRun(p)
    BY <1>0, <2>3, RunHeld
  <2>4. CASE WriteBackDone(p)
    BY <1>0, <2>4, DoneHeld
  <2> QED
    BY <1>4, <2>1, <2>2, <2>3, <2>4 DEF Steal
<1>5. ASSUME NEW p \in Thread, Handler(p) PROVE \A a \in Addr : Held(a)'
  <2>0. pc[p] \in Busy => Depth(p) \in Levels(p) /\ stack[p] # << >>
    BY <1>0, StackFacts DEF HoldInv, ShapeInv, StackOK
  <2>1. CASE Progress(p) \/ Sync(p) \/ SyncStolen(p) \/ SyncSteal(p) \/ ReturnStolen(p)
    BY <1>1, <2>1 DEF Progress, Sync, SyncStolen, SyncSteal, ReturnStolen, dequeVars, netVars
  <2>2. CASE Spawn(p)
    <3>1. \A a \in Addr : Given(a)' <=> Given(a)
      BY <2>2, SpawnGiven
    <3>2. UNCHANGED <<net, sem, cell, doneFlight, stack>>
      BY <2>2 DEF Spawn, netVars
    <3> QED
      BY <3>1, <3>2, PlainStep
  <2>3. CASE Join(p)
    <3>1. \A a \in Addr : Given(a)' <=> Given(a)
      BY <2>3, JoinGiven
    <3>2. UNCHANGED <<net, sem, cell, doneFlight, stack>>
      BY <2>3 DEF Join, netVars
    <3> QED
      BY <3>1, <3>2, PlainStep
  <2>4. CASE Call(p)
    <3> DEFINE f == [task |-> nextTask, addr |-> NoAddr, back |-> "run", base |-> tail[p]]
    <3>1. Push(p, f) /\ UNCHANGED <<net, sem, cell, doneFlight, head, deque>>
      BY <2>4 DEF Call, dequeVars, netVars
    <3>2. f \in Frame /\ f.addr = NoAddr
      BY <2>4, BoundAssumption DEF Call, MayCreate, Frame, Task, HoldInv, ShapeInv, TypeOK
    <3>3. \A a \in Addr : Given(a)' <=> Given(a)
      BY <3>1, SameGiven
    <3> HIDE DEF f
    <3> QED
      BY <3>1, <3>2, <3>3, PlainStep
  <2>5. CASE SyncInline(p)
    <3> DEFINE f == [task |-> Last(p).task, addr |-> NoAddr, back |-> "run",
                     base |-> tail[p] - 1]
    <3>1. Push(p, f) /\ UNCHANGED <<net, sem, cell, doneFlight, head, deque>>
      BY <2>5 DEF SyncInline, netVars
    <3>2. f \in Frame /\ f.addr = NoAddr
      <4>1. pc[p] = "sync"
        BY <2>5 DEF SyncInline
      <4>2. Top(p).base < tail[p] /\ stack[p] # << >>
        BY <2>0, <4>1 DEF HoldInv, ShapeInv, LocationOK, Busy
      <4>5. tail[p] \in 0 .. DequeSize /\ Top(p).base \in Nat
        BY <1>0, <4>2, StackFacts DEF HoldInv, ShapeInv, TypeOK, Frame
      <4>3. tail[p] - 1 \in Live(p) /\ tail[p] - 1 \in 0 .. DequeSize
        BY <4>2, <4>5, BoundAssumption DEF Live, Index
      <4>4. Last(p).task \in Task
        BY <4>3 DEF HoldInv, ShapeInv, DequeOK, EntryOK, Last
      <4> QED
        BY <4>3, <4>4 DEF Frame
    <3>3. \A a \in Addr : Given(a)' <=> Given(a)
      BY <3>1, SameGiven
    <3> HIDE DEF f
    <3> QED
      BY <3>1, <3>2, <3>3, PlainStep
  <2>6. CASE ReturnLocal(p) \/ ReturnRoot(p)
    <3>1. /\ Pop(p) /\ pc[p] = "run" /\ UNCHANGED <<net, sem, cell, doneFlight, head, deque>>
          /\ Top(p).back \in {"run", "bar2"}
      BY <2>6 DEF ReturnLocal, ReturnRoot, InHandler, dequeVars, netVars
    <3>2. stack[p] # << >> /\ FrameOK(p, Depth(p))
      BY <2>0, <3>1 DEF HoldInv, ShapeInv, StackOK, Busy
    <3>3. Top(p).addr = NoAddr
      BY <3>1, <3>2 DEF FrameOK, Top, StealBack
    <3>4. \A a \in Addr : Given(a)' <=> Given(a)
      BY <3>1, SameGiven
    <3> QED
      BY <3>1, <3>2, <3>3, <3>4, PlainStep
  <2> QED
    BY <1>5, <2>1, <2>2, <2>3, <2>4, <2>5, <2>6 DEF Handler, SyncOrReturn
<1>6. ASSUME NEW p \in Thread, Compute(p) PROVE \A a \in Addr : Held(a)'
  <2>1. CASE Initiate(p)
    <3> DEFINE f == [task |-> nextTask, addr |-> NoAddr, back |-> "bar2", base |-> tail[p]]
    <3>1. Push(p, f) /\ UNCHANGED <<net, sem, cell, doneFlight, head, deque>>
      BY <2>1 DEF Initiate, dequeVars, netVars
    <3>2. f \in Frame /\ f.addr = NoAddr
      BY <2>1, BoundAssumption DEF Initiate, Frame, Task, HoldInv, ShapeInv, TypeOK
    <3>3. \A a \in Addr : Given(a)' <=> Given(a)
      BY <3>1, SameGiven
    <3> HIDE DEF f
    <3> QED
      BY <3>1, <3>2, <3>3, PlainStep
  <2>2. CASE Reset(p) \/ Participate(p) \/ PoolSteal(p) \/ LeavePool(p) \/ EndRound(p)
    BY <1>1, <2>2 DEF Reset, Participate, PoolSteal, LeavePool, EndRound, dequeVars, netVars
  <2> QED
    BY <1>6, <2>1, <2>2 DEF Compute
<1>7. CASE Network
  <2>1. ASSUME NEW p \in Thread, LandTerm(p) PROVE \A a \in Addr : Held(a)'
    BY <1>1, <2>1 DEF LandTerm, dequeVars
  <2> QED
    BY <1>7, <2>1, ReplyHeld, PutHeld, DoneLands DEF Network
<1> QED
  BY <1>2, <1>3, <1>4, <1>5, <1>6, <1>7 DEF Next, Step, Terminated

LEMMA HoldNext ==
  ASSUME ProtocolInv, HoldInv, [Next]_vars
  PROVE  HoldInv'
<1>1. ShapeInv'
  BY ShapeNext DEF ProtocolInv
<1>2. \A a \in Addr : Held(a)'
  BY HeldNext
<1>3. FramesFinite' /\ HeldOnce'
  BY <1>2 DEF Held, FramesFinite, HeldOnce, Given
<1> QED
  BY <1>1, <1>3 DEF HoldInv

LEMMA HoldInit == Init => HoldInv
<1> SUFFICES ASSUME Init PROVE HoldInv
  OBVIOUS
<1>1. \A p \in Thread : Depth(p) = 0 /\ Levels(p) = {} /\ Live(p) = {}
  BY DEF Init, Depth, Levels, Live, Index
<1>2. TypeOK
  <2>1. << >> \in Seq(Frame)
    OBVIOUS
  <2>2. stack \in [Thread -> Seq(Frame)]
    BY <2>1 DEF Init
  <2> QED
    BY <2>2, BoundAssumption DEF Init, TypeOK, Entry, Location
<1>3. \A p \in Thread : StackOK(p) /\ LocationOK(p) /\ DequeOK(p)
  BY <1>1 DEF Init, StackOK, LocationOK, DequeOK, Busy
<1>4. ASSUME NEW a \in Addr PROVE Held(a)
  <2>1. InNet(a) = {} /\ InCell(a) = {} /\ InFrame(a) = {} /\ a \notin doneFlight
    BY <1>1 DEF Init, InNet, InCell, InFrame, Levels
  <2>2. ~Given(a)
    BY DEF Init, Given, Addr, Index
  <2> QED
    BY <2>1, <2>2, Small DEF Held, Holders
<1> QED
  BY <1>2, <1>3, <1>4, HeldEach DEF HoldInv, ShapeInv

-----------------------------------------------------------------------------
(* The theorems *)

LEMMA HoldAlways == Spec => [](ProtocolInv /\ HoldInv)
<1>1. Init => ProtocolInv /\ StealsWhere /\ HoldInv
  BY ProtocolInit, HoldInit
<1>2. (ProtocolInv /\ StealsWhere /\ HoldInv) /\ [Next]_vars
        => (ProtocolInv /\ StealsWhere /\ HoldInv)'
  BY ProtocolNext, HoldNext
<1> QED
  BY <1>1, <1>2, PTL DEF Spec

\* Every variable keeps its type: no counter of a deque runs below zero or past
\* the deque, and every frame, entry and address is one.
THEOREM TypeCorrect == Spec => []TypeOK
<1>1. HoldInv => TypeOK
  BY DEF HoldInv, ShapeInv
<1> QED
  BY <1>1, HoldAlways, PTL

\* Frames, deque and location of a thread fit together: ws_sync and the return
\* from ws_steal move head and tail without a test, and rely on it.
THEOREM StackDisciplineHolds == Spec => []StackDiscipline
<1>1. ASSUME HoldInv, NEW p \in Thread PROVE Frames(p) /\ Counters(p)
  <2>1. StackOK(p) /\ LocationOK(p) /\ Depth(p) \in Nat
    BY <1>1, StackFacts DEF HoldInv, ShapeInv, TypeOK, StackType
  <2>2. \A k \in Levels(p) : k < Depth(p) => Above(stack[p][k], stack[p][k + 1])
    <3>1. \A k \in Levels(p) : k < Depth(p) => k + 1 \in Levels(p) /\ k < k + 1
      BY <2>1 DEF Levels
    <3> QED
      BY <2>1, <3>1 DEF StackOK
  <2>3. Frames(p)
    BY <2>1, <2>2 DEF Frames, StackOK, FrameOK, Above, Levels
  <2>4. stack[p] # << >> => stack[p][1].base = 0
    <3>1. stack[p] # << >> => 1 \in Levels(p)
      <4>1. stack[p] # << >> => Depth(p) # 0
        BY <1>1, StackFacts DEF HoldInv, ShapeInv, TypeOK, StackType
      <4> QED
        BY <2>1, <4>1 DEF Levels
    <3> QED
      BY <2>1, <3>1 DEF StackOK, FrameOK
  <2>5. pc[p] \in {"start", "bar1", "bar2", "end", "wb"} => ~Waiting(p)
    BY <2>1 DEF LocationOK, Waiting, StealBack
  <2> QED
    BY <2>1, <2>3, <2>4, <2>5 DEF Counters, LocationOK
<1>2. HoldInv => StackDiscipline
  BY <1>1 DEF StackDiscipline
<1> QED
  BY <1>2, HoldAlways, PTL

\* The stolen entries of a deque are exactly those below head: a join may drop
\* the last entry by moving tail, and head with it when the entry is stolen.
THEOREM StolenPrefixHolds == Spec => []StolenPrefix
<1>1. HoldInv => StolenPrefix
  BY DEF HoldInv, ShapeInv, StolenPrefix, LocationOK, DequeOK, EntryOK, Live
<1> QED
  BY <1>1, HoldAlways, PTL

\* No remote write goes astray: an entry given away and not done has exactly one
\* holder, and any other entry has none.
THEOREM HeldOnceHolds == Spec => []HeldOnce
<1>1. HoldInv => HeldOnce
  BY DEF HoldInv
<1> QED
  BY <1>1, HoldAlways, PTL


-----------------------------------------------------------------------------
(* Request slots: a thread that waits for an answer has blocked its own,   *)
(* and so has one at the last barrier.  First what both rest on.           *)

\* A thread that tries to steal has little work of its own, and so has one that
\* writes a task back.
LEMMA LittleWork ==
  ASSUME ShapeInv, NEW p \in Thread, pc[p] \in StealBack \cup {"wb"}
  PROVE  Few(p)
<1>1. /\ head[p] \in Nat /\ tail[p] \in Nat /\ head[p] <= tail[p] /\ Threshold \in Nat \ {0}
      /\ StackOK(p) /\ LocationOK(p)
  BY Counters0, BoundAssumption DEF ShapeInv, LocationOK
<1>2. tail[p] <= head[p]
  <2>1. CASE pc[p] \in {"leap", "sweep"}
    BY <1>1, <2>1 DEF LocationOK
  <2>2. CASE pc[p] = "part"
    <3>1. tail[p] = 0
      BY <1>1, <2>2 DEF StackOK, LocationOK, Busy
    <3> QED
      BY <1>1, <3>1
  <2>3. CASE pc[p] = "wb"
    <3>1. tail[p] = Top(p).base /\ Top(p).addr # NoAddr /\ stack[p] # << >>
      BY <1>1, <2>3 DEF StackOK, LocationOK, Busy
    <3>2. Depth(p) \in Levels(p) /\ FrameOK(p, Depth(p))
      BY <1>1, <3>1, StackFacts DEF StackOK, ShapeInv, TypeOK, StackType
    <3>3. Top(p).base = 0 \/ Top(p).base <= head[p]
      BY <3>1, <3>2 DEF FrameOK, Top, StealBack
    <3> QED
      BY <1>1, <3>1, <3>3
  <2> QED
    BY <2>1, <2>2, <2>3 DEF StealBack
<1>3. tail[p] < head[p] + Threshold
  BY <1>1, <1>2
<1> QED
  BY <1>3 DEF Few

\* A visit leaves the other slots alone, and adds the slot to those visited.
LEMMA SlotsVisited ==
  ASSUME ShapeInv, NEW p \in Thread, Visiting(p), NextSlot(p)
  PROVE  /\ poll[p] \in Slot
         /\ Visited(p)' = Visited(p) \cup {poll[p]}
<1>1. poll[p] \in Slot /\ poll[p] \in Nat /\ poll[p] # 0 /\ NSlots \in Nat
  BY BoundAssumption DEF ShapeInv, TypeOK, Visiting, Slot
<1>2. poll'[p] = IF poll[p] = NSlots THEN 0 ELSE poll[p] + 1
  BY DEF NextSlot, ShapeInv, TypeOK
<1>3. \A s \in Slot : s \in Nat /\ s <= NSlots /\ 1 <= s
  BY <1>1 DEF Slot
<1>4. CASE poll[p] = NSlots
  <2>1. \A s \in Slot : s = poll[p] \/ s < poll[p]
    BY <1>1, <1>3, <1>4
  <2> QED
    BY <1>1, <1>2, <1>4, <2>1 DEF Visited
<1>5. CASE poll[p] # NSlots
  <2>1. poll'[p] = poll[p] + 1 /\ poll'[p] # 0
    BY <1>1, <1>2, <1>5
  <2>2. \A s \in Slot : s < poll[p] + 1 <=> s < poll[p] \/ s = poll[p]
    BY <1>1, <1>3
  <2> QED
    BY <1>1, <2>1, <2>2 DEF Visited
<1> QED
  BY <1>1, <1>4, <1>5

\* The first slot is the next: none was visited.
LEMMA NoneVisited ==
  ASSUME ShapeInv, NEW p \in Thread, Communicate(p)
  PROVE  Visited(p)' = {} /\ poll'[p] = 1 /\ \A q \in Thread \ {p} : poll'[q] = poll[q]
<1>1. poll'[p] = 1 /\ \A q \in Thread \ {p} : poll'[q] = poll[q]
  BY DEF Communicate, ShapeInv, TypeOK
<1>2. \A s \in Slot : ~ (s < 1)
  BY BoundAssumption DEF Slot
<1> QED
  BY <1>1, <1>2 DEF Visited

\* What one call of ws_communicate does to the slots of its thread.
LEMMA SlotStep ==
  ASSUME ShapeInv, NEW p \in Thread, Poll(p)
  PROVE  /\ UNCHANGED <<pc, stack, tail, trying, epoch>>
         /\ \A q \in Thread \ {p} :
              request'[q] = request[q] /\ poll'[q] = poll[q] /\ head'[q] = head[q]
         /\ Visiting(p)
         /\ \/ UNCHANGED <<request, poll, head>>
            \/ /\ NextSlot(p)
               /\ \A s \in Slot : s # poll[p] => request'[p][s] = request[p][s]
               /\ \/ head'[p] = head[p] /\ request'[p][poll[p]] = Block
                  \/ ~Few(p) /\ head'[p] \in {head[p], head[p] + 1}
<1> USE DEF ShapeInv, TypeOK
<1>0. Visiting(p)
  BY DEF Poll, PollSkip, PollRefuse, PollSeeFree, PollCasWon, PollCasLost, PollUnblock,
         PollServe
<1>1. poll[p] \in Slot
  BY <1>0 DEF Visiting
<1>2. CASE PollSkip(p) \/ PollSeeFree(p)
  <2>1. UNCHANGED <<pc, stack, tail, trying, epoch, request, head>>
    BY <1>2 DEF PollSkip, PollSeeFree, dequeVars
  <2>2. \A q \in Thread \ {p} : poll'[q] = poll[q]
    BY <1>2 DEF PollSkip, PollSeeFree, NextSlot
  <2>3. UNCHANGED poll \/ (NextSlot(p) /\ (request[p][poll[p]] = Block \/ ~Few(p)))
    <3>1. CASE PollSkip(p)
      BY <3>1 DEF PollSkip, SlotOf
    <3>2. CASE PollSeeFree(p)
      <4>1. UNCHANGED poll
        BY <3>2 DEF PollSeeFree
      <4> QED
        BY <4>1
    <3> QED
      BY <1>2, <3>1, <3>2
  <2> QED
    BY <1>0, <2>1, <2>2, <2>3
<1>3. CASE PollRefuse(p) \/ PollCasWon(p) \/ PollCasLost(p)
  <2>1. /\ UNCHANGED <<pc, stack, tail, trying, epoch, head>>
        /\ SetSlot(p, Block) /\ NextSlot(p)
    BY <1>3 DEF PollRefuse, PollCasWon, PollCasLost, dequeVars
  <2>2. /\ request'[p][poll[p]] = Block
        /\ \A s \in Slot : s # poll[p] => request'[p][s] = request[p][s]
        /\ \A q \in Thread \ {p} : request'[q] = request[q] /\ poll'[q] = poll[q]
    BY <1>1, <2>1 DEF SetSlot, NextSlot
  <2> QED
    BY <1>0, <2>1, <2>2
<1>4. CASE PollUnblock(p) \/ PollServe(p)
  <2>1. /\ UNCHANGED <<pc, stack, tail, trying, epoch>>
        /\ SetSlot(p, Free) /\ NextSlot(p) /\ ~Few(p)
    BY <1>4 DEF PollUnblock, PollServe, dequeVars
  <2>2. /\ \A s \in Slot : s # poll[p] => request'[p][s] = request[p][s]
        /\ \A q \in Thread \ {p} : request'[q] = request[q] /\ poll'[q] = poll[q]
    BY <1>1, <2>1 DEF SetSlot, NextSlot
  <2>3. head'[p] \in {head[p], head[p] + 1} /\ \A q \in Thread \ {p} : head'[q] = head[q]
    BY <1>4 DEF PollUnblock, PollServe, dequeVars
  <2> QED
    BY <1>0, <2>1, <2>2, <2>3
<1> QED
  BY <1>2, <1>3, <1>4 DEF Poll

\* What a step that is no visit of a slot does: nobody's slots change but one,
\* that holds Free, and a thread that calls ws_communicate does it idle.
LEMMA OtherStep ==
  ASSUME ShapeInv, NEW p \in Thread, Steal(p) \/ Handler(p) \/ Compute(p)
  PROVE  /\ \A q \in Thread \ {p} : poll'[q] = poll[q] /\ trying'[q] = trying[q]
         /\ \/ UNCHANGED request
            \/ \E v \in Thread, s \in Slot :
                 request[v][s] = Free /\ request' = [request EXCEPT ![v][s] = p]
         /\ \/ UNCHANGED poll /\ trying'[p] \in {"no", trying[p]}
            \/ UNCHANGED poll /\ Casing(p) /\ trying'[p] = "wait"
            \/ Communicate(p) /\ trying'[p] \in {"no", "cas"}
<1> USE DEF ShapeInv, TypeOK
<1>1. CASE Steal(p)
  <2>1. CASE StealCasWon(p)
    <3>1. PICK v \in Thread, s \in Slot :
            request[v][s] = Free /\ request' = [request EXCEPT ![v][s] = p]
      BY <2>1 DEF StealCasWon, Victims
    <3> QED
      BY <2>1, <3>1 DEF StealCasWon, pollVars
  <2>2. CASE StealCasLost(p) \/ StealRefused(p) \/ StealRun(p)
    BY <2>2 DEF StealCasLost, StealRefused, StealRun, pollVars
  <2>3. CASE WriteBackPoll(p)
    BY <2>3 DEF WriteBackPoll, Communicate, Idle
  <2>4. CASE WriteBackDone(p)
    BY <2>4 DEF WriteBackDone, pollVars
  <2> QED
    BY <1>1, <2>1, <2>2, <2>3, <2>4 DEF Steal
<1>2. CASE Handler(p)
  <2>1. CASE Progress(p) \/ Call(p) \/ Sync(p)
    BY <2>1 DEF Progress, Call, Sync, Communicate, InHandler, Idle
  <2>2. CASE SyncSteal(p)
    BY <2>2 DEF SyncSteal, BeginSteal, Communicate
  <2>3. CASE Spawn(p) \/ SyncInline(p) \/ SyncStolen(p) \/ Join(p)
    BY <2>3 DEF Spawn, SyncInline, SyncStolen, Join, pollVars
  <2>4. CASE ReturnLocal(p) \/ ReturnStolen(p) \/ ReturnRoot(p)
    BY <2>4 DEF ReturnLocal, ReturnStolen, ReturnRoot, pollVars
  <2> QED
    BY <1>2, <2>1, <2>2, <2>3, <2>4 DEF Handler, SyncOrReturn
<1>3. CASE Compute(p)
  <2>1. CASE Reset(p) \/ LeavePool(p) \/ EndRound(p)
    BY <2>1 DEF Reset, LeavePool, EndRound, pollVars
  <2>2. CASE Initiate(p)
    <3>1. trying[p] = "no"
      BY <2>2 DEF Initiate, LocationOK, StealBack
    <3> QED
      BY <2>2, <3>1 DEF Initiate, Communicate
  <2>3. CASE Participate(p) \/ PoolSteal(p)
    BY <2>3 DEF Participate, PoolSteal, BeginSteal, Communicate
  <2> QED
    BY <1>3, <2>1, <2>2, <2>3 DEF Compute
<1> QED
  BY <1>1, <1>2, <1>3

-----------------------------------------------------------------------------
(* Waiting threads *)

Blocked(p) ==
  /\ Waiting(p) => poll[p] = 0
  /\ trying[p] # "no" => \A s \in Visited(p) : request[p][s] = Block

LEMMA BlockedNext ==
  ASSUME ShapeInv, BlockedInv, [Next]_vars
  PROVE  BlockedInv'
<1> USE DEF ShapeInv
<1>0. \A q \in Thread : Blocked(q)
  BY DEF BlockedInv, Blocked
<1>1. ASSUME NEW q \in Thread, poll'[q] = poll[q], trying'[q] \in {"no", trying[q]},
             \A s \in Slot : request[q][s] = Block => request'[q][s] = Block
      PROVE  Blocked(q)'
  BY <1>0, <1>1 DEF Blocked, Visited, Waiting
<1>2. CASE UNCHANGED vars \/ Network \/ Terminated
  <2>1. UNCHANGED <<poll, trying, request>>
    BY <1>2 DEF vars, Network, LandReply, LandPut, LandTerm, LandDone, Terminated, pollVars
  <2> QED
    BY <1>1, <2>1 DEF BlockedInv, Blocked
<1>3. ASSUME NEW p \in Thread, Poll(p) PROVE BlockedInv'
  <2>1. /\ UNCHANGED <<pc, trying>> /\ Visiting(p)
        /\ \A q \in Thread \ {p} : request'[q] = request[q] /\ poll'[q] = poll[q]
        /\ \/ UNCHANGED <<request, poll>>
           \/ /\ NextSlot(p)
              /\ \A s \in Slot : s # poll[p] => request'[p][s] = request[p][s]
              /\ request'[p][poll[p]] = Block \/ ~Few(p)
    BY <1>3, SlotStep
  <2>2. trying[p] # "no" => Few(p)
    BY LittleWork DEF LocationOK
  <2>3. ~Waiting(p)'
    BY <1>0, <2>1 DEF Blocked, Visiting, Waiting
  <2>4. ASSUME trying[p] # "no", NEW s \in Visited(p)' PROVE request'[p][s] = Block
    <3>1. CASE UNCHANGED <<request, poll>>
      BY <1>0, <2>4, <3>1 DEF Blocked, Visited
    <3>2. CASE NextSlot(p) /\ request'[p][poll[p]] = Block
      BY <1>0, <2>1, <2>4, <3>2, SlotsVisited DEF Blocked, Visited
    <3> QED
      BY <2>1, <2>2, <2>4, <3>1, <3>2
  <2>5. Blocked(p)'
    BY <2>1, <2>3, <2>4 DEF Blocked
  <2>6. \A q \in Thread \ {p} : Blocked(q)'
    BY <1>1, <2>1
  <2> QED
    BY <2>5, <2>6 DEF BlockedInv, Blocked
<1>4. ASSUME NEW p \in Thread, Steal(p) \/ Handler(p) \/ Compute(p) PROVE BlockedInv'
  <2>1. /\ \A q \in Thread \ {p} : poll'[q] = poll[q] /\ trying'[q] = trying[q]
        /\ \/ UNCHANGED request
           \/ \E v \in Thread, s \in Slot :
                request[v][s] = Free /\ request' = [request EXCEPT ![v][s] = p]
        /\ \/ UNCHANGED poll /\ trying'[p] \in {"no", trying[p]}
           \/ UNCHANGED poll /\ Casing(p) /\ trying'[p] = "wait"
           \/ Communicate(p) /\ trying'[p] \in {"no", "cas"}
    BY <1>4, OtherStep
  <2>2. \A q \in Thread, s \in Slot : request[q][s] = Block => request'[q][s] = Block
    <3> SUFFICES ASSUME NEW v \in Thread, NEW s \in Slot, request[v][s] = Free,
                        request' = [request EXCEPT ![v][s] = p]
                 PROVE  \A q \in Thread, r \in Slot : request[q][r] = Block => request'[q][r] = Block
      BY <2>1
    <3>1. \A q \in Thread, r \in Slot : ~ (q = v /\ r = s) => request'[q][r] = request[q][r]
      BY DEF TypeOK
    <3>2. request[v][s] # Block
      BY ThreadAssumption
    <3> QED
      BY <3>1, <3>2
  <2>3. \A q \in Thread \ {p} : Blocked(q)'
    BY <1>1, <2>1, <2>2
  <2>4. CASE UNCHANGED poll /\ trying'[p] \in {"no", trying[p]}
    BY <1>1, <2>2, <2>3, <2>4 DEF BlockedInv, Blocked
  <2>5. CASE UNCHANGED poll /\ Casing(p) /\ trying'[p] = "wait"
    BY <1>0, <2>2, <2>3, <2>5 DEF BlockedInv, Blocked, Visited, Casing
  <2>6. CASE Communicate(p) /\ trying'[p] \in {"no", "cas"}
    <3>1. Visited(p)' = {}
      BY <2>6, NoneVisited
    <3>2. Blocked(p)'
      BY <2>6, <3>1 DEF Blocked, Waiting
    <3> QED
      BY <2>3, <3>2 DEF BlockedInv, Blocked
  <2> QED
    BY <2>1, <2>4, <2>5, <2>6
<1> QED
  BY <1>2, <1>3, <1>4 DEF Next, Step

\* A thread that waits for an answer has blocked every request slot of its own,
\* whatever the other threads do between its visits of them: no two threads wait
\* for each other.
THEOREM WaitersBlockedHolds == Spec => []WaitersBlocked
<1>1. Init => BlockedInv
  BY DEF Init, BlockedInv, Waiting
<1>2. HoldInv /\ BlockedInv /\ [Next]_vars => BlockedInv'
  BY BlockedNext DEF HoldInv
<1>3. BlockedInv => WaitersBlocked
  BY DEF BlockedInv, WaitersBlocked, Waiting, Visited
<1> QED
  BY <1>1, <1>2, <1>3, HoldAlways, PTL DEF Spec

-----------------------------------------------------------------------------
(* The last barrier *)

\* A thread with work to share is in a handler or at a join, and every frame
\* that a spawn below it could have left short of work has enough.
LEMMA PlentyOpen ==
  ASSUME ShapeInv, NEW p \in Thread, Visiting(p), ~Few(p)
  PROVE  /\ pc[p] \in {"run", "sync"} /\ head[p] + Threshold <= tail[p]
         /\ \A k \in Levels(p) : stack[p][k].back # "run" =>
              stack[p][k].base \in Nat /\ stack[p][k].base + Threshold <= tail[p]
<1>1. /\ head[p] \in Nat /\ tail[p] \in Nat /\ Threshold \in Nat
      /\ StackOK(p) /\ LocationOK(p)
  BY Counters0, BoundAssumption DEF ShapeInv
<1>2. pc[p] \in {"run", "sync"}
  BY <1>1, LittleWork DEF LocationOK, Visiting, Busy, StealBack
<1>3. head[p] + Threshold <= tail[p]
  BY <1>1 DEF Few
<1>4. ASSUME NEW k \in Levels(p), stack[p][k].back # "run"
      PROVE  stack[p][k].base \in Nat /\ stack[p][k].base + Threshold <= tail[p]
  <2>1. stack[p][k] \in Frame
    BY StackFacts DEF ShapeInv, TypeOK, StackType
  <2>2. stack[p][k].base \in Nat
    BY <2>1 DEF Frame
  <2>3. stack[p][k].base = 0 \/ stack[p][k].base <= head[p]
    <3>1. FrameOK(p, k) /\ stack[p][k].back \in {"bar2", "part", "leap", "sweep"}
      BY <1>1, <1>4, <2>1 DEF StackOK, Frame
    <3> QED
      BY <3>1 DEF FrameOK
  <2> QED
    BY <1>1, <1>3, <2>2, <2>3
<1> QED
  BY <1>2, <1>3, <1>4

\* A thread whose open slot shows work keeps it until it calls ws_communicate.
LEMMA OpenStays ==
  ASSUME Threshold >= 2, ShapeInv, NEW p \in Thread, Steal(p) \/ Handler(p) \/ Compute(p),
         OpenOK(p), ~Communicate(p)
  PROVE  OpenOK(p)'
<1> USE DEF ShapeInv
<1>1. /\ head[p] \in Nat /\ tail[p] \in Nat /\ Threshold \in Nat
      /\ StackOK(p) /\ LocationOK(p) /\ DequeOK(p) /\ StackType
      /\ \A k \in Levels(p) : stack[p][k] \in Frame /\ stack[p][k].base \in Nat
  <2>1. \A k \in Levels(p) : stack[p][k] \in Frame
    BY StackFacts DEF TypeOK, StackType
  <2>2. \A k \in Levels(p) : stack[p][k].base \in Nat
    BY <2>1 DEF Frame
  <2>3. StackType
    BY DEF TypeOK, StackType
  <2> QED
    BY <2>1, <2>2, <2>3, Counters0, BoundAssumption
<1>2. pc[p] \in {"start", "bar1", "run", "sync"} /\ (pc[p] = "start" => epoch[p] = 0)
  BY DEF OpenOK, Restful, TypeOK, Location
\* The top frame of a handler that returns to ws_steal or ws_initiate has spawned
\* more than it has joined.
<1>3. pc[p] = "run" /\ tail[p] = Top(p).base => Top(p).back = "run"
  <2> SUFFICES ASSUME pc[p] = "run", tail[p] = Top(p).base PROVE Top(p).back = "run"
    OBVIOUS
  <2>1. Depth(p) \in Levels(p)
    BY <1>1, StackFacts DEF StackOK, Busy
  <2>2. ~ (Top(p).base + Threshold <= tail[p] + 1)
    BY <1>1, <2>1
  <2> QED
    BY <2>1, <2>2 DEF OpenOK, Top
<1>4. CASE Steal(p)
  <2>1. CASE StealCasWon(p) \/ StealCasLost(p) \/ StealRefused(p) \/ StealRun(p)
    <3>1. trying[p] # "no"
      BY <2>1 DEF StealCasWon, StealCasLost, StealRefused, StealRun, Casing, Waiting
    <3> QED
      BY <1>1, <1>2, <3>1 DEF LocationOK, StealBack
  <2>2. CASE WriteBackPoll(p) \/ WriteBackDone(p)
    BY <1>2, <2>2 DEF WriteBackPoll, WriteBackDone
  <2> QED
    BY <1>4, <2>1, <2>2 DEF Steal
<1>5. CASE Handler(p)
  <2>1. CASE Progress(p) \/ Call(p) \/ Sync(p) \/ SyncSteal(p)
    BY <2>1 DEF Progress, Call, Sync, SyncSteal, BeginSteal
  <2>2. CASE Spawn(p)
    <3>1. UNCHANGED <<pc, stack>> /\ pc[p] = "run" /\ tail'[p] = tail[p] + 1
      BY <2>2 DEF Spawn, InHandler, TypeOK
    <3>2. ASSUME NEW k \in Levels(p), stack[p][k].back # "run"
          PROVE  stack[p][k].base + Threshold <= tail[p] + 1 + 1
      <4>1. stack[p][k].base + Threshold <= tail[p] + 1
        BY <3>1, <3>2 DEF OpenOK
      <4> QED
        BY <1>1, <4>1
    <3> QED
      BY <3>1, <3>2 DEF OpenOK, Levels, Depth, Restful
  <2>3. CASE SyncInline(p)
    <3> DEFINE f == [task |-> Last(p).task, addr |-> NoAddr, back |-> "run",
                     base |-> tail[p] - 1]
    <3>1. Push(p, f) /\ pc[p] = "sync" /\ pc'[p] = "run" /\ tail'[p] = tail[p] - 1
      BY <2>3 DEF SyncInline, Goto, TypeOK
    <3>2. Levels(p)' \subseteq Levels(p) \cup {Depth(p) + 1}
          /\ (\A k \in Levels(p) : stack'[p][k] = stack[p][k])
          /\ stack'[p][Depth(p) + 1].back = "run"
      <4>1. f \in Frame /\ f.back = "run"
        <5>1. Top(p).base < tail[p] /\ stack[p] # << >>
          BY <1>1, <3>1 DEF LocationOK, StackOK, Busy
        <5>2. Top(p).base \in Nat
          BY <1>1, <5>1, StackFacts DEF Top
        <5>3. tail[p] - 1 \in Live(p) /\ tail[p] - 1 \in 0 .. DequeSize
          BY <1>1, <5>1, <5>2, BoundAssumption DEF Live, Index, TypeOK
        <5>4. Last(p).task \in Task
          BY <1>1, <5>3 DEF DequeOK, EntryOK, Last
        <5> QED
          BY <5>3, <5>4 DEF Frame
      <4>2. /\ Depth(p)' = Depth(p) + 1 /\ stack'[p][Depth(p) + 1] = f
            /\ \A k \in Levels(p) : stack'[p][k] = stack[p][k]
        <5> HIDE DEF f
        <5> QED
          BY <1>1, <3>1, <4>1, Pushed
      <4>3. Depth(p) \in Nat
        BY <1>1, StackFacts
      <4> QED
        BY <4>1, <4>2, <4>3 DEF Levels
    <3>3. ASSUME NEW k \in Levels(p)', stack'[p][k].back # "run"
          PROVE  stack'[p][k].base + Threshold <= tail'[p] + 1
      <4>1. k \in Levels(p) /\ stack'[p][k] = stack[p][k]
        BY <3>2, <3>3
      <4>2. stack[p][k].base + Threshold <= tail[p]
        BY <3>1, <3>3, <4>1 DEF OpenOK
      <4>3. tail'[p] + 1 = tail[p]
        BY <1>1, <3>1
      <4> QED
        BY <4>1, <4>2, <4>3
    <3> QED
      BY <3>1, <3>3 DEF OpenOK, Restful
  <2>4. CASE SyncStolen(p)
    <3>1. pc[p] = "sync" /\ Last(p).thief # Nobody
      BY <2>4 DEF SyncStolen
    <3>2. head[p] + Threshold <= tail[p] + 1
      BY <3>1 DEF OpenOK
    <3>3. tail[p] - 1 \in Live(p) /\ ~ (tail[p] - 1 < head[p])
      BY <1>1, <3>2, BoundAssumption DEF Live, Index, TypeOK
    <3> QED
      BY <1>1, <3>1, <3>3 DEF DequeOK, EntryOK, Last
  <2>5. CASE Join(p)
    BY <1>2, <2>5 DEF Join
  <2>6. CASE ReturnLocal(p)
    <3>1. Pop(p) /\ UNCHANGED <<pc, tail>> /\ pc[p] = "run" /\ stack[p] # << >>
      BY <1>1, <2>6 DEF ReturnLocal, InHandler, dequeVars, StackOK, Busy
    <3>2. \A k \in Levels(p)' : k \in Levels(p) /\ stack'[p][k] = stack[p][k]
      <4>1. /\ Depth(p)' = Depth(p) - 1 /\ Depth(p) \in Nat
            /\ \A k \in 1 .. Depth(p) - 1 : stack'[p][k] = stack[p][k]
        BY <1>1, <3>1, Popped, StackFacts
      <4> QED
        BY <4>1 DEF Levels
    <3> QED
      BY <3>1, <3>2 DEF OpenOK, Restful
  <2>7. CASE ReturnStolen(p) \/ ReturnRoot(p)
    <3>1. pc[p] = "run" /\ tail[p] = Top(p).base /\ (Top(p).back = "bar2" \/ Top(p).addr # NoAddr)
      BY <2>7 DEF ReturnStolen, ReturnRoot, InHandler
    <3>2. Depth(p) \in Levels(p)
      BY <1>1, <3>1, StackFacts DEF StackOK, Busy
    <3> QED
      BY <1>1, <1>3, <3>1, <3>2 DEF StackOK, FrameOK, Top, StealBack
  <2> QED
    BY <1>5, <2>1, <2>2, <2>3, <2>4, <2>5, <2>6, <2>7 DEF Handler, SyncOrReturn
<1>6. CASE Compute(p)
  <2>1. CASE Reset(p)
    BY <2>1 DEF Reset, Goto, TypeOK, OpenOK, Restful, Levels, Depth, dequeVars
  <2>2. CASE Initiate(p) \/ Participate(p) \/ PoolSteal(p)
    BY <2>2 DEF Initiate, Participate, PoolSteal, BeginSteal
  <2>3. CASE LeavePool(p) \/ EndRound(p)
    BY <1>2, <2>3 DEF LeavePool, EndRound
  <2> QED
    BY <1>6, <2>1, <2>2, <2>3 DEF Compute
<1> QED
  BY <1>4, <1>5, <1>6

Quiet(p) == \A s \in Visited(p) : request[p][s] # Block => OpenOK(p)

LEMMA QuietNext ==
  ASSUME Threshold >= 2, ShapeInv, QuietInv, [Next]_vars
  PROVE  QuietInv'
<1> USE DEF ShapeInv
<1>0. \A q \in Thread : Quiet(q)
  BY DEF QuietInv, Quiet
\* A thread whose slots stay blocked, or open, and whose own state stays open.
<1>1. ASSUME NEW q \in Thread, poll'[q] = poll[q],
             \A s \in Slot : request[q][s] = Block => request'[q][s] = Block,
             OpenOK(q) => OpenOK(q)'
      PROVE  Quiet(q)'
  BY <1>0, <1>1 DEF Quiet, Visited
<1>2. ASSUME NEW q \in Thread, stack'[q] = stack[q], pc'[q] = pc[q], head'[q] = head[q],
             tail'[q] = tail[q], epoch'[q] = epoch[q]
      PROVE  OpenOK(q) => OpenOK(q)'
  BY <1>2 DEF OpenOK, Levels, Depth
<1>3. CASE UNCHANGED vars \/ Network \/ Terminated
  <2>1. UNCHANGED <<poll, request, stack, pc, head, tail, epoch>>
    BY <1>3 DEF vars, Network, LandReply, LandPut, LandTerm, LandDone, Terminated, pollVars,
                dequeVars
  <2> QED
    BY <1>1, <1>2, <2>1 DEF QuietInv, Quiet
<1>4. ASSUME NEW p \in Thread, Poll(p) PROVE QuietInv'
  <2>1. /\ UNCHANGED <<pc, stack, tail, epoch>> /\ Visiting(p)
        /\ \A q \in Thread \ {p} :
             request'[q] = request[q] /\ poll'[q] = poll[q] /\ head'[q] = head[q]
        /\ \/ UNCHANGED <<request, poll, head>>
           \/ /\ NextSlot(p)
              /\ \A s \in Slot : s # poll[p] => request'[p][s] = request[p][s]
              /\ \/ head'[p] = head[p] /\ request'[p][poll[p]] = Block
                 \/ ~Few(p) /\ head'[p] \in {head[p], head[p] + 1}
    BY <1>4, SlotStep
  <2>2. \A q \in Thread \ {p} : Quiet(q)'
    BY <1>1, <1>2, <2>1
  <2>3. CASE UNCHANGED <<request, poll, head>>
    BY <1>1, <1>2, <2>1, <2>3 DEF QuietInv, Quiet
  <2>4. CASE NextSlot(p) /\ head'[p] = head[p] /\ request'[p][poll[p]] = Block
             /\ \A s \in Slot : s # poll[p] => request'[p][s] = request[p][s]
    <3>1. OpenOK(p) => OpenOK(p)'
      BY <1>2, <2>1, <2>4
    <3>2. ASSUME NEW s \in Visited(p)', request'[p][s] # Block PROVE OpenOK(p)'
      <4>1. s \in Visited(p) /\ request'[p][s] = request[p][s]
        BY <2>1, <2>4, <3>2, SlotsVisited DEF Visited
      <4> QED
        BY <1>0, <3>1, <3>2, <4>1 DEF Quiet
    <3> QED
      BY <2>2, <3>2 DEF QuietInv, Quiet
  <2>5. CASE ~Few(p) /\ head'[p] \in {head[p], head[p] + 1}
    <3>1. /\ pc[p] \in {"run", "sync"} /\ head[p] + Threshold <= tail[p]
          /\ \A k \in Levels(p) : stack[p][k].back # "run" =>
               stack[p][k].base \in Nat /\ stack[p][k].base + Threshold <= tail[p]
      BY <2>1, <2>5, PlentyOpen
    <3>2. head[p] \in Nat /\ tail[p] \in Nat /\ Threshold \in Nat
      BY Counters0, BoundAssumption
    <3>3. head'[p] + Threshold <= tail[p] + 1
      BY <2>5, <3>1, <3>2
    <3>4. \A k \in Levels(p) : stack[p][k].back # "run" =>
            /\ stack[p][k].base + Threshold <= tail[p]
            /\ stack[p][k].base + Threshold <= tail[p] + 1
      BY <3>1, <3>2
    <3>5. OpenOK(p)'
      BY <2>1, <3>1, <3>3, <3>4 DEF OpenOK, Restful, Levels, Depth
    <3> QED
      BY <2>2, <3>5 DEF QuietInv, Quiet
  <2> QED
    BY <2>1, <2>3, <2>4, <2>5
<1>5. ASSUME NEW p \in Thread, Steal(p) \/ Handler(p) \/ Compute(p) PROVE QuietInv'
  <2>1. /\ \A q \in Thread \ {p} : poll'[q] = poll[q] /\ trying'[q] = trying[q]
        /\ \/ UNCHANGED request
           \/ \E v \in Thread, s \in Slot :
                request[v][s] = Free /\ request' = [request EXCEPT ![v][s] = p]
        /\ UNCHANGED poll \/ Communicate(p)
    BY <1>5, OtherStep
  <2>2. \A q \in Thread, s \in Slot : request[q][s] = Block => request'[q][s] = Block
    <3> SUFFICES ASSUME NEW v \in Thread, NEW s \in Slot, request[v][s] = Free,
                        request' = [request EXCEPT ![v][s] = p]
                 PROVE  \A q \in Thread, r \in Slot : request[q][r] = Block => request'[q][r] = Block
      BY <2>1
    <3>1. \A q \in Thread, r \in Slot : ~ (q = v /\ r = s) => request'[q][r] = request[q][r]
      BY DEF TypeOK
    <3>2. request[v][s] # Block
      BY ThreadAssumption
    <3> QED
      BY <3>1, <3>2
  <2>3. ASSUME NEW q \in Thread \ {p} PROVE Quiet(q)'
    <3>1. Same(q)
      BY <1>5, StealOthers, HandlerOthers, ComputeOthers
    <3>2. epoch'[q] = epoch[q]
      <4>1. CASE Steal(p)
        BY <4>1 DEF Steal, StealCasWon, StealCasLost, StealRefused, StealRun, WriteBackPoll,
                    WriteBackDone
      <4>2. CASE Handler(p)
        <5>1. CASE ReturnRoot(p)
          BY <5>1 DEF ReturnRoot, TypeOK
        <5>2. CASE ~ReturnRoot(p)
          BY <4>2, <5>2 DEF Handler, SyncOrReturn, Progress, Spawn, Call, Sync, SyncInline,
               SyncStolen, SyncSteal, Join, ReturnLocal, ReturnStolen
        <5> QED
          BY <5>1, <5>2
      <4>3. CASE Compute(p)
        BY <4>3 DEF Compute, Reset, Initiate, Participate, PoolSteal, LeavePool, EndRound, TypeOK
      <4> QED
        BY <1>5, <4>1, <4>2, <4>3
    <3> QED
      BY <1>1, <1>2, <2>1, <2>2, <3>1, <3>2 DEF Same
  <2>4. CASE Communicate(p)
    <3>1. Quiet(p)'
      BY <2>4, NoneVisited DEF Quiet
    <3> QED
      BY <2>3, <3>1 DEF QuietInv, Quiet
  <2>5. CASE UNCHANGED poll /\ ~Communicate(p)
    <3>1. OpenOK(p) => OpenOK(p)'
      BY <1>5, <2>5, OpenStays
    <3> QED
      BY <1>1, <2>2, <2>3, <2>5, <3>1 DEF QuietInv, Quiet
  <2> QED
    BY <2>1, <2>4, <2>5
<1> QED
  BY <1>3, <1>4, <1>5 DEF Next, Step

\* A thread arrives at the last barrier of a round with no request left in its
\* slots, provided that a thread shares work only when it has two tasks or more
\* (WS_TRANS_THRESHOLD is 2): the slot that a poll leaves open shows a task
\* which the thread has yet to join, and every way to the barrier polls again.
THEOREM QuietBarrierHolds ==
  ASSUME Threshold >= 2
  PROVE  Spec => []QuietBarrier
<1>1. Init => QuietInv
  <2> SUFFICES ASSUME Init, NEW p \in Thread PROVE OpenOK(p)
    BY DEF QuietInv
  <2>1. Levels(p) = {} /\ pc[p] = "start" /\ epoch[p] = 0
    BY DEF Init, Levels, Depth
  <2> QED
    BY <2>1 DEF OpenOK, Restful
<1>2. HoldInv /\ QuietInv /\ [Next]_vars => QuietInv'
  BY QuietNext DEF HoldInv
<1>3. HoldInv /\ QuietInv => QuietBarrier
  <2> SUFFICES ASSUME HoldInv, QuietInv, NEW p \in Thread, NEW s \in Slot,
                      pc[p] \in {"bar2", "end"} \/ (pc[p] = "start" /\ epoch[p] > 0)
               PROVE  request[p][s] = Block
    BY DEF QuietBarrier
  <2>1. poll[p] = 0
    BY DEF HoldInv, ShapeInv, LocationOK, Busy
  <2>2. ~OpenOK(p)
    BY DEF OpenOK, Restful
  <2> QED
    BY <2>1, <2>2 DEF QuietInv, Visited
<1> QED
  BY <1>1, <1>2, <1>3, HoldAlways, PTL DEF Spec
=============================================================================
