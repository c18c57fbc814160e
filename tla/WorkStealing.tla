---------------------------- MODULE WorkStealing ----------------------------
(***************************************************************************)
(* The work-stealing scheduler of wstealer/wstealer.c.                     *)
(*                                                                         *)
(* Every UPC thread owns a private deque of tasks and WS_... request slots *)
(* that other threads may claim with a compare-and-swap.  A thief waits on *)
(* a semaphore until the victim, at its own pace inside ws_communicate,    *)
(* answers by an asynchronous put of a task (or of the "empty" mark) in    *)
(* the thief's transfer cell.  The thief runs the task, writes it back to  *)
(* the victim's deque and sets the DONE flag.  The victim joins the task   *)
(* in ws_sync, stealing other work while it waits.                         *)
(*                                                                         *)
(* The task handler is any fork-join program: it spawns, calls, syncs and  *)
(* polls in an order chosen freely, and joins what it spawned before it    *)
(* returns, as every handler of bdd.c does.  A task's identity stands for  *)
(* its input, and again for its output.                                    *)
(***************************************************************************)
EXTENDS Naturals, Sequences, FiniteSets

CONSTANTS
  Thread,      \* the UPC threads
  Master,      \* MYTHREAD == 0, the thread that runs ws_initiate
  Free,        \* request slot 0: no request, not blocked
  Block,       \* request slot with WS_REQ_BLOCK
  Refused,     \* transfer cell with WS_TASK_EMPTY
  Nobody,      \* "no thread": a deque entry without WS_TASK_STOLEN
  NoAddr,      \* a frame whose task was not stolen
  NSlots,      \* request slots per thread (2 in the code)
  Threshold,   \* WS_TRANS_THRESHOLD
  DequeSize,   \* WS_DEQUE_SIZE; ws_spawn trusts it is never exceeded
  MaxTasks,    \* bound: tasks created over all rounds
  Rounds       \* bound: calls of ws_compute (main.c makes two)

ASSUME ThreadAssumption ==
  /\ IsFiniteSet(Thread) /\ Master \in Thread
  /\ Free \notin Thread /\ Block \notin Thread /\ Nobody \notin Thread
  /\ Free # Block

ASSUME BoundAssumption ==
  /\ NSlots \in Nat \ {0}
  /\ Threshold \in Nat \ {0}
  /\ DequeSize \in Nat \ {0}
  /\ MaxTasks \in Nat
  /\ Rounds \in Nat \ {0}
  /\ Rounds <= MaxTasks

Task == 1 .. MaxTasks
NoTask == 0
Slot == 1 .. NSlots
Index == 0 .. DequeSize - 1
Addr == Thread \X Index          \* WS_DEQUE_OFFSET + index

ASSUME AddrAssumption ==
  /\ Refused \notin Addr /\ NoAddr \notin Addr
  /\ Refused \notin [addr : Addr, task : Task]

\* A deque entry: WS_TASK_ID when WS_TASK_STOLEN is set, WS_TASK_DONE, the
\* input and the output of the task.
Entry == [task : Task \cup {NoTask}, thief : Thread \cup {Nobody},
          done : BOOLEAN, out : Task \cup {NoTask}]

\* An activation of the handler on a thread's C stack: its task, the deque
\* entry it was stolen from, where its caller resumes, and the deque's tail
\* when it started.
Frame == [task : Task, addr : Addr \cup {NoAddr},
          back : {"bar2", "run", "part", "leap", "sweep"}, base : 0 .. DequeSize]

VARIABLES
  deque, head, tail,        \* per thread: entries and the two counters
  request, cell, sem,       \* per thread: request slots, transfer cell, semaphore
  term,                     \* per thread: termination flag
  \* operations of the network in flight
  net,                      \* answers to thieves (bupc_memput_signal_async)
  put,                      \* per thread: its upc_memput_nb of a finished task
  doneFlight,               \* upc_memset_nbi of a DONE flag
  termFlight,               \* upc_memset_nbi of termination flags, counted
  \* local control of each thread
  pc, stack,
  poll, seen,               \* ws_communicate: next slot (0 outside), LOCAL_CAS pending
  trying,                   \* ws_steal: outside, before CAS32, in bupc_sem_wait
  epoch,                    \* barriers this thread has arrived at
  \* history of the tasks
  nextTask, status, parent

dequeVars == <<deque, head, tail>>
netVars   == <<net, put, doneFlight, termFlight>>
pollVars  == <<poll, seen>>
histVars  == <<nextTask, status, parent>>
vars == <<deque, head, tail, request, cell, sem, term, net, put, doneFlight,
          termFlight, pc, stack, poll, seen, trying, epoch,
          nextTask, status, parent>>

Location == {"start", "bar1", "run", "sync", "leap", "sweep", "part", "wb",
             "bar2", "end"}

TypeOK ==
  /\ deque \in [Thread -> [Index -> Entry]]
  /\ head \in [Thread -> 0 .. DequeSize]
  /\ tail \in [Thread -> 0 .. DequeSize]
  /\ request \in [Thread -> [Slot -> Thread \cup {Free, Block}]]
  /\ cell \in [Thread -> [addr : Addr, task : Task] \cup {Refused}]
  /\ sem \in [Thread -> Nat]
  /\ term \in [Thread -> BOOLEAN]
  /\ net \subseteq [to : Thread, src : Addr \cup {Refused}]
  /\ put \in [Thread -> BOOLEAN]
  /\ doneFlight \subseteq Addr
  /\ termFlight \in [Thread -> Nat]
  /\ pc \in [Thread -> Location]
  /\ stack \in [Thread -> Seq(Frame)]
  /\ poll \in [Thread -> Slot \cup {0}]
  /\ seen \in [Thread -> BOOLEAN]
  /\ trying \in [Thread -> {"no", "cas", "wait"}]
  /\ epoch \in [Thread -> Nat]
  /\ nextTask \in Nat \ {0}
  /\ status \in [Task -> {"none", "ready", "running", "finished", "joined"}]
  /\ parent \in [Task -> Task \cup {NoTask}]

-----------------------------------------------------------------------------
(* Initial state: after ws_init on every thread. *)

Init ==
  /\ deque = [p \in Thread |-> [i \in Index |->
                [task |-> NoTask, thief |-> Nobody, done |-> FALSE, out |-> NoTask]]]
  /\ head = [p \in Thread |-> 0]
  /\ tail = [p \in Thread |-> 0]
  /\ request = [p \in Thread |-> [s \in Slot |-> Free]]
  /\ cell = [p \in Thread |-> Refused]
  /\ sem = [p \in Thread |-> 0]
  /\ term = [p \in Thread |-> FALSE]
  /\ net = {}
  /\ put = [p \in Thread |-> FALSE]
  /\ doneFlight = {}
  /\ termFlight = [p \in Thread |-> 0]
  /\ pc = [p \in Thread |-> "start"]
  /\ stack = [p \in Thread |-> << >>]
  /\ poll = [p \in Thread |-> 0]
  /\ seen = [p \in Thread |-> FALSE]
  /\ trying = [p \in Thread |-> "no"]
  /\ epoch = [p \in Thread |-> 0]
  /\ nextTask = 1
  /\ status = [t \in Task |-> "none"]
  /\ parent = [t \in Task |-> NoTask]

-----------------------------------------------------------------------------
(* Vocabulary *)

\* tail - head < WS_TRANS_THRESHOLD: too little work to share any.
Few(p) == tail[p] < head[p] + Threshold

\* The thread is between two calls of ws_communicate and of ws_steal.
Idle(p) == poll[p] = 0 /\ trying[p] = "no"

Depth(p) == Len(stack[p])
Top(p) == stack[p][Depth(p)]

\* The entry ws_sync looks at, prev_p, and the one at a global index.
Last(p) == deque[p][tail[p] - 1]
At(a) == deque[a[1]][a[2]]

\* An entry with the bits set that mark it given away, and completed.
Stolen(e, t) == [task |-> e.task, thief |-> t, done |-> e.done, out |-> e.out]
Completed(e) == [task |-> e.task, thief |-> e.thief, done |-> TRUE, out |-> e.out]

Push(p, f) == stack' = [stack EXCEPT ![p] = Append(@, f)]
Pop(p) == stack' = [stack EXCEPT ![p] = SubSeq(@, 1, Len(@) - 1)]
Goto(p, l) == pc' = [pc EXCEPT ![p] = l]
Communicate(p) == poll' = [poll EXCEPT ![p] = 1]

Reply(t, src) == net' = net \cup {[to |-> t, src |-> src]}

\* The tasks that round r = 1, 2, ... of ws_compute may still create, one
\* root for each later round being kept back.
Round(p) == (epoch[p] + 1) \div 2
MayCreate(p) == nextTask <= MaxTasks /\ nextTask + Rounds - Round(p) <= MaxTasks

Running(p) == Top(p).task

-----------------------------------------------------------------------------
(* ws_communicate: one action per slot visited, two where it first reads   *)
(* the slot and then compares and swaps it.                                *)

Visiting(p) == poll[p] # 0
SlotOf(p) == request[p][poll[p]]
\* Faulty variant: the loop over the slots runs one too far.
NextSlot_OneTooFar(p) == poll' = [poll EXCEPT ![p] = IF @ > NSlots THEN 0 ELSE @ + 1]
NextSlot(p) == poll' = [poll EXCEPT ![p] = IF @ = NSlots THEN 0 ELSE @ + 1]
SetSlot(p, v) == request' = [request EXCEPT ![p][poll[p]] = v]

PollSkip(p) ==
  /\ Visiting(p) /\ ~seen[p]
  /\ SlotOf(p) = IF Few(p) THEN Block ELSE Free
  /\ NextSlot(p)
  /\ UNCHANGED <<dequeVars, request, cell, sem, term, netVars, pc, stack,
                 seen, trying, epoch, histVars>>

\* Little work and a request in the slot: ws_refuse, then block.
PollRefuse(p) ==
  /\ Visiting(p) /\ ~seen[p]
  /\ Few(p)
  /\ SlotOf(p) \in Thread
  /\ Reply(SlotOf(p), Refused)
  /\ SetSlot(p, Block)
  /\ NextSlot(p)
  /\ UNCHANGED <<dequeVars, cell, sem, term, put, doneFlight, termFlight, pc,
                 stack, seen, trying, epoch, histVars>>

\* Little work and the slot was read as 0: LOCAL_CAS comes next.
PollSeeFree(p) ==
  /\ Visiting(p) /\ ~seen[p]
  /\ Few(p)
  /\ SlotOf(p) = Free
  /\ seen' = [seen EXCEPT ![p] = TRUE]
  /\ UNCHANGED <<dequeVars, request, cell, sem, term, netVars, pc, stack,
                 poll, trying, epoch, histVars>>

PollCasWon(p) ==
  /\ Visiting(p) /\ seen[p]
  /\ SlotOf(p) = Free
  /\ SetSlot(p, Block)
  /\ NextSlot(p)
  /\ seen' = [seen EXCEPT ![p] = FALSE]
  /\ UNCHANGED <<dequeVars, cell, sem, term, netVars, pc, stack, trying,
                 epoch, histVars>>

\* Faulty variant: a plain store instead of LOCAL_CAS forgets the request.
PollCasLost_Forget(p) ==
  /\ Visiting(p) /\ seen[p]
  /\ SlotOf(p) \in Thread
  /\ SetSlot(p, Block)
  /\ NextSlot(p)
  /\ seen' = [seen EXCEPT ![p] = FALSE]
  /\ UNCHANGED <<dequeVars, cell, sem, term, netVars, pc, stack, trying, epoch,
                 histVars>>

\* A request slipped in between the read and LOCAL_CAS: refuse it.
PollCasLost(p) ==
  /\ Visiting(p) /\ seen[p]
  /\ SlotOf(p) \in Thread
  /\ Reply(SlotOf(p), Refused)
  /\ SetSlot(p, Block)
  /\ NextSlot(p)
  /\ seen' = [seen EXCEPT ![p] = FALSE]
  /\ UNCHANGED <<dequeVars, cell, sem, term, put, doneFlight, termFlight, pc,
                 stack, trying, epoch, histVars>>

PollUnblock(p) ==
  /\ Visiting(p) /\ ~seen[p]
  /\ ~Few(p)
  /\ SlotOf(p) = Block
  /\ SetSlot(p, Free)
  /\ NextSlot(p)
  /\ UNCHANGED <<dequeVars, cell, sem, term, netVars, pc, stack, seen, trying,
                 epoch, histVars>>

\* Faulty variant: head does not move past the task that was given away.
PollServe_HeadStays(p) ==
  /\ Visiting(p) /\ ~seen[p]
  /\ ~Few(p)
  /\ SlotOf(p) \in Thread
  /\ deque' = [deque EXCEPT ![p][head[p]] = Stolen(@, SlotOf(p))]
  /\ Reply(SlotOf(p), <<p, head[p]>>)
  /\ SetSlot(p, Free)
  /\ NextSlot(p)
  /\ UNCHANGED <<head, tail, cell, sem, term, put, doneFlight, termFlight, pc,
                 stack, seen, trying, epoch, histVars>>

\* Enough work and a request: the task at the head goes to the thief.  Every
\* request of the code asks for one task.
PollServe(p) ==
  /\ Visiting(p) /\ ~seen[p]
  /\ ~Few(p)
  /\ SlotOf(p) \in Thread
  /\ deque' = [deque EXCEPT ![p][head[p]] = Stolen(@, SlotOf(p))]
  /\ head' = [head EXCEPT ![p] = @ + 1]
  /\ Reply(SlotOf(p), <<p, head[p]>>)
  /\ SetSlot(p, Free)
  /\ NextSlot(p)
  /\ UNCHANGED <<tail, cell, sem, term, put, doneFlight, termFlight, pc, stack,
                 seen, trying, epoch, histVars>>

Poll(p) ==
  \/ PollSkip(p) \/ PollRefuse(p) \/ PollSeeFree(p)
  \/ PollCasWon(p) \/ PollCasLost(p) \/ PollUnblock(p) \/ PollServe(p)

-----------------------------------------------------------------------------
(* ws_steal *)

\* Faulty variant: no ws_communicate before the request is posted.
BeginSteal_NoPoll(p) ==
  /\ UNCHANGED poll
  /\ trying' = [trying EXCEPT ![p] = "cas"]

\* ws_steal begins with a call of ws_communicate.
BeginSteal(p) ==
  /\ Communicate(p)
  /\ trying' = [trying EXCEPT ![p] = "cas"]

\* Where the caller continues when ws_steal returns to location l.  In ws_sync
\* `ws_steal_hinted(...) & WS_STEAL_SUCC' is 0 for either result, so the sweep
\* over all victims always follows the leapfrog; a failed attempt of the sweep
\* may have been its last.
AfterSuccess(l) == CASE l = "part" -> "part" [] l = "leap" -> "sweep" [] l = "sweep" -> "leap"
AfterFailure(l) == CASE l = "part" -> {"part"} [] l = "leap" -> {"sweep"}
                     [] l = "sweep" -> {"sweep", "leap"}

\* Leapfrogging goes to the thief of the task being joined (the ID the code
\* keeps in a local variable); every other attempt goes to a random thread,
\* the caller itself included.
Victims(p) == {v \in Thread : pc[p] = "leap" => v = Last(p).thief}

Casing(p) == poll[p] = 0 /\ trying[p] = "cas"

\* CAS32 wrote the request: wait for the answer.
StealCasWon(p) ==
  /\ Casing(p)
  /\ \E v \in Victims(p), s \in Slot :
       /\ request[v][s] = Free
       /\ request' = [request EXCEPT ![v][s] = p]
  /\ trying' = [trying EXCEPT ![p] = "wait"]
  /\ UNCHANGED <<dequeVars, cell, sem, term, netVars, pc, stack, pollVars,
                 epoch, histVars>>

\* CAS32 found the slot blocked or taken.
StealCasLost(p) ==
  /\ Casing(p)
  /\ \E v \in Victims(p), s \in Slot : request[v][s] # Free
  /\ trying' = [trying EXCEPT ![p] = "no"]
  /\ \E l \in AfterFailure(pc[p]) : Goto(p, l)
  /\ UNCHANGED <<dequeVars, request, cell, sem, term, netVars, stack, pollVars,
                 epoch, histVars>>

Waiting(p) == trying[p] = "wait"

\* bupc_sem_wait returned and the cell holds the empty mark.
StealRefused(p) ==
  /\ Waiting(p)
  /\ sem[p] > 0
  /\ cell[p] = Refused
  /\ sem' = [sem EXCEPT ![p] = @ - 1]
  /\ trying' = [trying EXCEPT ![p] = "no"]
  /\ \E l \in AfterFailure(pc[p]) : Goto(p, l)
  /\ UNCHANGED <<dequeVars, request, cell, term, netVars, stack, pollVars,
                 epoch, histVars>>

\* Faulty variant: a thief has nothing of its own to do, so its deque starts afresh.
StealRun_FreshDeque(p) ==
  /\ Waiting(p)
  /\ sem[p] > 0
  /\ cell[p] # Refused
  /\ sem' = [sem EXCEPT ![p] = @ - 1]
  /\ trying' = [trying EXCEPT ![p] = "no"]
  /\ head' = [head EXCEPT ![p] = 0]
  /\ tail' = [tail EXCEPT ![p] = 0]
  /\ Push(p, [task |-> cell[p].task, addr |-> cell[p].addr,
              back |-> AfterSuccess(pc[p]), base |-> 0])
  /\ Goto(p, "run")
  /\ status' = [status EXCEPT ![cell[p].task] = "running"]
  /\ UNCHANGED <<deque, request, cell, term, netVars, pollVars, epoch, nextTask,
                 parent>>

\* bupc_sem_wait returned with a task: copy it and call the handler on it.
StealRun(p) ==
  /\ Waiting(p)
  /\ sem[p] > 0
  /\ cell[p] # Refused
  /\ sem' = [sem EXCEPT ![p] = @ - 1]
  /\ trying' = [trying EXCEPT ![p] = "no"]
  /\ Push(p, [task |-> cell[p].task, addr |-> cell[p].addr,
              back |-> AfterSuccess(pc[p]), base |-> tail[p]])
  /\ Goto(p, "run")
  /\ status' = [status EXCEPT ![cell[p].task] = "running"]
  /\ UNCHANGED <<dequeVars, request, cell, term, netVars, pollVars, epoch,
                 nextTask, parent>>

\* while (!upc_sync_attempt(h)) { ws_communicate(); }
WriteBackPoll(p) ==
  /\ pc[p] = "wb" /\ Idle(p)
  /\ put[p]
  /\ Communicate(p)
  /\ UNCHANGED <<dequeVars, request, cell, sem, term, netVars, pc, stack, seen,
                 trying, epoch, histVars>>

\* Faulty variant: DONE is sent without waiting for the write-back.
WriteBackDone_Early(p) ==
  /\ pc[p] = "wb" /\ Idle(p)
  /\ doneFlight' = doneFlight \cup {Top(p).addr}
  /\ Pop(p)
  /\ Goto(p, Top(p).back)
  /\ put' = [put EXCEPT ![p] = FALSE]
  /\ UNCHANGED <<dequeVars, request, cell, sem, term, net, termFlight, pollVars,
                 trying, epoch, histVars>>

\* The result is in the victim's deque: set DONE there and return from ws_steal.
WriteBackDone(p) ==
  /\ pc[p] = "wb" /\ Idle(p)
  /\ ~put[p]
  /\ doneFlight' = doneFlight \cup {Top(p).addr}
  /\ Pop(p)
  /\ Goto(p, Top(p).back)
  /\ UNCHANGED <<dequeVars, request, cell, sem, term, net, put, termFlight,
                 pollVars, trying, epoch, histVars>>

Steal(p) ==
  \/ StealCasWon(p) \/ StealCasLost(p) \/ StealRefused(p) \/ StealRun(p)
  \/ WriteBackPoll(p) \/ WriteBackDone(p)

-----------------------------------------------------------------------------
(* The handler, and the operations it calls *)

InHandler(p) == pc[p] = "run" /\ Idle(p)

\* ws_progress: the handlers call it while they wait for remote memory.
Progress(p) ==
  /\ InHandler(p)
  /\ Communicate(p)
  /\ UNCHANGED <<dequeVars, request, cell, sem, term, netVars, pc, stack, seen,
                 trying, epoch, histVars>>

\* ws_spawn: the metadata and the input are written, the output stays stale.
Spawn(p) ==
  /\ InHandler(p)
  /\ MayCreate(p)
  /\ tail[p] < DequeSize
  /\ deque' = [deque EXCEPT ![p][tail[p]] =
                [task |-> nextTask, thief |-> Nobody, done |-> FALSE, out |-> @.out]]
  /\ tail' = [tail EXCEPT ![p] = @ + 1]
  /\ nextTask' = nextTask + 1
  /\ status' = [status EXCEPT ![nextTask] = "ready"]
  /\ parent' = [parent EXCEPT ![nextTask] = Running(p)]
  /\ UNCHANGED <<head, request, cell, sem, term, netVars, pc, stack, pollVars,
                 trying, epoch>>

\* ws_call: ws_communicate, then the handler on the thread's own stack.
Call(p) ==
  /\ InHandler(p)
  /\ MayCreate(p)
  /\ Communicate(p)
  /\ Push(p, [task |-> nextTask, addr |-> NoAddr, back |-> "run", base |-> tail[p]])
  /\ nextTask' = nextTask + 1
  /\ status' = [status EXCEPT ![nextTask] = "running"]
  /\ parent' = [parent EXCEPT ![nextTask] = Running(p)]
  /\ UNCHANGED <<dequeVars, request, cell, sem, term, netVars, pc, seen, trying,
                 epoch>>

\* ws_sync begins with ws_communicate.
Sync(p) ==
  /\ InHandler(p)
  /\ tail[p] > Top(p).base
  /\ Communicate(p)
  /\ Goto(p, "sync")
  /\ UNCHANGED <<dequeVars, request, cell, sem, term, netVars, stack, seen,
                 trying, epoch, histVars>>

\* Faulty variant: WS_TASK_STOLEN is not tested.
SyncInline_Always(p) ==
  /\ pc[p] = "sync" /\ Idle(p)
  /\ tail' = [tail EXCEPT ![p] = @ - 1]
  /\ Push(p, [task |-> Last(p).task, addr |-> NoAddr, back |-> "run",
              base |-> tail[p] - 1])
  /\ Goto(p, "run")
  /\ status' = [status EXCEPT ![Last(p).task] = "running"]
  /\ UNCHANGED <<deque, head, request, cell, sem, term, netVars, pollVars,
                 trying, epoch, nextTask, parent>>

\* ... the task was not stolen: pop it and run it here.
SyncInline(p) ==
  /\ pc[p] = "sync" /\ Idle(p)
  /\ Last(p).thief = Nobody
  /\ tail' = [tail EXCEPT ![p] = @ - 1]
  /\ Push(p, [task |-> Last(p).task, addr |-> NoAddr, back |-> "run",
              base |-> tail[p] - 1])
  /\ Goto(p, "run")
  /\ status' = [status EXCEPT ![Last(p).task] = "running"]
  /\ UNCHANGED <<deque, head, request, cell, sem, term, netVars, pollVars,
                 trying, epoch, nextTask, parent>>

\* ... it was stolen: test DONE, else leapfrog.
SyncStolen(p) ==
  /\ pc[p] = "sync" /\ Idle(p)
  /\ Last(p).thief # Nobody
  /\ Goto(p, "leap")
  /\ UNCHANGED <<dequeVars, request, cell, sem, term, netVars, stack, pollVars,
                 trying, epoch, histVars>>

SyncSteal(p) ==
  /\ pc[p] \in {"leap", "sweep"} /\ Idle(p)
  /\ ~Last(p).done
  /\ BeginSteal(p)
  /\ UNCHANGED <<dequeVars, request, cell, sem, term, netVars, pc, stack, seen,
                 epoch, histVars>>

\* Faulty variant: only deque_p and tail are moved back, not head.
Join_TailOnly(p) ==
  /\ pc[p] \in {"leap", "sweep"} /\ Idle(p)
  /\ Last(p).done
  /\ tail' = [tail EXCEPT ![p] = @ - 1]
  /\ Goto(p, "run")
  /\ status' = [status EXCEPT ![Last(p).task] = "joined"]
  /\ UNCHANGED <<deque, head, request, cell, sem, term, netVars, stack, pollVars,
                 trying, epoch, nextTask, parent>>

\* ... DONE is set: read the output and drop the entry.
Join(p) ==
  /\ pc[p] \in {"leap", "sweep"} /\ Idle(p)
  /\ Last(p).done
  /\ head' = [head EXCEPT ![p] = @ - 1]
  /\ tail' = [tail EXCEPT ![p] = @ - 1]
  /\ Goto(p, "run")
  /\ status' = [status EXCEPT ![Last(p).task] = "joined"]
  /\ UNCHANGED <<deque, request, cell, sem, term, netVars, stack, pollVars,
                 trying, epoch, nextTask, parent>>

\* The handler returns to ws_call or ws_sync of the same thread.
ReturnLocal(p) ==
  /\ InHandler(p)
  /\ tail[p] = Top(p).base
  /\ Top(p).addr = NoAddr /\ Top(p).back = "run"
  /\ Pop(p)
  /\ status' = [status EXCEPT ![Running(p)] = "joined"]
  /\ UNCHANGED <<dequeVars, request, cell, sem, term, netVars, pc, pollVars,
                 trying, epoch, nextTask, parent>>

\* It returns to ws_steal, which starts to write the task back.
ReturnStolen(p) ==
  /\ InHandler(p)
  /\ tail[p] = Top(p).base
  /\ Top(p).addr # NoAddr
  /\ put' = [put EXCEPT ![p] = TRUE]
  /\ Goto(p, "wb")
  /\ status' = [status EXCEPT ![Running(p)] = "finished"]
  /\ UNCHANGED <<dequeVars, request, cell, sem, term, net, doneFlight,
                 termFlight, stack, pollVars, trying, epoch, nextTask, parent>>

\* Faulty variant: the loop over the termination flags reaches the master only.
ReturnRoot_MasterOnly(p) ==
  /\ InHandler(p)
  /\ tail[p] = Top(p).base
  /\ Top(p).back = "bar2"
  /\ termFlight' = [termFlight EXCEPT ![p] = @ + 1]
  /\ epoch' = [epoch EXCEPT ![p] = @ + 1]
  /\ Pop(p)
  /\ Goto(p, "bar2")
  /\ status' = [status EXCEPT ![Running(p)] = "joined"]
  /\ UNCHANGED <<dequeVars, request, cell, sem, term, net, put, doneFlight,
                 pollVars, trying, nextTask, parent>>

\* The root returns to ws_initiate, which flips every termination flag and
\* arrives at the second barrier.
ReturnRoot(p) ==
  /\ InHandler(p)
  /\ tail[p] = Top(p).base
  /\ Top(p).back = "bar2"
  /\ termFlight' = [q \in Thread |-> termFlight[q] + 1]
  /\ epoch' = [epoch EXCEPT ![p] = @ + 1]
  /\ Pop(p)
  /\ Goto(p, "bar2")
  /\ status' = [status EXCEPT ![Running(p)] = "joined"]
  /\ UNCHANGED <<dequeVars, request, cell, sem, term, net, put, doneFlight,
                 pollVars, trying, nextTask, parent>>

SyncOrReturn(p) == Sync(p) \/ ReturnLocal(p) \/ ReturnStolen(p) \/ ReturnRoot(p)

Handler(p) ==
  \/ Progress(p) \/ Spawn(p) \/ Call(p) \/ SyncOrReturn(p)
  \/ SyncInline(p) \/ SyncStolen(p) \/ SyncSteal(p) \/ Join(p)

-----------------------------------------------------------------------------
(* ws_compute: ws_initiate on the master, ws_participate elsewhere.        *)

AllArrived(p) == \A q \in Thread : epoch[q] >= epoch[p]

\* *term_p = 0; upc_barrier;
Reset(p) ==
  /\ pc[p] = "start"
  /\ term' = [term EXCEPT ![p] = FALSE]
  /\ epoch' = [epoch EXCEPT ![p] = @ + 1]
  /\ Goto(p, "bar1")
  /\ UNCHANGED <<dequeVars, request, cell, sem, netVars, stack, pollVars, trying,
                 histVars>>

\* Faulty variant: the root is called without the ws_communicate of ws_call.
Initiate_NoPoll(p) ==
  /\ pc[p] = "bar1" /\ AllArrived(p)
  /\ p = Master
  /\ nextTask <= MaxTasks
  /\ Push(p, [task |-> nextTask, addr |-> NoAddr, back |-> "bar2", base |-> tail[p]])
  /\ Goto(p, "run")
  /\ nextTask' = nextTask + 1
  /\ status' = [status EXCEPT ![nextTask] = "running"]
  /\ UNCHANGED <<dequeVars, request, cell, sem, term, netVars, pollVars, trying,
                 epoch, parent>>

\* Past the barrier, ws_initiate calls the root task ...
Initiate(p) ==
  /\ pc[p] = "bar1" /\ AllArrived(p)
  /\ p = Master
  /\ nextTask <= MaxTasks
  /\ Communicate(p)
  /\ Push(p, [task |-> nextTask, addr |-> NoAddr, back |-> "bar2", base |-> tail[p]])
  /\ Goto(p, "run")
  /\ nextTask' = nextTask + 1
  /\ status' = [status EXCEPT ![nextTask] = "running"]
  /\ UNCHANGED <<dequeVars, request, cell, sem, term, netVars, seen, trying,
                 epoch, parent>>

\* ... and ws_participate makes a first attempt before it looks at term.
Participate(p) ==
  /\ pc[p] = "bar1" /\ AllArrived(p)
  /\ p # Master
  /\ BeginSteal(p)
  /\ Goto(p, "part")
  /\ UNCHANGED <<dequeVars, request, cell, sem, term, netVars, stack, seen,
                 epoch, histVars>>

PoolSteal(p) ==
  /\ pc[p] = "part" /\ Idle(p)
  /\ ~term[p]
  /\ BeginSteal(p)
  /\ UNCHANGED <<dequeVars, request, cell, sem, term, netVars, pc, stack, seen,
                 epoch, histVars>>

LeavePool(p) ==
  /\ pc[p] = "part" /\ Idle(p)
  /\ term[p]
  /\ epoch' = [epoch EXCEPT ![p] = @ + 1]
  /\ Goto(p, "bar2")
  /\ UNCHANGED <<dequeVars, request, cell, sem, term, netVars, stack, pollVars,
                 trying, histVars>>

\* Past the second barrier, main.c may call ws_compute again.
EndRound(p) ==
  /\ pc[p] = "bar2" /\ AllArrived(p)
  /\ Goto(p, IF epoch[p] = 2 * Rounds THEN "end" ELSE "start")
  /\ UNCHANGED <<dequeVars, request, cell, sem, term, netVars, stack, pollVars,
                 trying, epoch, histVars>>

Compute(p) ==
  \/ Reset(p) \/ Initiate(p) \/ Participate(p)
  \/ PoolSteal(p) \/ LeavePool(p) \/ EndRound(p)

-----------------------------------------------------------------------------
(* The network: each one-sided operation takes effect at some later time,  *)
(* in no order.  The source of an asynchronous put is read only then.      *)

LandReply(m) ==
  /\ m \in net
  /\ net' = net \ {m}
  /\ cell' = [cell EXCEPT ![m.to] =
       IF m.src = Refused THEN Refused
                          ELSE [addr |-> m.src, task |-> At(m.src).task]]
  /\ sem' = [sem EXCEPT ![m.to] = @ + 1]
  /\ UNCHANGED <<dequeVars, request, term, put, doneFlight, termFlight, pc,
                 stack, pollVars, trying, epoch, histVars>>

LandPut(p) ==
  /\ put[p]
  /\ put' = [put EXCEPT ![p] = FALSE]
  /\ LET a == Top(p).addr
     IN  deque' = [deque EXCEPT ![a[1]][a[2]] =
           [task |-> Running(p), thief |-> p, done |-> FALSE, out |-> Running(p)]]
  /\ UNCHANGED <<head, tail, request, cell, sem, term, net, doneFlight,
                 termFlight, pc, stack, pollVars, trying, epoch, histVars>>

\* The memset of 0xFF over the metadata.  It also overwrites the thief's ID,
\* of which ws_sync keeps a copy: the entry's thief stands for that copy.
LandDone(a) ==
  /\ a \in doneFlight
  /\ doneFlight' = doneFlight \ {a}
  /\ deque' = [deque EXCEPT ![a[1]][a[2]] = Completed(@)]
  /\ UNCHANGED <<head, tail, request, cell, sem, term, net, put, termFlight, pc,
                 stack, pollVars, trying, epoch, histVars>>

LandTerm(p) ==
  /\ termFlight[p] > 0
  /\ termFlight' = [termFlight EXCEPT ![p] = @ - 1]
  /\ term' = [term EXCEPT ![p] = TRUE]
  /\ UNCHANGED <<dequeVars, request, cell, sem, net, put, doneFlight, pc, stack,
                 pollVars, trying, epoch, histVars>>

Network ==
  \/ \E m \in net : LandReply(m)
  \/ \E p \in Thread : LandPut(p) \/ LandTerm(p)
  \/ \E a \in doneFlight : LandDone(a)

-----------------------------------------------------------------------------

\* Every thread is past its last ws_compute and the network is silent.
Terminated ==
  /\ \A p \in Thread : pc[p] = "end" /\ termFlight[p] = 0
  /\ UNCHANGED vars

Step(p) == Poll(p) \/ Steal(p) \/ Handler(p) \/ Compute(p)

Next == (\E p \in Thread : Step(p)) \/ Network \/ Terminated

Spec == Init /\ [][Next]_vars

(***************************************************************************)
(* Fairness.  A thread that can step does, and one-sided operations land.  *)
(* A handler may poll between any two operations, but it polls only while  *)
(* it waits for an operation of its own that does finish: it goes on to    *)
(* its next ws_sync or to its return.                                      *)
(***************************************************************************)
Fairness ==
  /\ \A p \in Thread : WF_vars(Step(p)) /\ SF_vars(SyncOrReturn(p))
  /\ WF_vars(Network)
FairSpec == Spec /\ Fairness

-----------------------------------------------------------------------------
(* Properties *)

\* A thread that waits for an answer has blocked every request slot of its own:
\* it does not look at them meanwhile, and two threads that each waited on the
\* other would wait forever (ws_steal polls before it posts its request).
WaitersBlocked ==
  \A p \in Thread : Waiting(p) => \A s \in Slot : request[p][s] = Block

\* Every request posted is answered exactly once: a waiting thread has either
\* its request in one slot, or one answer in flight, or one answer received;
\* a thread that does not wait has none, so that a transfer cell is never
\* overwritten before it is read.
Requests(p) == {vs \in Thread \X Slot : request[vs[1]][vs[2]] = p}
Replies(p) == {m \in net : m.to = p}
OneAnswer ==
  \A p \in Thread :
    Cardinality(Requests(p)) + Cardinality(Replies(p)) + sem[p]
      = IF Waiting(p) THEN 1 ELSE 0

\* The stolen entries of a deque are exactly those below head: ws_sync may pop
\* an unstolen entry with tail-- alone, and a stolen one with head-- as well.
StolenPrefix ==
  \A p \in Thread :
    /\ head[p] <= tail[p]
    /\ \A i \in Index : i < tail[p] => ((deque[p][i].thief # Nobody) <=> (i < head[p]))

\* No remote write goes astray.  An entry given away and not yet done has exactly
\* one holder (an answer in flight, a transfer cell not yet read, a frame of a
\* thief, a DONE flag in flight), and no other entry has any: the owner may
\* then reuse the entry after the join without a late write hitting it.
InNet(a) == {m \in net : m.src = a}
InCell(a) == {p \in Thread : sem[p] > 0 /\ cell[p] # Refused /\ cell[p].addr = a}
InFrame(a) == UNION {{<<p, k>> : k \in {k \in 1 .. Depth(p) : stack[p][k].addr = a}}
                      : p \in Thread}
Holders(a) == Cardinality(InNet(a)) + Cardinality(InCell(a))
              + Cardinality(InFrame(a)) + (IF a \in doneFlight THEN 1 ELSE 0)
HeldOnce ==
  \A a \in Addr :
    Holders(a) = IF a[2] < head[a[1]] /\ ~At(a).done THEN 1 ELSE 0

\* What a join reads is the task's own result, and the task has finished: DONE
\* never overtakes the output.
JoinDelivers ==
  \A p \in Thread : \A i \in Index :
    i < tail[p] /\ deque[p][i].done =>
      /\ deque[p][i].out = deque[p][i].task
      /\ status[deque[p][i].task] = "finished"

\* A thread arrives at the last barrier of a round with no request left in its
\* slots: nobody would ever answer it.
QuietBarrier ==
  \A p \in Thread : pc[p] \in {"bar2", "end"} \/ (pc[p] = "start" /\ epoch[p] > 0) =>
    \A s \in Slot : request[p][s] = Block

\* How a thread's stack, deque and location fit together: each frame starts
\* where the one below it left the deque, a frame below a stolen task waits to
\* join an entry that is itself stolen, and a thread without frames has an empty
\* deque.  ws_sync and the return from ws_steal rely on it, as they move head and
\* tail without any test.
Busy == {"run", "sync", "leap", "sweep", "wb"}
StealBack == {"part", "leap", "sweep"}

Frames(p) ==
  /\ (stack[p] # << >>) <=> (pc[p] \in Busy)
  /\ \A k \in 1 .. Depth(p) :
       /\ (k = 1) <=> (stack[p][k].back \in {"bar2", "part"})
       /\ (stack[p][k].addr # NoAddr) <=> (stack[p][k].back \in StealBack)
       /\ stack[p][k].base <= tail[p]
       /\ stack[p][k].back \in {"leap", "sweep"} => stack[p][k].base <= head[p]
       /\ k < Depth(p) =>
            /\ stack[p][k].base <= stack[p][k + 1].base
            /\ stack[p][k + 1].back \in {"leap", "sweep"} =>
                 stack[p][k].base < stack[p][k + 1].base

Counters(p) ==
  /\ head[p] <= tail[p]
  /\ stack[p] = << >> => tail[p] = 0
  /\ stack[p] # << >> => stack[p][1].base = 0
  /\ pc[p] \in {"sync", "leap", "sweep"} => Top(p).base < tail[p]
  /\ pc[p] \in {"leap", "sweep"} => head[p] = tail[p]
  /\ pc[p] = "wb" => tail[p] = Top(p).base /\ Top(p).addr # NoAddr
  /\ put[p] => pc[p] = "wb"
  /\ trying[p] # "no" => pc[p] \in StealBack
  /\ pc[p] \in {"start", "bar1", "bar2", "end", "wb"} => ~Waiting(p)

StackDiscipline == \A p \in Thread : Frames(p) /\ Counters(p)

\* The scheduler implements the fork-join discipline.
FJ == INSTANCE ForkJoin
ImplementsForkJoin == FJ!Spec

\* Every call of ws_compute returns on every thread.
Termination == <>(\A p \in Thread : pc[p] = "end")
=============================================================================
