# Verification of DistBDD

DistBDD computes the reachable states of a model with binary decision diagrams
that are spread over the memory of many machines. It is written in Unified
Parallel C (UPC): every thread runs the same program, has a private memory, and
reaches the memory of the others by one-sided gets, puts and compare-and-swaps.
This directory holds TLA+ models of the program, model-checking runs for TLC,
and proofs for TLAPS. The models follow the parallel build (`compile.sh`); `Main`
also has the node table of the sequential build (`compile_seq.sh`).

`PROJECT.json` lists components, runs, mutants, hazards, findings and theorems,
and gives for every definition the lines of code it stands for.

## 1. The system

`main.c` initialises the library, loads a model on every thread, and calls
`ws_compute` twice: for the search (`bdd_par`) and for the count of the states it
found (`bdd_satcount`). Within `ws_compute`, thread 0 runs the root task and the
others steal. A task runs an operation of `bdd.c`; it spawns and calls other
operations, looks up results in the operation cache, reads nodes through the node
cache from the node table, and puts new nodes in the node table. Whenever a thread
waits for the network, it calls `ws_progress`, which answers thieves.

    main ──ws_compute──► wstealer ──driver──► bdd.c ──► cache      (results)
                            ▲                   │  ├──► nodecache  (copies of nodes)
                            └────ws_progress────┤  ├──► htable     (nodes)
                                                │  └──► localstore (nodes of the model)

| Component | State | Operations | What is hard | What makes it correct |
|---|---|---|---|---|
| Scheduler (`wstealer/`) | per thread: deque with `head` and `tail`, request slots, transfer cell, semaphore, termination flag | spawn, call, sync, progress, steal, compute | one-sided writes at any time; thieves that block on a semaphore; answers and results in flight; deque entries that are reused; leapfrogging on one C stack; rounds | every request answered once; no late write hits a reused entry; each task runs once and its join gets its result; each round ends |
| Node table (`htable/htable_lp.c`) | buckets and nodes, in blocks per thread | find-or-put, get | lock-free insertion from stale copies of buckets, chunks that cross blocks, wrap-around | a node is stored once; its reference never changes; full only if full |
| Operation cache (`cache.c`) | buckets and entries, in blocks per thread | put, request, sync, check | entries overwritten while they are read; lock bit | a hit is the result of the operation asked for |
| Node cache (`nodecache.c`) | entries shared by the threads of a machine | get, put | writers and readers without a lock | an entry is one node, that of its reference |
| Diagram operations (`bdd.c`) | none of their own | and, or, diff, xor, ite, relnext, satcount, makenode | complement marks, reordered operands, cache keys, variable chains, two stores of nodes | result means what the operation says, is reduced, and unique for its meaning |
| Search (`bdd_par`, `bdd_go_par`) | visited and new states, tasks of a level | level, split, join | any order of tasks; halves of odd lengths | ends with the reachable states, level by level |
| Loader and local store (`main.c`, `localstore.c`, `varchain.c`) | per thread: array of nodes, map from numbers to references, diagrams and chains of variables | read a serialised diagram, find-or-put | numbering of nodes, complement marks, index 0, references into private stores that travel with tasks | the diagrams loaded mean what the file says, and a reference means the same on every thread |
| Node count (`bdd_nodecount`) | a mark in the data of each node | mark, unmark | writes that are not waited for | every node counted once, no mark left |
| Sequential build (`htable/htable.c`, `wstealer_seq.c`) | buckets and nodes, filled by thread 0 | find-or-put with rehashing | a chunk per hash of the node | a node is stored once and found again |
| `avl.h`; scripts | | | | not modelled (section 8) |

## 2. Modules

| Module | Models | Extends / instantiates |
|---|---|---|
| `WorkStealing` | `wstealer.c` and the network operations it starts | instantiates `ForkJoin` as its abstract specification |
| `ForkJoin` | what the scheduler promises: a task is run once, by and for its parent | |
| `HashTable` | `htable_find_or_put` and `query_chunk` | instantiates `NodeTable` |
| `NodeTable` | what the table promises: find-or-put in one atomic step | |
| `OpCache` | `cache_put`, `cache_request`, `cache_check` | |
| `NodeCache` | `nodecache_put`, `nodecache_get`, for one entry | |
| `Bdd` | references, nodes, `bdd_makenode`, the cofactors | |
| `BddMeaning` | no code: the meaning of a diagram, the diagram of a set, the shape of a diagram | extends `Bdd` |
| `BddOps` | the operations of `bdd.c` and its `driver` | extends `BddMeaning` |
| `Reachability` | `bdd_go_par`, `bdd_par`, and what `main` computes | |
| `LocalStore` | references by index, nodes, `localstore_find_or_put` | |
| `SeqTable` | `htable_find_or_put` of `htable.c` | |
| `Main` | `main`, the loader, `varchain.c`, `bdd_nodecount`, the making of nodes by the search in either build | extends `LocalStore`, `SeqTable` |
| `StealingInv` | no code: the inductive invariant of `WorkStealing` | extends `WorkStealing` |
| `WorkStealingProofs`, `DequeProofs`, `TaskProofs` | proofs about `WorkStealing`: answers; types, counters, holders and request slots; tasks and the refinement | the last extends `DequeProofs`, which extends the first and `StealingInv` |
| `HashTableProofs`; `OpCacheProofs`; `BddProofs`; `ReachabilityProofs`; `MainProofs` | proofs about the table, the operation cache, diagrams and operations, the search, the whole program | each extends the module it is about |
| `MC…` | instances for TLC | |

The modules are layered by what each promises to the next. `BddOps` writes the
spawn and join of a recursive call as the call itself, and `Reachability` lets the
tasks of a level run in any order, because `WorkStealing` implements `ForkJoin`
and `JoinDelivers` the result. `BddOps` has a node stand for its reference,
because `HashTable` implements `NodeTable`. A lookup that hits in `BddOps` gets what
`OpCache` promises. `Reachability` uses sets of states for diagrams, because
`BddOps` compares each operation with its meaning on sets (`ResultRight`) and shows
that a set is empty exactly when its diagram is `bdd_false` (`ResultReduced`),
which is the test that ends the loop. The layers are joined by these arguments.
`Main` composes the data of the whole program, from the file to the last count,
with a search that may make any nodes: it takes find-or-put of the parallel build as
one step, which is what `NodeTable` promises. The places where the code breaks a promise
that a layer above relies on are in section 5.

### How state and actions correspond to the code

**WorkStealing.** Each variable is a field of the code: `deque`, `head`, `tail`,
`request`, `cell` (`transfer`), `sem`, `term`. `net`, `put`, `doneFlight` and
`termFlight` are one-sided operations under way: they take effect at a later step,
in any order, and the source of the asynchronous answer is read only when it lands
(`LandReply`), as UPC allows. `stack` is the C stack of a thread: frames of the
handler and where each returns to. `poll` is the loop of `ws_communicate`, one slot
per step; `seen` is the gap between reading a free slot and the local
compare-and-swap. `trying` is `ws_steal`. The handler is any fork-join program: it
may spawn, call, sync or poll at any time, and joins what it spawned before it
returns, as the operations of `bdd.c` do. A task stands for its input and for its
output. The history variables `status` and `parent` are there for the properties.
Abstractions: a thief chooses any victim (hints are left out: with
`WS_MAX_HINTED` 1 a hint never leads to another attempt, and the test of
`ws_steal_hinted & WS_STEAL_SUCC` never succeeds); a steal is for one victim
(`victims_steal` is 1 at every call); `bupc_poll` is part of the network's
freedom; the compare-and-swaps and the reads of slots, counters and flags are
each one atomic step; the words of one put arrive together, but before a DONE flag
only because the thief waits for the put, as in the code. One thing the model
allows that looks odd: the master's termination memset of one round may land after
the next round has reset the flag. Threads then leave the pool of tasks early,
which costs time and no correctness (`Termination`, `QuietBarrier` hold).

**HashTable.** `index` and `data` are the shared arrays, `used` is `data_i`. The
chunk arrives bucket by bucket in any order (`Fetch`), since a get is not atomic.
`FetchAddr` is the address arithmetic of `query_chunk`, `ProbeAddr` that of the
scan; that the two agree is proved, not assumed. The estimate of the chunk size
from the load is any member of `ChunkSizes`. A poll inside the lookup never enters
the table again, so it is a pause. The node fetched for a comparison is right:
node-cache answers are the business of `NodeCache`.

**OpCache, NodeCache.** One action per word written. `AtomicGet` tells whether the
get of an entry takes all its words at once. The `&=` of `cache_put` is what it is
in the code: it clears the word and leaves the bit unset.

**Bdd, BddOps.** A reference is a mark, a flag for the local store, and its node.
Recursive functions of the operands follow the code case by case, with what each puts
in the cache (`Store`); the body of each is an operator (`AndStep`, `XorStep`, `IteStep`,
`RelStep`, `SatStep`) whose first parameter is that function. `Ref` is their domain: all
references to diagrams of the levels of an instance, in either store, reduced or not. `in`
enumerates calls; `warm` is the set of cache buckets in which lookups hit, so that each
lookup of a call (`Hit`), its own and those of the calls below it, hits or misses by its key;
`swap` says whether the numeric order of references makes the operation exchange its operands.
A hit gives the shared diagram of what its key means, whoever put it there.

**Reachability.** `status` and `res` are the activations of `bdd_go_par` of one
level and their results; `pc` is where `bdd_par` and `main` are.

**LocalStore, SeqTable.** Operators, not state: where a lookup ends, given the table,
the node and the hash (`seed` stands for the hash function, of which nothing is
assumed). `IsConst` is the test of the code, which knows a constant by index 0.
The tag in a bucket is left out: equal nodes have equal tags.

**Main.** `pc` is where a thread is: it loads, thread 0 marks and unmarks for each
count, all meet in `ws_compute`, search, and end. A file has its nodes, numbered
through all sections, and for each section the last of its nodes, the root and the variables
(`WellWritten`: children come before and lie deeper than their parents, a root is one of
the nodes so far; the loader tests nothing of this). The sequence
`refs` is the map of `avl.h`, `roots` are `states` and `next`, `store` is the array
of `localstore.c`, `index`, `data` and `used` are the shared table. `ReadEqual` and
`ReadPut` are one round of the loop of `serialize_fromfile`, `EndSection` the rest of
`set_load` and `rel_load`. `todo` is the C stack of the recursive count: calls to
make, and returns. `flight` are the puts of `htable_set_data`, which `htable_lp.c`
starts with `upc_memput_nbi` and nobody waits for; the program has no call that
would. A get of a node whose put is under way returns the old node, and `late`
records that it happened, or that a call returned before its put arrived (whose
source is a local variable of that call). `held` are the references of tasks, each
with what it was made to mean: a task may be run by any thread, so any thread may
make a node of any of them (`Make`). In the sequential build only thread 0 does.
The second `ws_compute` counts states and makes no nodes, so that `EndSearch`
passes it.

## 3. Runs

State counts are of distinct states.

| Run | States | Question |
|---|---|---|
| `ws_two` | 155,515 | two threads, two slots each, two rounds, five tasks, at most four in a round |
| `ws_three` | about 1,440,000 (up to symmetry) | three threads, one slot, one round, five tasks |
| `ws_live` | 1,012,202 | two threads, one slot, one round, six tasks: joins below joins, termination |
| `ht_wrap` | 36,034 | three threads, blocks of two buckets, hash range 16, chunks of 1 and 2 |
| `ht_crowd` | 76,777 | two threads, blocks of four, one tag, chunks of 2 and 3, probes exhausted |
| `oc_atomic` | about 130,000 | two threads, four colliding operations, whole entries got at once |
| `oc_torn` | violation | the same with gets word by word |
| `nc_lock` | violation | two threads, two references in one entry |
| `bdd_ops` | 514,048 | all calls on all diagrams over two state variables, some over three levels, any buckets of the cache warm |
| `bdd_ite` | violation | `bdd_ite` on all triples of diagrams over two variables |
| `reach` | 494,304 | all models of three relations with one edge each over four states |
| `main` | 981,382 | 27 models, two threads, both builds, two hash functions, up to three nodes made |

**What they check and show.** In `ws_two`, `OneAnswer` (a request has one answer,
and the one transfer cell is never overwritten), `HeldOnce` (an entry given away has
one holder, and a reused entry none, so no late write hits another task),
`JoinDelivers` (DONE never overtakes the result), `StolenPrefix` (the counters that
`ws_sync` moves without any test delimit the tasks given away), `WaitersBlocked` (no two
thieves wait for each other), `QuietBarrier` (nobody is left waiting when a round ends),
`ImplementsForkJoin`, and `Termination`. One task is kept back as the root of the second
round, so that only the master gives a task away in a round, and attempts to leapfrog are
all refused. `ws_three` adds a third thread, with five tasks in one round: a lost race for
a slot, a thief that is stolen from, a task taken by leapfrogging. `ws_live` is about that
last case: the master waits for a task, takes a child of it from its thief (as leapfrog or
in the sweep), runs it on top of the join it waits in, and spawns or calls there in turn;
the thief then waits for that child, so that each thread waits for a task on the other's
stack. `StackDiscipline` says that the entries below such a frame are left alone, and
`Termination` that neither the cycle of joins nor a cycle of refused requests lasts.
In `ht_wrap` and
`ht_crowd`, `Unique`, `RefsStable`, `CopiesCurrent`, `PassedOthers`, `FullIsFull`
and `LookupEnds` say why linear probing over stale copies is sound, and
`ImplementsNodeTable` that a lookup takes effect at one moment. `oc_atomic` shows
what the operation cache needs from the network in order to be right, and
`oc_torn` that it needs it. `bdd_ops` compares each operation with sets of
assignments: the result (`ResultRight`), what goes in the cache under which key
(`PutsRight`), and the shape of the result (`ResultReduced`, `ResultCanonical`).
`reach` shows that the search finds exactly the reachable states, breadth first,
and ends.

`main` follows the program from the file to the last count. `LoadedRight`: on every
thread every number of the file, every root and every chain means what the file
says. `MadeRight`: a reference means on every thread what the task asked for that
made it, although local stores are private and tasks move; it holds because all
stores are filled by the same program from the same file before the first barrier.
`SharedCanonical`: two references whose nodes are all in the shared table are equal
if they mean the same, in both builds. `LoadedRight` and `MadeRight` are stated
for stores with entry 0 free, and only for these do they hold: a node that hashes to
entry 0 is taken for the constant false (none of the nine models in `models/` has
one). `CountRight` and `NoMarks`: a count is the number of nodes, each once, and
leaves no mark behind, provided that no put is overtaken (`late`). In the sequential
build and for the diagrams loaded nothing can be overtaken; for the result of the
parallel build it can, and then TLC finds counts that are too high and marks that
stay. The program only prints this count. `Ends`: all of this comes to an end, or the
program reports a full store or table.

**Bounds and why they are enough.** Two threads already steal from each other, and
leapfrog; the third gives competition for a slot and answers that cross; a thread
takes part in at most one request at a time, so further threads add more of the
same. With `Threshold` 2, the code's, a thread gives a task away when it has two: that
takes a root with two children. For a thief to be stolen from, and for a steal during a
join to succeed, the stolen task must have two children of its own: five tasks in one
round, as in `ws_three`. A sixth, in `ws_live`, lets the task taken by leapfrogging have a
child, on top of the waiting join. `ws_two` has five tasks over its two rounds, which is enough for
the entries of the deque, the slots and the termination flags to be used again; two
rounds are what `main` makes. The deque has three entries: a handler of the model
spawns no fourth before it joins one.
A chain of three joins on three stacks would take seven tasks; with three threads
deadlock is checked (`ws_three`) but not termination. In the table, keys that share home and
tag, blocks of two to four buckets and a range of the hash that the table does not
divide give every kind of crossing: block to block, end of table, end of range.
(The code's sizes are powers of two, so the last cannot happen with a power of two
number of threads, and does with any other.) `DataSize` lets a thread insert one or
two nodes and lose with another. Levels 0 and 2 are states and 1 and 3 next states,
so that a relation over one pair leaves the other untouched. With granularity 2 the
levels 2 and 3 are one group: `and` and `xor` are also called on diagrams of levels 1, 2
and 3, where the calls at level 3 from level 2 go past the cache and those from level 1
do not. Three buckets, over which a hash of the operands spreads the keys, let a call miss
while one of its two recursive calls hits and the other misses. Three relations split unevenly
(two and one); edges over four states give levels up to distance three, and
states reached twice in one level. In `main` the models have every way to put a node
over one other (shared children, complement, equal edges, constant edges), with the
root marked or not, below relations over one and two pairs of variables whose
numbers go on from those of the states; two hash functions put nodes at entry 0 in
some and in none of others, with collisions and wrap-around; a model of nine nodes
does not fit. Two threads are enough for a reference to travel. Up to two nodes are
made in the parallel build (`DataSize` leaves room for two per thread) and three in
the sequential one, where the third is in the block of the idle thread and, with a
hash that repeats its chunk, finds the table full. `MadeLevels` are the levels of
states, at which alone the search makes nodes.

`CHECK_DEADLOCK FALSE` is set where the system may stop: the table is idle between
lookups or has given up, a call of an operation returns, the search ends. The
scheduler runs do check for deadlock; a step of their own (`Terminated`) marks the
regular end, and so does `main` (`Stop`).

## 4. Fairness

*WorkStealing.* Weak fairness of each thread's steps: a UPC thread is a process
that keeps running, and its loops poll. Weak fairness of `Network`: one-sided
operations complete. Strong fairness of `SyncOrReturn`: a handler polls only while
it waits for an operation of its own which does finish, so it goes on to its next
sync or return; without it the abstract handler could poll forever, which no
handler of `bdd.c` does. Nothing is assumed of a steal: a thief may lose every race.

*HashTable.* Weak fairness of a lookup under way, none of starting one.

*Main.* Weak fairness of each thread's loading, of the count, of the barrier, of the
end of the search (`SearchEnds`), and of the network.

*Reachability.* Weak fairness of the next step, which is `Termination` of the
scheduler: every spawned task is run and joined.

Safety runs use no fairness, except that `ws_two` has its safety properties and
its termination under one specification.

## 5. Findings

* `cache.c:82` `cache_check` tests word a for the lock ("abort if locked") and the key,
  but a get may take the words of an entry at different times. In `oc_torn` one put
  goes into fresh memory; a reader takes the result word before it is written and the
  three words of the key after it, and returns the zero as a hit. Clearing word a first
  and writing it last, as `cache_put` does, is enough for a get that takes the entry at
  one time (`oc_atomic`), and not for this one. (The lock bit itself is never set:
  `cache.c:122` has `&=`, which clears the word. Setting it would not help here: word a
  is taken after the put has ended.)
* `nodecache.c:65` The compare-and-swap that takes the lock of an entry accepts a
  word whose lock bit is set. Two writers then interleave, and the entry is left
  unlocked with a node that is not its reference's (`nc_lock`).
* `bdd.c:759` In the general case of `bdd_ite`, under "Get cofactors", those of `c` start
  as `b` itself, and stay so when `c` lies below the top level (`bdd_ite`). No caller in the program reaches the general case:
  `bdd_relnext` passes `bdd_true` for `b`, which ends in `bdd_and`; `bdd_ops` covers
  these calls and finds them right.

## 6. Proofs

All proofs hold for every value of the constants that satisfies the named
assumptions (`ASSUME` in the module that declares them; TLC evaluates them in the
runs).

**Scheduler** (from `ThreadAssumption`, `BoundAssumption`, `AddrAssumption`: the
threads are finitely many, the constants are numbers with at least one slot, one
entry and one round, and the marks for "no thread" and "no task" are no thread and no
task). All safety properties of `WorkStealing` that a run checks, and that it
implements `ForkJoin`, are theorems.

*Answers* (`WorkStealingProofs`, `OneAnswerHolds`). `OneAnswer` counts requests, answers in
flight and answers received of each thread. It is not inductive by itself: the
counts are of finite sets of slots and answers that must keep their types
(`ProtocolTypes`), and a thread must not change its place in the program while it
is inside `ws_steal` (`StealsWhere`), or an answer would come for a thread that no
longer waits. The proof has a lemma for each way in which the counts change (a
request is posted, an answer is sent, lands, is taken), and shows of every other
action that it leaves them alone.

*Types, counters and holders* (`DequeProofs`: `TypeCorrect`, `StackDisciplineHolds`,
`StolenPrefixHolds`, `HeldOnceHolds`). These four are inductive only together.
`ws_sync` and the return from `ws_steal` move `head` and `tail` without a test: that
they stay in range (`TypeOK`) follows from where the frames of the C stack begin
(`StackOK`) and from the location of the thread (`LocationOK`). That the entry popped
was spawned here and that the one joined was given away is `DequeOK`. A frame that waits
may have others above it, so that `Above` compares every two frames of a stack, not only
neighbours. When a thief puts its task back, `put` and the DONE flag must go to the entry
it holds, of which `HeldOnce` says that nobody else does; and `HeldOnce` needs in
turn that an answer in flight was asked for (`OneAnswer`), or it would land on a cell
that is still in use. Cardinalities are of finite sets (`FramesFinite`).

*Requests* (`DequeProofs`, last part: `WaitersBlockedHolds`, `QuietBarrierHolds`). A poll visits
the slots one by one, and a thief may claim a slot that was left open behind it. So
`BlockedInv` and `QuietInv` speak of the slots visited so far (`Visited`): a poll
blocks them while the thread has little work, which stays so until the thread does
something else. A slot may stay open only where the thread has a task to join
(`OpenOK`), in the frame at hand or in one below, and each frame that is not run by
another frame has one, so that the root cannot return before a later poll. `QuietBarrier`
is proved for `Threshold >= 2`. The code has `WS_TRANS_THRESHOLD` 2 (`wstealer.h`). With 1
it is false, as TLC shows: the poll in `ws_sync` then opens the slots for a last task that
the thread goes on to run itself, and the root returns without another poll.

*Tasks* (`TaskProofs`: `JoinDeliversHolds`, `SchedulerImplements`). `TaskInv` says where
every task is. Its entry and its frame determine its status (`EntryStatus`, `FrameStatus`);
no task is in two entries or two frames (`EntriesApart`, `FramesApart`), or in an entry and
a frame that does not run it (`FramesRun`); what was copied to a thief is what the entry
holds (`CellCopies`), and what it wrote back is its task (`OutWritten`); the parent of an
entry is the frame between whose marks it lies (`EntryFamily`), that of a frame without an
entry is the frame below (`FrameFamily`); and no task that is alive is lost (`Located`),
which is what the return of the root needs. The refinement then goes action by action:
`Spawn`, `SyncInline` and `Join`, the calls, the taking of a stolen task, the returns and
the write-back are the actions of `ForkJoin` of those names or of a start or finish, and
everything else is a stutter. Two steps are not local. A handler returns when its deque is at
its base: that all its children are joined follows because each would be in an
entry above the base or in a frame above the top. The root returns when all other
tasks are joined: of those alive other than the root take the one created first; its parent is alive
and older (`FreshOK`), hence the root, whose children are all joined. So there is none
(`LastTask`; the library's `WFMin` gives the first).

**Operation cache** (`OpCacheProofs`, `HitRightHolds`; from `KeyAssumption`, that an
operation's key is a record of three words of which the first is not that of fresh memory,
as it has the operation's code; and from `AtomicGet`, without which `oc_torn` has a
counterexample). The invariant: every entry, at all times, is right for whatever operation
its words name (`EntriesRight`), because `cache_put` clears word a first and writes
it last (`WriterOK` follows the words between); what a get has copied is right in the same
sense (`CopyRight`). Nothing is needed of the bucket, the tag or the owner: a pointer to any
entry whatever gives a right answer or none.

**Node table** (`HashTableProofs`; from `TableAssumption`, `WidthAssumption`,
`NoneAssumption`). The invariant is `TypeOK`, per thread what its program counter
allows (`Control`), that its copies are current (`Current`), that what it passed is
in use by others (`PassedBy`) and that a comparison is with the node of the current
bucket (`Comparing`), and of the table that buckets refer to filled
places below the owner's `data_i` (`Published`), that every stored node can be
reached from its home over used buckets (`Reached`), and `Unique`. `Unique` alone
is not inductive: that a claimed bucket does not duplicate a node follows because
the claimer has passed all buckets from the home on, and a copy of the node
further on could not have been put there while this bucket was free. This needs
that the bucket fetched is the bucket scanned (`FetchesRight`), which rests on
the lemmas at the head of the module: facts on quotients and remainders that the SMT
solver does not find by itself. From the same invariant: `TypeCorrect`, `UniqueHolds`,
`CopiesCurrentHolds`, `PassedOthersHolds`, `FullIsFullHolds`, the action property
`RefsStableHolds`, and the refinement `ImplementsHolds`, with the successful
compare-and-swap as `Insert`, the successful comparison as `Find`, and every other
step after the call as a stutter.

**Diagrams** (`BddProofs`; from `NVarsAssumption`). The theorems are about any set of
references that contains what is below each of its members, and their complements
(`Diagrams`), with the shape that `bdd_makenode` is to give: levels grow, no low edge
is marked, no node has equal edges. What they mean is any function that satisfies the
equation of `Holds` (`Means`); there is one for each such set (`MeaningExists`). The
constants are such a set (`Constants`), and a node made on top of one, in either store,
gives another, in which the node is if-then-else on its variable (`MakenodeRight`). `NotRight`: a mark
negates. `Canonical`: shared references that mean the same are the same. `EmptyIsFalse`:
a diagram of no assignment is `bdd_false`, also where the stores are mixed and
`Canonical` does not hold. All are by induction from the constants upwards (`Upwards`, from the library's
`WFMin`), with the facts that a diagram does not depend on the variables above it
(`Independent`) and is the choice between its cofactors (`Shannon`). For `Canonical` the two
references may be at different levels: then the upper one does not depend on its own
variable, its cofactors mean the same and are equal, and the shape forbids that.

**Operations** (`BddProofs`, second part; from `NVarsAssumption` and
`GranularityAssumption`). `SpecResultRight`, `SpecPutsRight`, `SpecResultReduced` and
`SpecResultCanonical` state the four properties of `BddOps` for every number of variables
and every set `Inputs`, of the calls that satisfy `DiagramCall`: any two good diagrams
(`Good`: reduced references of `Ref`, in either store) for `and`, `or`, `diff`, `xor`; the
union of any two by `ite`, the only use the program makes of it; for `relnext` any states
whose nodes are at even levels, any relation whose nodes are at levels of its chain, and any
chain of pairs of levels in order (`ValidChain`). The calls of the run are all of this kind,
but for those of `satcount`. The argument has three layers.

1. A recursive definition is a choice of a function that satisfies its equation; that there
   is one is shown by building the function up to n levels for every n (`RefOverIs`,
   `HoldsIs`, `WellFormedIs`, `AllSharedIs`, `BuildFromIs`, `AndIs`, `XorIs`, `RelIs`).
   It needs that a call asks for calls of a lower rank only: for `bdd_relnext` the rank is what
   is left of the chain and of the levels.
2. `bdd_makenode` and the cofactors on `Good`, and `Build`, the one shared diagram of a set,
   with the first level the set depends on (`BuildRight`): what a cache that answers gives.
3. `AndOfRight`, `XorOfRight`, `RelOfRight`, by induction over pairs of operands that lie
   deeper (`PairUpwards`): the answer means the operation on the meanings, no node of it lies
   above the operands (for `bdd_relnext`: above the first level of their pair), it is shared if
   the operands are (for `bdd_relnext`: if the states are), and the puts are right. The bound on
   the level is what makes the induction go through: the next node goes on top. For
   `bdd_relnext` the state of the induction is the position in the chain (`Ready`): the relation
   has no variable before it (`Past`), and in the middle of a pair both operands lie below
   the pair. `Skip`: variables that neither operand has do not matter. `PairRight`: four calls,
   two unions and a node make the image for a variable of the chain; its heart is `SuccPair`,
   on sets of assignments. `OtherRight`: a variable that the chain lacks is one of the states
   only. `EndRight`: after the chain the relation is the constant true.

`bdd_ite` on three general operands is not right (section 5), so no theorem says it is.

**Search** (`ReachabilityProofs`; from `NextCountAssumption`, `StateAssumption`,
`ModelsAssumption`). `FindsReachableHolds`: at the end the visited states are the
least closed set with the initial states. The invariant says that a finished task
has what its relations give (`TasksRight`, by the lemma that the two halves cover
the whole, `HalvesCover`), that successors of visited states are visited except
those of the current level (`Frontier`), that every closed set with the initial
states has the visited ones (`Sound`), and that two tasks of a level are about
different relations unless one waits for the other (`Nested`; none are left between
two levels, `Between`). The last is needed
because the visited states change at the end of a level: no finished task may be
left over whose result was about the old ones. `LevelsExactHolds`: the search goes
breadth first. Its invariant adds that during a level the visited states are those within
the last distance; what the level finds follows from `TasksRight` and `Frontier`.
`Within` is a recursive function, that is, a choice of a function that satisfies the
equation, and the lemmas `ChainExists`, `ChainsAgree` and `WithinIs` show that there is
one. They use induction over the naturals for sets (`NatSet`), got from the
library's theorem that every set of naturals has a least element, since the
induction theorems with an operator as parameter are out of the provers' reach.

**The whole program** (`MainProofs`; from `MainAssumption`, `EntryAssumption`,
`FileAssumption` and the assumptions of the two tables: sizes are positive numbers, a
hash is a number, the marks for "no node" and "no entry" are none, every file is well written).
`LoadedHolds`, `MadeHolds`, `CanonicalHolds`, `CountHolds` and `NoMarksHolds` state
`LoadedRight`, `MadeRight`, `SharedCanonical`, `CountRight` and `NoMarks` for any models,
threads, levels, hash functions, table sizes and bounds on the search, in both builds. The
invariant (`Always`) is `Start`, at all times, and `Core` until the search is over. Its parts:

* `LocalOK`: the numbers read so far mean what the file says (`NumbersRight`), in a store
  whose nodes are in order (`LocalGood`). That a put leaves the meaning of everything before it
  alone is `GrowsMean`: a memory that only gains nodes, or changes their marks of
  the count, keeps the meaning of what it has.
* `LeavesOK`: what a thread has read is a function of how much it has read: the store is the
  one that reading so many nodes leaves (`Leaves`), but for the marks of the count on thread 0.
  So at the barrier all stores are alike (`AllAlike`), and a reference means the same on all.
  The clause that fails to be inductive without it is `HeldRight`: a node made on one thread
  on top of local ones would mean something else on another.
* `UniqueOK`, `IndexOK`: each place of the shared table in use holds a node of its own, with no
  marked low edge and no equal edges, and in the sequential build a lookup finds it where its
  probes lead (`Found`), although the bucket it is in was free for others once: buckets are never
  emptied, so that the probes before it stay taken.
* `TableOK`, `HeldRight`: the nodes are in order on each thread, and tasks hold references that
  mean what they were made for. For `MadeRight` entry 0 of the stores is free; references
  to shared nodes alone are right in any case, which `SharedCanonical` needs.
* `CountOK`: the counts before the search stay in the local store; they change no place.

Canonicity (`Canonical`) is by induction on the level: of two shared references that mean the
same take the cofactors at a level not below either (`CofactorsExist`; a diagram that lies
deeper is its own cofactor); they do not depend on the level (`MeanAbove`), so they mean the
same in pairs (`MuxSplit`) and are equal, and then so are the references (`SameCofactors`,
from `UniqueOK`).

The node count has an invariant of its own (`MarksHold`), `MarksOK`: at all times no other
thread marks its store, and as long as no put was overtaken (`~late`) the memory is
`Settled`. Between counts no node is marked and no put is under way. In either half of a count
(`HalfOf`, for the set B of places below the diagram) a place of B is done if its mark is set, or cleared,
or a put to that end is under way; the clause that makes this inductive is `Covered`: what a
done place leads to is done as well or there is a call to it still to be made. When no call
is left, a set that holds the root and what its places lead to is all of B, so that the
first half ends with all of B marked, and the count, the number of done places, is that of B;
the second half starts from there and ends with no marks. A put under way to a place
has a call that is still to return (`Leaving`), and that call is why none is left when
the half ends: to return before the put arrives is to overtake it. Marks change neither the
places below a diagram nor the counts already printed (`HalfwayRemark`), and neither does a
node that is made later (`PrintedRight` grows with the memory).

**Only model-checked.** Liveness (`Termination`, `LookupEnds`, `SearchEnds`, `Ends`):
fairness and `ENABLED` are beyond the prover. `bdd_satcount`: powers of two and the number
of assignments are beyond its arithmetic.

## 7. Plan

Done, in this order: scheduler with its abstract specification; node table with
its own; caches; operations; search; loader, local store, node count and the table
of the sequential build (`Main`); the proofs of section 6. Left:

1. Node table and node cache together: what a torn `nodecache_get` does to the
   comparison in `htable_find_or_put`.
2. Proofs: `bdd_satcount`, once powers of two are in the provers' reach.

## 8. Not modelled, and why

* Files that cannot be opened or read: the program goes on without states
  (`main.c:213`). The map of the loader (`avl.h`) is third-party and is taken for a
  map.
* A put of the node count whose source has been overwritten since: the models say
  nothing of a count after a put was overtaken (`late`), other than that it ends.
* `ws_spawn` and the node's data array do not test for room; the models bound both
  (`DequeSize`, `DataSize`) as the code trusts. Wording and statistics are left out.
* The count of states is a `uint64_t` multiplied by `pow(2, n)`: floating point and
  its loss above 2^53 are not modelled.
* `bdd_relnext` for a variable outside its chain on which the relation depends
  (`bdd.c:1061`), which the loader excludes, and the general case of `bdd_ite` other
  than in `bdd_ite`.
* A node may be both in the local store and in the shared table, with two
  references. `BddOps` includes this; results are then right and reduced, but unique
  only for shared operands, which is what `ResultCanonical` says.
* Of the sequential build, `wstealer_seq.c` is `wstealer.c` with other threads that
  poll until the end and a deque for thread 0 alone; nobody steals, so that nothing of
  the scheduler's protocol happens. `nodecache_empty.c` never answers. Scripts have no
  logic of the program.
