------------------------------ MODULE HashTable ------------------------------
(***************************************************************************)
(* htable_find_or_put of htable/htable_lp.c, the lock-free node table in   *)
(* distributed memory.                                                     *)
(*                                                                         *)
(* The index is an array of buckets spread over the threads in blocks of   *)
(* HTABLE_SIZE; a bucket holds a tag (some bits of the hash) and the       *)
(* address of a node in the data array, of which each thread fills its own *)
(* block.  A lookup copies the node to the next free place of that block,  *)
(* fetches the buckets from the home bucket on in chunks, whose size       *)
(* depends on the load the thread has seen, scans each chunk and claims    *)
(* the first bucket that was free with a compare-and-swap.  The buckets of *)
(* a chunk are fetched one by one: the get is not atomic.  The thread      *)
(* polls the scheduler while it waits; a poll never re-enters the table.   *)
(*                                                                         *)
(* Nodes are the members of Key, compared as a whole; the node cache,      *)
(* which may answer the lookup of a node's data, is taken to be right.     *)
(***************************************************************************)
EXTENDS Naturals

CONSTANTS
  NThreads,    \* THREADS
  BlockSize,   \* HTABLE_SIZE, buckets per thread
  DataSize,    \* HTABLE_SIZE again, places per thread in the data array
  Width,       \* 2^64, the range of the hash and of the bucket arithmetic
  Key,         \* the BDD nodes
  HashOf,      \* hash
  TagOf,       \* the bits of the hash kept in a bucket (HTABLE_INDEX_HASH)
  ChunkSizes,  \* what calc_chunk_size may return
  MaxProbe,    \* 4096: a lookup inspects about this many buckets
  None         \* a free bucket, a free place in the data array, no answer

Thread == 0 .. NThreads - 1
TotalSize == NThreads * BlockSize
Bucket == 0 .. TotalSize - 1
Ref == Thread \X (0 .. DataSize - 1)    \* data_offset + data_i

ASSUME TableAssumption ==
  /\ NThreads \in Nat \ {0}
  /\ BlockSize \in Nat \ {0}
  /\ DataSize \in Nat \ {0}
  /\ Width \in Nat \ {0}
  /\ MaxProbe \in Nat
  /\ ChunkSizes \subseteq 1 .. BlockSize
  /\ HashOf \in [Key -> 0 .. Width - 1]
  /\ DOMAIN TagOf = Key

\* HTABLE_SIZE is a power of two, and so is the (greater) width of the arithmetic.
ASSUME WidthAssumption == Width % BlockSize = 0 /\ Width >= 2 * BlockSize

Tag == {TagOf[k] : k \in Key}
Entry == [tag : Tag, ref : Ref]

\* What has arrived of a chunk of buckets, by offset.
Chunk == UNION {[D -> Entry \cup {None}] : D \in SUBSET (0 .. BlockSize - 1)}

ASSUME NoneAssumption == None \notin Key /\ None \notin Ref /\ None \notin Entry

VARIABLES
  index,    \* the buckets
  data,     \* the data array
  used,     \* per thread: data_i, the next free place in its block
  pc, key, size, attempt, pos,   \* per thread: _, key, chunk_size, i, j
  chunk,    \* per thread: the buckets fetched so far, by offset
  cand,     \* per thread: the reference whose node is being compared
  answer,   \* per thread: the value last returned
  full      \* upc_global_exit was called

vars == <<index, data, used, pc, key, size, attempt, pos, chunk, cand, answer, full>>

Init ==
  /\ index = [b \in Bucket |-> None]
  /\ data = [r \in Ref |-> None]
  /\ used = [p \in Thread |-> 1]
  /\ pc = [p \in Thread |-> "idle"]
  /\ key = [p \in Thread |-> None]
  /\ size = [p \in Thread |-> 0]
  /\ attempt = [p \in Thread |-> 0]
  /\ pos = [p \in Thread |-> 0]
  /\ chunk = [p \in Thread |-> << >>]
  /\ cand = [p \in Thread |-> None]
  /\ answer = [p \in Thread |-> None]
  /\ full = FALSE

-----------------------------------------------------------------------------
(* Addresses *)

Attempts(c) == IF MaxProbe \div c > 1 THEN MaxProbe \div c ELSE 1

StorageAddr(a) == a % TotalSize
StorageThread(a) == a \div BlockSize
StorageBlock(a) == a % BlockSize

\* The start of the i-th chunk of size c, as the code computes it in Width.
Start(k, c, i) == (HashOf[k] + c * i) % Width

\* The bucket that the scan takes to be at offset e of a chunk that starts at h.
ProbeAddr(h, e) == StorageAddr((h + e) % Width)

\* Faulty variant: the second get starts where the first one did.
FetchAddr_SameStart(h, c, e) ==
  LET last == (h + c - 1) % Width
      size1 == BlockSize - StorageBlock(h)
  IN  IF StorageThread(h) # StorageThread(last) /\ e >= size1
      THEN StorageAddr(h) + (e - size1)
      ELSE StorageAddr(h) + e

\* The bucket that query_chunk copies to offset e: it splits the get where the
\* chunk leaves the block of its first bucket.
FetchAddr(h, c, e) ==
  LET last == (h + c - 1) % Width
      size1 == BlockSize - StorageBlock(h)
  IN  IF StorageThread(h) # StorageThread(last) /\ e >= size1
      THEN StorageAddr((h + size1) % Width) + (e - size1)
      ELSE StorageAddr(h) + e

Home(p) == Start(key[p], size[p], attempt[p])
Here(p) == ProbeAddr(Home(p), pos[p])
MyRef(p) == <<p, used[p]>>

-----------------------------------------------------------------------------
(* htable_find_or_put *)

\* Compute the chunk size, copy the node to the data array, start to fetch.  The
\* code has no test for room: DataSize bounds what a thread inserts.
Begin(p, k, c) ==
  /\ pc[p] = "idle"
  /\ used[p] < DataSize            \* bound
  /\ key' = [key EXCEPT ![p] = k]
  /\ size' = [size EXCEPT ![p] = c]
  /\ data' = [data EXCEPT ![MyRef(p)] = k]
  /\ answer' = [answer EXCEPT ![p] = None]
  /\ pc' = [pc EXCEPT ![p] = "fetch"]
  /\ UNCHANGED <<index, used, attempt, pos, chunk, cand, full>>

\* One bucket of the chunk arrives.
Fetch(p, e) ==
  /\ pc[p] = "fetch"
  /\ e \in 0 .. size[p] - 1
  /\ e \notin DOMAIN chunk[p]
  /\ chunk' = [chunk EXCEPT ![p] =
       [x \in DOMAIN @ \cup {e} |->
          IF x = e THEN index[FetchAddr(Home(p), size[p], e)] ELSE @[x]]]
  /\ UNCHANGED <<index, data, used, pc, key, size, attempt, pos, cand, answer, full>>

Fetched(p) ==
  /\ pc[p] = "fetch"
  /\ DOMAIN chunk[p] = 0 .. size[p] - 1
  /\ pc' = [pc EXCEPT ![p] = "scan"]
  /\ UNCHANGED <<index, data, used, key, size, attempt, pos, chunk, cand, answer, full>>

Scanning(p) == pc[p] = "scan" /\ pos[p] < size[p]
Seen(p) == chunk[p][pos[p]]
SameTag(p, entry) == entry.tag = TagOf[key[p]]

\* Faulty variant: the loop over the chunk does not advance.
Skip_Stays(p) ==
  /\ cand' = [cand EXCEPT ![p] = None]
  /\ pc' = [pc EXCEPT ![p] = "scan"]
  /\ UNCHANGED <<index, data, used, key, size, attempt, pos, chunk, answer, full>>

\* The bucket holds another node's tag: go on to the next.
Skip(p) ==
  /\ pos' = [pos EXCEPT ![p] = @ + 1]
  /\ cand' = [cand EXCEPT ![p] = None]
  /\ pc' = [pc EXCEPT ![p] = "scan"]
  /\ UNCHANGED <<index, data, used, key, size, attempt, chunk, answer, full>>

\* It holds this node's tag: fetch the node it refers to.
Inspect(p, entry) ==
  /\ cand' = [cand EXCEPT ![p] = entry.ref]
  /\ pc' = [pc EXCEPT ![p] = "compare"]
  /\ UNCHANGED <<index, data, used, key, size, attempt, pos, chunk, answer, full>>

ScanOccupied(p) ==
  /\ Scanning(p)
  /\ Seen(p) # None
  /\ IF SameTag(p, Seen(p)) THEN Inspect(p, Seen(p)) ELSE Skip(p)

\* The lookup returns; its local variables are gone.
Return(p, ref, how) ==
  /\ answer' = [answer EXCEPT ![p] = [key |-> key[p], ref |-> ref, inserted |-> how]]
  /\ pc' = [pc EXCEPT ![p] = "idle"]
  /\ key' = [key EXCEPT ![p] = None]
  /\ size' = [size EXCEPT ![p] = 0]
  /\ attempt' = [attempt EXCEPT ![p] = 0]
  /\ pos' = [pos EXCEPT ![p] = 0]
  /\ chunk' = [chunk EXCEPT ![p] = << >>]
  /\ cand' = [cand EXCEPT ![p] = None]
  /\ UNCHANGED <<data, full>>

\* Faulty variant: the bucket is written without a compare-and-swap.
ClaimWon_Store(p) ==
  /\ Scanning(p)
  /\ Seen(p) = None
  /\ index' = [index EXCEPT ![Here(p)] = [tag |-> TagOf[key[p]], ref |-> MyRef(p)]]
  /\ used' = [used EXCEPT ![p] = @ + 1]
  /\ Return(p, MyRef(p), TRUE)

\* Faulty variant: data_i is not advanced.
ClaimWon_SameSlot(p) ==
  /\ Scanning(p)
  /\ Seen(p) = None
  /\ index[Here(p)] = None
  /\ index' = [index EXCEPT ![Here(p)] = [tag |-> TagOf[key[p]], ref |-> MyRef(p)]]
  /\ Return(p, MyRef(p), TRUE)
  /\ UNCHANGED used

\* Faulty variant: data_i is advanced before the bucket is built from it.
ClaimWon_AfterAdvance(p) ==
  LET ref == <<p, used[p] + 1>>
  IN  /\ Scanning(p)
      /\ Seen(p) = None
      /\ index[Here(p)] = None
      /\ index' = [index EXCEPT ![Here(p)] = [tag |-> TagOf[key[p]], ref |-> ref]]
      /\ used' = [used EXCEPT ![p] = @ + 1]
      /\ Return(p, ref, TRUE)

\* The bucket was free when fetched and CAS64 claims it: return INSERTED.
ClaimWon(p) ==
  /\ Scanning(p)
  /\ Seen(p) = None
  /\ index[Here(p)] = None
  /\ index' = [index EXCEPT ![Here(p)] = [tag |-> TagOf[key[p]], ref |-> MyRef(p)]]
  /\ used' = [used EXCEPT ![p] = @ + 1]
  /\ Return(p, MyRef(p), TRUE)

\* Faulty variant: the bucket that another thread claimed is not looked at.
ClaimLost_Skip(p) ==
  /\ Scanning(p)
  /\ Seen(p) = None
  /\ index[Here(p)] # None
  /\ Skip(p)

\* CAS64 found that another thread claimed it since: look at what it put there.
ClaimLost(p) ==
  /\ Scanning(p)
  /\ Seen(p) = None
  /\ index[Here(p)] # None
  /\ IF SameTag(p, index[Here(p)]) THEN Inspect(p, index[Here(p)]) ELSE Skip(p)

CompareEqual(p) ==
  /\ pc[p] = "compare"
  /\ data[cand[p]] = key[p]
  /\ Return(p, cand[p], FALSE)
  /\ UNCHANGED <<index, used>>

CompareDiffers(p) ==
  /\ pc[p] = "compare"
  /\ data[cand[p]] # key[p]
  /\ Skip(p)

\* Faulty variant: the last bucket of a chunk is not inspected.
ChunkDone_OneShort(p) == pc[p] = "scan" /\ pos[p] + 1 >= size[p]
ChunkDone(p) == pc[p] = "scan" /\ pos[p] = size[p]

NextChunk(p) ==
  /\ ChunkDone(p)
  /\ attempt[p] + 1 < Attempts(size[p])
  /\ attempt' = [attempt EXCEPT ![p] = @ + 1]
  /\ pos' = [pos EXCEPT ![p] = 0]
  /\ chunk' = [chunk EXCEPT ![p] = << >>]
  /\ pc' = [pc EXCEPT ![p] = "fetch"]
  /\ UNCHANGED <<index, data, used, key, size, cand, answer, full>>

\* Every attempt failed: report that the table is full and end the program.
GiveUp(p) ==
  /\ ChunkDone(p)
  /\ attempt[p] + 1 >= Attempts(size[p])
  /\ full' = TRUE
  /\ UNCHANGED <<index, data, used, pc, key, size, attempt, pos, chunk, cand, answer>>

Work(p) ==
  \/ \E e \in 0 .. BlockSize - 1 : Fetch(p, e)
  \/ Fetched(p) \/ ScanOccupied(p) \/ ClaimWon(p) \/ ClaimLost(p)
  \/ CompareEqual(p) \/ CompareDiffers(p) \/ NextChunk(p) \/ GiveUp(p)

Next ==
  /\ ~full
  /\ \E p \in Thread :
       \/ \E k \in Key, c \in ChunkSizes : Begin(p, k, c)
       \/ Work(p)

Spec == Init /\ [][Next]_vars

\* A thread in htable_find_or_put keeps going; nobody has to call it.
FairSpec == Spec /\ \A p \in Thread : WF_vars(~full /\ Work(p))

-----------------------------------------------------------------------------
(* Properties *)

TypeOK ==
  /\ index \in [Bucket -> Entry \cup {None}]
  /\ data \in [Ref -> Key \cup {None}]
  /\ used \in [Thread -> 1 .. DataSize]
  /\ pc \in [Thread -> {"idle", "fetch", "scan", "compare"}]
  /\ key \in [Thread -> Key \cup {None}]
  /\ size \in [Thread -> Nat]
  /\ attempt \in [Thread -> Nat]
  /\ pos \in [Thread -> Nat]
  /\ chunk \in [Thread -> Chunk]
  /\ cand \in [Thread -> Ref \cup {None}]
  /\ answer \in [Thread -> [key : Key, ref : Ref, inserted : BOOLEAN] \cup {None}]
  /\ full \in BOOLEAN

Holds(b, k) == index[b] # None /\ data[index[b].ref] = k

\* No node is stored twice, although two threads may look for it at once, with
\* different chunk sizes and with copies of the buckets that are out of date.
Unique ==
  \A b1, b2 \in Bucket : \A k \in Key : Holds(b1, k) /\ Holds(b2, k) => b1 = b2

\* A copy of a bucket that was taken in use is still what the bucket holds, at
\* the address the scan takes it to come from, also where the chunk crosses into
\* the block of another thread or past the end of the hash's range.
CopiesCurrent ==
  \A p \in Thread : pc[p] # "idle" =>
    \A e \in DOMAIN chunk[p] :
      chunk[p][e] # None => index[ProbeAddr(Home(p), e)] = chunk[p][e]

\* Linear probing: every bucket that a lookup has passed is in use by another
\* node, so that a later lookup of this one cannot stop short of it.
Passed(p) ==
  {ProbeAddr(Start(key[p], size[p], i), e) : i \in 0 .. attempt[p] - 1, e \in 0 .. size[p] - 1}
  \cup {ProbeAddr(Home(p), e) : e \in 0 .. pos[p] - 1}
PassedOthers ==
  \A p \in Thread : pc[p] # "idle" =>
    \A b \in Passed(p) : index[b] # None /\ ~Holds(b, key[p])

\* The program gives up only when no bucket within reach of the node is free.
FullIsFull ==
  full => \E p \in Thread :
    /\ pc[p] # "idle"
    /\ \A e \in 0 .. size[p] * Attempts(size[p]) - 1 :
         index[StorageAddr((HashOf[key[p]] + e) % Width)] # None

\* A reference once published never changes its node: the place that a thread
\* fills before each lookup is not yet in any bucket.
RefsStable ==
  [][\A b \in Bucket : index[b] # None =>
       index'[b] = index[b] /\ data'[index[b].ref] = data[index[b].ref]]_vars

\* Find-or-put is atomic.
RefOf(k) ==
  IF \E b \in Bucket : Holds(b, k)
  THEN index[CHOOSE b \in Bucket : Holds(b, k)].ref ELSE None
NT == INSTANCE NodeTable WITH
  table <- [k \in Key |-> RefOf(k)],
  call <- [p \in Thread |-> IF pc[p] = "idle" THEN None ELSE key[p]]
ImplementsNodeTable == NT!Spec

\* Every lookup returns, or the program gives up.
LookupEnds == \A p \in Thread : pc[p] # "idle" ~> pc[p] = "idle" \/ full
=============================================================================
