------------------------------- MODULE OpCache -------------------------------
(***************************************************************************)
(* The operation cache of cache.c: a lossy map from (operation, operands)  *)
(* to results.  A bucket of the shared index gives a tag and the place of  *)
(* an entry of four words <<a, b, c, res>>; each thread writes entries     *)
(* only in its own part of the data array, any thread reads them.          *)
(*                                                                         *)
(* cache_put writes the words of an entry one by one, in the order of the  *)
(* code; before that it means to lock the entry through a bit of word a.   *)
(* AtomicGet says whether the get of a remote entry takes all four words   *)
(* at one time, or word by word, which is all that UPC promises.           *)
(***************************************************************************)
EXTENDS Naturals

CONSTANTS
  Thread,
  Key,         \* operands with the operation's code: records [a, b, c]
  Result,      \* the result of each operation
  BucketOf,    \* cache_hash(a, b, c) % TOTAL_CACHE_SIZE
  TagOf,       \* h & CACHE_INDEX_HASH
  PlaceOf,     \* data_i, the place in the writer's part of the data array
  AtomicGet,
  Zero         \* the contents of fresh memory

ASSUME KeyAssumption ==
  /\ \A k \in Key : k = [a |-> k.a, b |-> k.b, c |-> k.c] /\ k.a # Zero
  /\ DOMAIN Result = Key /\ DOMAIN BucketOf = Key
  /\ DOMAIN TagOf = Key /\ DOMAIN PlaceOf = Key
  /\ AtomicGet \in BOOLEAN

Bucket == {BucketOf[k] : k \in Key}
Place == {PlaceOf[k] : k \in Key}
Tag == {TagOf[k] : k \in Key}
Field == {"a", "b", "c", "res"}

VARIABLES
  index,   \* cache_index: per bucket [tag, owner, place], or Zero
  entry,   \* cache_data: per thread and place, the words
  lock,    \* the lock bit of word a
  pc, key, \* per thread
  copy,    \* per thread: the words of the entry got so far
  from,    \* per thread: the bucket's contents as requested, request_data
  answer   \* per thread: <<key, result>> of the last hit, or Zero

vars == <<index, entry, lock, pc, key, copy, from, answer>>

Init ==
  /\ index = [b \in Bucket |-> Zero]
  /\ entry = [p \in Thread |-> [d \in Place |-> [f \in Field |-> Zero]]]
  /\ lock = [p \in Thread |-> [d \in Place |-> FALSE]]
  /\ pc = [p \in Thread |-> "idle"]
  /\ key = [p \in Thread |-> Zero]
  /\ copy = [p \in Thread |-> << >>]
  /\ from = [p \in Thread |-> Zero]
  /\ answer = [p \in Thread |-> Zero]

Goto(p, l) == pc' = [pc EXCEPT ![p] = l]
MyPlace(p) == PlaceOf[key[p]]
Write(p, f, v) == entry' = [entry EXCEPT ![p][MyPlace(p)][f] = v]

-----------------------------------------------------------------------------
(* cache_put *)

\* Faulty variant: word a keeps its value while the others are written.
PutLock_Not(p, k) ==
  /\ pc[p] = "idle"
  /\ key' = [key EXCEPT ![p] = k]
  /\ answer' = [answer EXCEPT ![p] = Zero]
  /\ Goto(p, "put")
  /\ UNCHANGED <<index, entry, lock, copy, from>>

\* entry_p->a &= CACHE_LOCK_MASK: clears the word and leaves the bit as it was.
PutLock(p, k) ==
  /\ pc[p] = "idle"
  /\ key' = [key EXCEPT ![p] = k]
  /\ answer' = [answer EXCEPT ![p] = Zero]
  /\ entry' = [entry EXCEPT ![p][PlaceOf[k]]["a"] = Zero]
  /\ Goto(p, "put")
  /\ UNCHANGED <<index, lock, copy, from>>

PutIndex(p) ==
  /\ pc[p] = "put"
  /\ index' = [index EXCEPT ![BucketOf[key[p]]] =
                 [tag |-> TagOf[key[p]], owner |-> p, place |-> MyPlace(p)]]
  /\ Goto(p, "res")
  /\ UNCHANGED <<entry, lock, key, copy, from, answer>>

\* The words in turn; a word a without the lock bit comes last.
PutRes(p) ==
  /\ pc[p] = "res"
  /\ Write(p, "res", Result[key[p]])
  /\ Goto(p, "c")
  /\ UNCHANGED <<index, lock, key, copy, from, answer>>

PutC(p) ==
  /\ pc[p] = "c"
  /\ Write(p, "c", key[p].c)
  /\ Goto(p, "b")
  /\ UNCHANGED <<index, lock, key, copy, from, answer>>

PutB(p) ==
  /\ pc[p] = "b"
  /\ Write(p, "b", key[p].b)
  /\ Goto(p, "a")
  /\ UNCHANGED <<index, lock, key, copy, from, answer>>

PutA(p) ==
  /\ pc[p] = "a"
  /\ Write(p, "a", key[p].a)
  /\ lock' = [lock EXCEPT ![p][MyPlace(p)] = FALSE]
  /\ key' = [key EXCEPT ![p] = Zero]
  /\ Goto(p, "idle")
  /\ UNCHANGED <<index, copy, from, answer>>

-----------------------------------------------------------------------------
(* cache_request, cache_sync and cache_check *)

Request(p, k) ==
  /\ pc[p] = "idle"
  /\ key' = [key EXCEPT ![p] = k]
  /\ from' = [from EXCEPT ![p] = index[BucketOf[k]]]
  /\ answer' = [answer EXCEPT ![p] = Zero]
  /\ Goto(p, "check")
  /\ UNCHANGED <<index, entry, lock, copy>>

TagMatches(p) == from[p] # Zero /\ from[p].tag = TagOf[key[p]]

Finish(p, ans) ==
  /\ answer' = [answer EXCEPT ![p] = ans]
  /\ key' = [key EXCEPT ![p] = Zero]
  /\ from' = [from EXCEPT ![p] = Zero]
  /\ copy' = [copy EXCEPT ![p] = << >>]
  /\ Goto(p, "idle")
  /\ UNCHANGED <<index, entry, lock>>

Miss(p) == pc[p] = "check" /\ ~TagMatches(p) /\ Finish(p, Zero)

\* What a get of field f sees: word a comes with its lock bit.
Word(q, d, f) ==
  IF f = "a" THEN [val |-> entry[q][d]["a"], locked |-> lock[q][d]] ELSE entry[q][d][f]

Get(p, fields) ==
  /\ pc[p] = "check" /\ TagMatches(p)
  /\ fields \cap DOMAIN copy[p] = {}
  /\ copy' = [copy EXCEPT ![p] =
       [f \in DOMAIN @ \cup fields |->
          IF f \in fields THEN Word(from[p].owner, from[p].place, f) ELSE @[f]]]
  /\ UNCHANGED <<index, entry, lock, pc, key, from, answer>>

GetEntry(p) == IF AtomicGet THEN Get(p, Field) ELSE \E f \in Field : Get(p, {f})

Got(p) == pc[p] = "check" /\ DOMAIN copy[p] = Field

\* Not locked, and the same operands.
KeyMatches(p) ==
  /\ ~copy[p]["a"].locked
  /\ copy[p]["a"].val = key[p].a
  /\ copy[p]["b"] = key[p].b
  /\ copy[p]["c"] = key[p].c

Check(p) ==
  /\ Got(p)
  /\ Finish(p, IF KeyMatches(p) THEN <<key[p], copy[p]["res"]>> ELSE Zero)

Next == \E p \in Thread :
  \/ \E k \in Key : PutLock(p, k) \/ Request(p, k)
  \/ PutIndex(p) \/ PutRes(p) \/ PutC(p) \/ PutB(p) \/ PutA(p)
  \/ Miss(p) \/ GetEntry(p) \/ Check(p)

Spec == Init /\ [][Next]_vars

-----------------------------------------------------------------------------
(* Properties *)

\* A hit returns the result of the operation that was asked for, although the
\* bucket, the entry it points to and the words of that entry may each have
\* been overwritten by puts of other operations since they were read.
HitRight ==
  \A p \in Thread : answer[p] # Zero => answer[p][2] = Result[answer[p][1]]
=============================================================================
