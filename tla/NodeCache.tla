------------------------------ MODULE NodeCache ------------------------------
(***************************************************************************)
(* The node cache of nodecache.c: copies of remote nodes that the threads  *)
(* of one machine share.  The model is of one entry, and of the references *)
(* that hash to it.  An entry is a reference word, which carries the lock  *)
(* bit, and the two words of the node; a get copies the three words        *)
(* without any synchronisation, a put writes them one after another.       *)
(***************************************************************************)
EXTENDS Naturals

CONSTANTS
  Thread,
  Ref,     \* the remote references that hash to the entry
  NoRef    \* the contents of fresh memory, not a reference

\* The two words of the node that ref refers to in the shared table.
Half == {1, 2}
NodeWord(ref, h) == <<ref, h>>

VARIABLES
  ref, locked,   \* the reference word
  node,          \* the node's words
  pc,            \* per thread
  arg,           \* per thread: the reference of its call
  cur,           \* per thread: the reference word that nodecache_put read
  copy,          \* per thread: the words that nodecache_get copied
  answer         \* per thread: <<reference, node>> of the last hit, or NoRef

vars == <<ref, locked, node, pc, arg, cur, copy, answer>>

Init ==
  /\ ref = NoRef
  /\ locked = FALSE
  /\ node = [h \in Half |-> NodeWord(NoRef, h)]
  /\ pc = [p \in Thread |-> "idle"]
  /\ arg = [p \in Thread |-> NoRef]
  /\ cur = [p \in Thread |-> <<NoRef, FALSE>>]
  /\ copy = [p \in Thread |-> << >>]
  /\ answer = [p \in Thread |-> NoRef]

Goto(p, l) == pc' = [pc EXCEPT ![p] = l]
Done(p) ==
  /\ Goto(p, "idle")
  /\ arg' = [arg EXCEPT ![p] = NoRef]
  /\ cur' = [cur EXCEPT ![p] = <<NoRef, FALSE>>]

-----------------------------------------------------------------------------
(* nodecache_put *)

PutRead(p, r) ==
  /\ pc[p] = "idle"
  /\ arg' = [arg EXCEPT ![p] = r]
  /\ cur' = [cur EXCEPT ![p] = <<ref, locked>>]
  /\ answer' = [answer EXCEPT ![p] = NoRef]
  /\ Goto(p, "cas")
  /\ UNCHANGED <<ref, locked, node, copy>>

\* Any reference word may be replaced, a locked one as well.
PutCasWon(p) ==
  /\ pc[p] = "cas"
  /\ cur[p] = <<ref, locked>>
  /\ ref' = arg[p] /\ locked' = TRUE
  /\ Goto(p, "half1")
  /\ UNCHANGED <<node, arg, cur, copy, answer>>

PutCasLost(p) ==
  /\ pc[p] = "cas"
  /\ cur[p] # <<ref, locked>>
  /\ Done(p)
  /\ UNCHANGED <<ref, locked, node, copy, answer>>

PutHalf(p, h) ==
  /\ pc[p] = IF h = 1 THEN "half1" ELSE "half2"
  /\ node' = [node EXCEPT ![h] = NodeWord(arg[p], h)]
  /\ Goto(p, IF h = 1 THEN "half2" ELSE "unlock")
  /\ UNCHANGED <<ref, locked, arg, cur, copy, answer>>

PutUnlock(p) ==
  /\ pc[p] = "unlock"
  /\ ref' = arg[p] /\ locked' = FALSE
  /\ Done(p)
  /\ UNCHANGED <<node, copy, answer>>

-----------------------------------------------------------------------------
(* nodecache_get: the entry is copied word by word, then its reference     *)
(* word is compared.                                                       *)

GetBegin(p, r) ==
  /\ pc[p] = "idle"
  /\ arg' = [arg EXCEPT ![p] = r]
  /\ answer' = [answer EXCEPT ![p] = NoRef]
  /\ Goto(p, "copy")
  /\ UNCHANGED <<ref, locked, node, cur, copy>>

Copied(p) == pc[p] = "copy" /\ DOMAIN copy[p] = {0, 1, 2}

GetWord(p, w) ==
  /\ pc[p] = "copy"
  /\ w \in {0, 1, 2} \ DOMAIN copy[p]
  /\ copy' = [copy EXCEPT ![p] =
       [x \in DOMAIN @ \cup {w} |->
          IF x # w THEN @[x] ELSE IF w = 0 THEN <<ref, locked>> ELSE node[w]]]
  /\ UNCHANGED <<ref, locked, node, pc, arg, cur, answer>>

GetCompare(p) ==
  /\ Copied(p)
  /\ answer' = [answer EXCEPT ![p] =
       IF copy[p][0] = <<arg[p], FALSE>>
       THEN <<arg[p], <<copy[p][1], copy[p][2]>> >> ELSE NoRef]
  /\ copy' = [copy EXCEPT ![p] = << >>]
  /\ Done(p)
  /\ UNCHANGED <<ref, locked, node>>

Put(p) ==
  \/ \E r \in Ref : PutRead(p, r)
  \/ PutCasWon(p) \/ PutCasLost(p)
  \/ \E h \in Half : PutHalf(p, h)
  \/ PutUnlock(p)

Get(p) ==
  \/ \E r \in Ref : GetBegin(p, r)
  \/ \E w \in {0, 1, 2} : GetWord(p, w)
  \/ GetCompare(p)

Next == \E p \in Thread : Put(p) \/ Get(p)

Spec == Init /\ [][Next]_vars

-----------------------------------------------------------------------------
(* Properties *)

\* The lock excludes writers from each other: when no put is under way, the
\* words of the entry are those of the node that its reference stands for.
\* nodecache.h calls the bit one used "for locking"; two puts that both find
\* the entry locked or unlocked as they read it, one after the other's
\* compare-and-swap, write it at the same time.
WholeAtRest ==
  (ref # NoRef /\ \A p \in Thread : pc[p] \in {"idle", "cas", "copy"}) =>
    \A h \in Half : node[h] = NodeWord(ref, h)
=============================================================================
