------------------------------ MODULE NodeTable ------------------------------
(***************************************************************************)
(* What the shared node table promises: a concurrent map from BDD nodes to *)
(* references in which find-or-put is atomic.  Equal nodes get equal       *)
(* references, different nodes different ones, forever: this is what makes *)
(* two BDDs equal exactly when their references are.                       *)
(***************************************************************************)
CONSTANTS Thread, Key, Ref,
          None      \* neither a key nor a reference

VARIABLES table,   \* the reference of each key, or None
          call,    \* per thread: the key it looks up, or None
          answer   \* per thread: the answer to its last lookup, or None

ntVars == <<table, call, answer>>

Init ==
  /\ table = [k \in Key |-> None]
  /\ call = [p \in Thread |-> None]
  /\ answer = [p \in Thread |-> None]

Call(p, k) ==
  /\ call[p] = None
  /\ call' = [call EXCEPT ![p] = k]
  /\ answer' = [answer EXCEPT ![p] = None]
  /\ UNCHANGED table

Answer(p, ref, inserted) ==
  /\ call' = [call EXCEPT ![p] = None]
  /\ answer' = [answer EXCEPT ![p] =
                  [key |-> call[p], ref |-> ref, inserted |-> inserted]]

Insert(p, r) ==
  /\ call[p] \in Key
  /\ table[call[p]] = None
  /\ \A k \in Key : table[k] # r
  /\ table' = [table EXCEPT ![call[p]] = r]
  /\ Answer(p, r, TRUE)

Find(p) ==
  /\ call[p] \in Key
  /\ table[call[p]] # None
  /\ Answer(p, table[call[p]], FALSE)
  /\ UNCHANGED table

Next == \E p \in Thread :
  \/ \E k \in Key : Call(p, k)
  \/ \E r \in Ref : Insert(p, r)
  \/ Find(p)

Spec == Init /\ [][Next]_ntVars
=============================================================================
