---------------------------- MODULE OpCacheProofs ----------------------------
(***************************************************************************)
(* A hit of the operation cache is right, for any number of threads and    *)
(* keys and any collisions of buckets, tags and places, provided that the  *)
(* get of an entry takes its four words at one time (AtomicGet).           *)
(***************************************************************************)
EXTENDS OpCache, TLAPS

-----------------------------------------------------------------------------
(* The inductive invariant *)

Words == {Zero} \cup UNION {{k.a, k.b, k.c, Result[k]} : k \in Key}
Pointer == [tag : Tag, owner : Thread, place : Place]
Writing == {"put", "res", "c", "b", "a"}

OpTypeOK ==
  /\ index \in [Bucket -> Pointer \cup {Zero}]
  /\ entry \in [Thread -> [Place -> [Field -> Words]]]
  /\ pc \in [Thread -> {"idle", "check"} \cup Writing]
  /\ key \in [Thread -> Key \cup {Zero}]
  /\ DOMAIN copy = Thread /\ DOMAIN answer = Thread
  /\ from \in [Thread -> Pointer \cup {Zero}]

\* Four words that agree with an operation hold its result.
Right(a, b, c, res) == \A k \in Key : a = k.a /\ b = k.b /\ c = k.c => res = Result[k]

\* An entry is right at all times: while its words change, word a is clear.
EntriesRight ==
  \A q \in Thread : \A d \in Place :
    Right(entry[q][d]["a"], entry[q][d]["b"], entry[q][d]["c"], entry[q][d]["res"])

\* How far a writer is with its entry.
Mine(p) == entry[p][MyPlace(p)]
WriterOK(p) ==
  pc[p] \in Writing =>
    /\ Mine(p)["a"] = Zero
    /\ pc[p] \in {"c", "b", "a"} => Mine(p)["res"] = Result[key[p]]
    /\ pc[p] \in {"b", "a"} => Mine(p)["c"] = key[p].c
    /\ pc[p] = "a" => Mine(p)["b"] = key[p].b

CopyRight(p) ==
  DOMAIN copy[p] # {} =>
    /\ DOMAIN copy[p] = Field
    /\ Right(copy[p]["a"].val, copy[p]["b"], copy[p]["c"], copy[p]["res"])

OpInv ==
  /\ OpTypeOK
  /\ \A p \in Thread : pc[p] # "idle" => key[p] \in Key
  /\ EntriesRight
  /\ \A p \in Thread : WriterOK(p) /\ CopyRight(p)
  /\ HitRight

-----------------------------------------------------------------------------
(* Words and keys *)

\* Two keys with the same words are the same.
LEMMA KeyWords ==
  ASSUME NEW k \in Key, NEW l \in Key, k.a = l.a, k.b = l.b, k.c = l.c
  PROVE  k = l
<1>1. k = [a |-> k.a, b |-> k.b, c |-> k.c] /\ l = [a |-> l.a, b |-> l.b, c |-> l.c]
  BY KeyAssumption
<1> QED
  BY <1>1

LEMMA KeyPlaces ==
  ASSUME NEW k \in Key
  PROVE  /\ k.a \in Words /\ k.b \in Words /\ k.c \in Words /\ Result[k] \in Words /\ Zero \in Words
         /\ PlaceOf[k] \in Place /\ BucketOf[k] \in Bucket /\ TagOf[k] \in Tag /\ k.a # Zero
<1>1. {k.a, k.b, k.c, Result[k]} \subseteq Words /\ Zero \in Words
  BY DEF Words
<1> QED
  BY <1>1, KeyAssumption DEF Place, Bucket, Tag

\* A clear word a agrees with no operation.
LEMMA ClearRight == ASSUME NEW b, NEW c, NEW res PROVE Right(Zero, b, c, res)
  BY KeyAssumption DEF Right

LEMMA WholeRight == ASSUME NEW k \in Key PROVE Right(k.a, k.b, k.c, Result[k])
  BY KeyWords DEF Right

\* What a store to one word of the thread's own entry changes.
LEMMA WordWritten ==
  ASSUME OpInv, NEW p \in Thread, NEW d \in Place, NEW f \in Field, NEW v \in Words,
         entry' = [entry EXCEPT ![p][d][f] = v]
  PROVE  /\ entry' \in [Thread -> [Place -> [Field -> Words]]]
         /\ entry'[p][d][f] = v
         /\ \A g \in Field \ {f} : entry'[p][d][g] = entry[p][d][g]
         /\ \A e \in Place \ {d} : entry'[p][e] = entry[p][e]
         /\ \A q \in Thread \ {p} : entry'[q] = entry[q]
<1>1. entry \in [Thread -> [Place -> [Field -> Words]]]
  BY DEF OpInv, OpTypeOK
<1>2. entry' \in [Thread -> [Place -> [Field -> Words]]]
  BY <1>1
<1> QED
  BY <1>1, <1>2

-----------------------------------------------------------------------------
(* cache_put *)

\* A step of a put: its words stay right as long as word a is clear, and other
\* threads see nothing of it but the entry.
LEMMA PutStep ==
  ASSUME OpInv, NEW p \in Thread, OpTypeOK',
         UNCHANGED <<copy>>, \A q \in Thread \ {p} : key'[q] = key[q] /\ pc'[q] = pc[q],
         answer' = answer \/ answer' = [answer EXCEPT ![p] = Zero],
         pc'[p] # "idle" => key'[p] \in Key, WriterOK(p)',
         NEW d \in Place, \A q \in Thread \ {p} : entry'[q] = entry[q],
         \A e \in Place \ {d} : entry'[p][e] = entry[p][e],
         Right(entry[p][d]["a"], entry[p][d]["b"], entry[p][d]["c"], entry[p][d]["res"])'
  PROVE  OpInv'
<1>1. \A q \in Thread : pc'[q] # "idle" => key'[q] \in Key
  BY DEF OpInv
<1>2. EntriesRight'
  <2> SUFFICES ASSUME NEW q \in Thread, NEW e \in Place
               PROVE  Right(entry[q][e]["a"], entry[q][e]["b"], entry[q][e]["c"], entry[q][e]["res"])'
    BY DEF EntriesRight
  <2>1. CASE q = p /\ e = d
    BY <2>1
  <2>2. CASE ~(q = p /\ e = d)
    <3>1. entry'[q][e] = entry[q][e]
      BY <2>2
    <3>2. Right(entry[q][e]["a"], entry[q][e]["b"], entry[q][e]["c"], entry[q][e]["res"])
      BY DEF OpInv, EntriesRight
    <3> QED
      BY <3>1, <3>2 DEF Right
  <2> QED
    BY <2>1, <2>2
<1>3. ASSUME NEW q \in Thread PROVE WriterOK(q)'
  <2>1. CASE q = p
    BY <2>1
  <2>2. CASE q # p
    BY <2>2 DEF OpInv, WriterOK, Mine, MyPlace
  <2> QED
    BY <2>1, <2>2
<1>4. \A q \in Thread : CopyRight(q)'
  BY DEF OpInv, CopyRight, Right
<1>5. HitRight'
  BY DEF OpInv, HitRight, OpTypeOK
<1> QED
  BY <1>1, <1>2, <1>3, <1>4, <1>5 DEF OpInv

LEMMA PutLockRight ==
  ASSUME OpInv, NEW p \in Thread, NEW k \in Key, PutLock(p, k)
  PROVE  OpInv'
<1>1. PICK d \in Place : d = PlaceOf[k]
  BY KeyPlaces
<1>2. /\ pc' = [pc EXCEPT ![p] = "put"] /\ key' = [key EXCEPT ![p] = k]
      /\ answer' = [answer EXCEPT ![p] = Zero] /\ UNCHANGED <<index, lock, copy, from>>
      /\ entry' = [entry EXCEPT ![p][d]["a"] = Zero]
  BY <1>1 DEF PutLock, Goto
<1>3. /\ entry' \in [Thread -> [Place -> [Field -> Words]]]
      /\ entry'[p][d]["a"] = Zero
      /\ \A g \in Field \ {"a"} : entry'[p][d][g] = entry[p][d][g]
      /\ \A e \in Place \ {d} : entry'[p][e] = entry[p][e]
      /\ \A q \in Thread \ {p} : entry'[q] = entry[q]
  BY <1>2, KeyPlaces, WordWritten DEF Field
<1>4. OpTypeOK' /\ key'[p] = k /\ pc'[p] = "put"
      /\ \A q \in Thread \ {p} : key'[q] = key[q] /\ pc'[q] = pc[q]
  BY <1>2, <1>3 DEF OpInv, OpTypeOK, Writing
<1>5. WriterOK(p)'
  BY <1>1, <1>3, <1>4 DEF WriterOK, Mine, MyPlace
<1>6. Right(entry'[p][d]["a"], entry'[p][d]["b"], entry'[p][d]["c"], entry'[p][d]["res"])
  BY <1>3, ClearRight
<1>7. Right(entry[p][d]["a"], entry[p][d]["b"], entry[p][d]["c"], entry[p][d]["res"])'
  BY <1>6 DEF Right
<1>8. /\ pc'[p] # "idle" => key'[p] \in Key
      /\ answer' = answer \/ answer' = [answer EXCEPT ![p] = Zero]
      /\ UNCHANGED <<copy>>
  BY <1>2, <1>4
<1> QED
  BY <1>3, <1>4, <1>5, <1>7, <1>8, PutStep

\* The pointer of the bucket: to the entry being written, already cleared.
LEMMA PutIndexRight ==
  ASSUME OpInv, NEW p \in Thread, PutIndex(p)
  PROVE  OpInv'
<1>1. key[p] \in Key /\ pc[p] = "put"
  BY DEF OpInv, PutIndex
<1>2. /\ pc' = [pc EXCEPT ![p] = "res"] /\ UNCHANGED <<entry, lock, key, copy, from, answer>>
      /\ index' = [index EXCEPT ![BucketOf[key[p]]] =
                     [tag |-> TagOf[key[p]], owner |-> p, place |-> MyPlace(p)]]
  BY DEF PutIndex, Goto
<1>3. [tag |-> TagOf[key[p]], owner |-> p, place |-> MyPlace(p)] \in Pointer
  BY <1>1, KeyPlaces DEF Pointer, MyPlace
<1>4. OpTypeOK'
  BY <1>2, <1>3 DEF OpInv, OpTypeOK, Writing
<1>5. WriterOK(p)'
  BY <1>1, <1>2 DEF OpInv, OpTypeOK, WriterOK, Mine, MyPlace, Writing
<1>6. PICK d \in Place : d = MyPlace(p)
  BY <1>1, KeyPlaces DEF MyPlace
<1>7. Right(entry[p][d]["a"], entry[p][d]["b"], entry[p][d]["c"], entry[p][d]["res"])'
  BY <1>2 DEF OpInv, EntriesRight, Right
<1>8. pc'[p] = "res" /\ key'[p] \in Key
      /\ \A q \in Thread \ {p} : key'[q] = key[q] /\ pc'[q] = pc[q]
  BY <1>1, <1>2 DEF OpInv, OpTypeOK
<1> QED
  BY <1>2, <1>4, <1>5, <1>7, <1>8, PutStep

\* The words between, in the order of the code.
LEMMA PutWordRight ==
  ASSUME OpInv, NEW p \in Thread, PutRes(p) \/ PutC(p) \/ PutB(p)
  PROVE  OpInv'
<1>1. key[p] \in Key /\ pc[p] \in {"res", "c", "b"}
  BY DEF OpInv, PutRes, PutC, PutB
<1>2. PICK d \in Place : d = MyPlace(p)
  BY <1>1, KeyPlaces DEF MyPlace
<1>3. PICK f \in {"res", "c", "b"}, v \in Words :
        /\ entry' = [entry EXCEPT ![p][d][f] = v]
        /\ PutRes(p) => f = "res" /\ v = Result[key[p]]
        /\ PutC(p) => f = "c" /\ v = key[p].c
        /\ PutB(p) => f = "b" /\ v = key[p].b
  BY <1>1, <1>2, KeyPlaces DEF PutRes, PutC, PutB, Write
<1>4. /\ entry' \in [Thread -> [Place -> [Field -> Words]]]
      /\ entry'[p][d][f] = v
      /\ \A g \in Field \ {f} : entry'[p][d][g] = entry[p][d][g]
      /\ \A e \in Place \ {d} : entry'[p][e] = entry[p][e]
      /\ \A q \in Thread \ {p} : entry'[q] = entry[q]
  <2>1. f \in Field /\ entry' = [entry EXCEPT ![p][d][f] = v]
    BY <1>3 DEF Field
  <2> QED
    BY <2>1, WordWritten
<1>5. PICK l \in {"c", "b", "a"} :
        /\ pc' = [pc EXCEPT ![p] = l]
        /\ PutRes(p) => l = "c"
        /\ PutC(p) => l = "b"
        /\ PutB(p) => l = "a"
  BY DEF PutRes, PutC, PutB, Goto
<1>6. UNCHANGED <<index, lock, key, copy, from, answer>>
  BY DEF PutRes, PutC, PutB
<1>7. OpTypeOK' /\ pc'[p] = l /\ \A q \in Thread \ {p} : key'[q] = key[q] /\ pc'[q] = pc[q]
  BY <1>4, <1>5, <1>6 DEF OpInv, OpTypeOK, Writing
<1>8. WriterOK(p)
  BY DEF OpInv
<1>9. entry'[p][d]["a"] = Zero
  BY <1>1, <1>2, <1>4, <1>8 DEF WriterOK, Mine, Writing, Field
<1>10. WriterOK(p)'
  <2>1. MyPlace(p)' = d /\ key'[p] = key[p]
    BY <1>2, <1>6 DEF MyPlace
  <2>2. CASE PutRes(p)
    BY <2>1, <2>2, <1>3, <1>4, <1>5, <1>7, <1>9 DEF WriterOK, Mine
  <2>3. CASE PutC(p)
    BY <2>1, <2>3, <1>2, <1>3, <1>4, <1>5, <1>7, <1>8, <1>9 DEF WriterOK, Mine, PutC, Writing, Field
  <2>4. CASE PutB(p)
    BY <2>1, <2>4, <1>2, <1>3, <1>4, <1>5, <1>7, <1>8, <1>9 DEF WriterOK, Mine, PutB, Writing, Field
  <2> QED
    BY <2>2, <2>3, <2>4
<1>11. Right(entry[p][d]["a"], entry[p][d]["b"], entry[p][d]["c"], entry[p][d]["res"])'
  BY <1>9, KeyAssumption DEF Right
<1> QED
  BY <1>1, <1>4, <1>6, <1>7, <1>10, <1>11, PutStep

\* Word a comes last: the entry is whole then.
LEMMA PutARight ==
  ASSUME OpInv, NEW p \in Thread, PutA(p)
  PROVE  OpInv'
<1>1. key[p] \in Key /\ pc[p] = "a"
  BY DEF OpInv, PutA
<1>2. PICK d \in Place : d = MyPlace(p)
  BY <1>1, KeyPlaces DEF MyPlace
<1>3. /\ entry' = [entry EXCEPT ![p][d]["a"] = key[p].a] /\ pc' = [pc EXCEPT ![p] = "idle"]
      /\ key' = [key EXCEPT ![p] = Zero] /\ UNCHANGED <<index, copy, from, answer>>
  BY <1>2 DEF PutA, Write, Goto
<1>4. /\ entry' \in [Thread -> [Place -> [Field -> Words]]]
      /\ entry'[p][d]["a"] = key[p].a
      /\ \A g \in Field \ {"a"} : entry'[p][d][g] = entry[p][d][g]
      /\ \A e \in Place \ {d} : entry'[p][e] = entry[p][e]
      /\ \A q \in Thread \ {p} : entry'[q] = entry[q]
  BY <1>1, <1>3, KeyPlaces, WordWritten DEF Field
<1>5. OpTypeOK' /\ pc'[p] = "idle" /\ \A q \in Thread \ {p} : key'[q] = key[q] /\ pc'[q] = pc[q]
  BY <1>3, <1>4 DEF OpInv, OpTypeOK
<1>6. WriterOK(p)'
  BY <1>5 DEF WriterOK, Writing
<1>7. /\ entry[p][d]["b"] = key[p].b /\ entry[p][d]["c"] = key[p].c
      /\ entry[p][d]["res"] = Result[key[p]]
  BY <1>1, <1>2 DEF OpInv, WriterOK, Mine, Writing
<1>8. /\ entry'[p][d]["b"] = key[p].b /\ entry'[p][d]["c"] = key[p].c
      /\ entry'[p][d]["res"] = Result[key[p]]
  BY <1>4, <1>7 DEF Field
<1>9. Right(entry'[p][d]["a"], entry'[p][d]["b"], entry'[p][d]["c"], entry'[p][d]["res"])
  BY <1>1, <1>4, <1>8, WholeRight
<1>10. Right(entry[p][d]["a"], entry[p][d]["b"], entry[p][d]["c"], entry[p][d]["res"])'
  BY <1>9 DEF Right
<1> QED
  BY <1>3, <1>4, <1>5, <1>6, <1>10, PutStep

-----------------------------------------------------------------------------
(* cache_request, cache_sync and cache_check *)

\* A step of a get writes no shared word.
LEMMA GetStep ==
  ASSUME OpInv, NEW p \in Thread, OpTypeOK', UNCHANGED <<index, entry, lock>>,
         \A q \in Thread \ {p} : /\ key'[q] = key[q] /\ pc'[q] = pc[q]
                                 /\ copy'[q] = copy[q] /\ answer'[q] = answer[q],
         pc'[p] \in {"idle", "check"}, pc'[p] # "idle" => key'[p] \in Key,
         CopyRight(p)', answer'[p] # Zero => answer'[p][2] = Result[answer'[p][1]]
  PROVE  OpInv'
<1>1. \A q \in Thread : pc'[q] # "idle" => key'[q] \in Key
  BY DEF OpInv
<1>2. EntriesRight'
  BY DEF OpInv, EntriesRight, Right
<1>3. ASSUME NEW q \in Thread PROVE WriterOK(q)'
  <2>1. CASE q = p
    BY <2>1 DEF WriterOK, Writing
  <2>2. CASE q # p
    BY <2>2 DEF OpInv, WriterOK, Mine, MyPlace
  <2> QED
    BY <2>1, <2>2
<1>4. ASSUME NEW q \in Thread PROVE CopyRight(q)'
  <2>1. CASE q = p
    BY <2>1
  <2>2. CASE q # p
    BY <2>2 DEF OpInv, CopyRight, Right
  <2> QED
    BY <2>1, <2>2
<1>5. HitRight'
  BY DEF OpInv, HitRight
<1> QED
  BY <1>1, <1>2, <1>3, <1>4, <1>5 DEF OpInv

LEMMA RequestRight ==
  ASSUME OpInv, NEW p \in Thread, NEW k \in Key, Request(p, k)
  PROVE  OpInv'
<1>1. /\ pc' = [pc EXCEPT ![p] = "check"] /\ key' = [key EXCEPT ![p] = k]
      /\ from' = [from EXCEPT ![p] = index[BucketOf[k]]]
      /\ answer' = [answer EXCEPT ![p] = Zero] /\ UNCHANGED <<index, entry, lock, copy>>
  BY DEF Request, Goto
<1>2. index[BucketOf[k]] \in Pointer \cup {Zero}
  BY KeyPlaces DEF OpInv, OpTypeOK
<1>3. OpTypeOK'
  BY <1>1, <1>2 DEF OpInv, OpTypeOK
<1>4. CopyRight(p)'
  BY <1>1 DEF OpInv, CopyRight, Right
<1> QED
  BY <1>1, <1>3, <1>4, GetStep DEF OpInv, OpTypeOK

\* The end of a get, which forgets the copy, the pointer and the key.
LEMMA FinishRight ==
  ASSUME OpInv, NEW p \in Thread, NEW ans, Finish(p, ans), ans # Zero => ans[2] = Result[ans[1]]
  PROVE  OpInv'
<1>1. /\ answer' = [answer EXCEPT ![p] = ans] /\ key' = [key EXCEPT ![p] = Zero]
      /\ from' = [from EXCEPT ![p] = Zero] /\ copy' = [copy EXCEPT ![p] = << >>]
      /\ pc' = [pc EXCEPT ![p] = "idle"] /\ UNCHANGED <<index, entry, lock>>
  BY DEF Finish, Goto
<1>2. OpTypeOK'
  BY <1>1 DEF OpInv, OpTypeOK
<1>3. copy'[p] = << >> /\ DOMAIN << >> = {}
  BY <1>1 DEF OpInv, OpTypeOK
<1>4. CopyRight(p)'
  BY <1>3 DEF CopyRight
<1> QED
  BY <1>1, <1>2, <1>4, GetStep DEF OpInv, OpTypeOK

LEMMA MissRight ==
  ASSUME OpInv, NEW p \in Thread, Miss(p)
  PROVE  OpInv'
  BY FinishRight DEF Miss

\* The four words of one time are the words of an entry, which is right.
LEMMA GetEntryRight ==
  ASSUME OpInv, AtomicGet, NEW p \in Thread, GetEntry(p)
  PROVE  OpInv'
<1>1. Get(p, Field)
  BY DEF GetEntry
<1>2. from[p] \in Pointer /\ pc[p] = "check"
  BY <1>1 DEF Get, TagMatches, OpInv, OpTypeOK
<1>3. PICK q \in Thread, d \in Place : from[p].owner = q /\ from[p].place = d
  BY <1>2 DEF Pointer
<1>4. DOMAIN copy[p] = {}
  BY <1>1 DEF Get, OpInv, CopyRight, Field
<1>5. copy' = [copy EXCEPT ![p] = [f \in Field |-> Word(q, d, f)]]
  <2>1. copy' = [copy EXCEPT ![p] = [f \in DOMAIN copy[p] \cup Field |->
                   IF f \in Field THEN Word(from[p].owner, from[p].place, f) ELSE copy[p][f]]]
    BY <1>1 DEF Get
  <2>2. [f \in DOMAIN copy[p] \cup Field |->
           IF f \in Field THEN Word(from[p].owner, from[p].place, f) ELSE copy[p][f]]
        = [f \in Field |-> Word(q, d, f)]
    BY <1>3, <1>4
  <2> QED
    BY <2>1, <2>2
<1>6. UNCHANGED <<index, entry, lock, pc, key, from, answer>>
  BY <1>1 DEF Get
<1>7. OpTypeOK'
  BY <1>5, <1>6 DEF OpInv, OpTypeOK
<1>8. copy'[p] = [f \in Field |-> Word(q, d, f)] /\ \A r \in Thread \ {p} : copy'[r] = copy[r]
  BY <1>5 DEF OpInv, OpTypeOK
<1>9. /\ copy'[p]["a"].val = entry[q][d]["a"] /\ copy'[p]["b"] = entry[q][d]["b"]
      /\ copy'[p]["c"] = entry[q][d]["c"] /\ copy'[p]["res"] = entry[q][d]["res"]
  BY <1>8 DEF Field, Word
<1>10. Right(entry[q][d]["a"], entry[q][d]["b"], entry[q][d]["c"], entry[q][d]["res"])
  BY DEF OpInv, EntriesRight
<1>11. CopyRight(p)'
  BY <1>8, <1>9, <1>10 DEF CopyRight, Right
<1> QED
  BY <1>2, <1>6, <1>7, <1>8, <1>11, GetStep DEF OpInv, HitRight

LEMMA CheckRight ==
  ASSUME OpInv, NEW p \in Thread, Check(p)
  PROVE  OpInv'
<1>1. PICK ans : /\ Finish(p, ans)
                 /\ ans = IF KeyMatches(p) THEN <<key[p], copy[p]["res"]>> ELSE Zero
  BY DEF Check
<1>2. pc[p] = "check" /\ DOMAIN copy[p] = Field
  BY DEF Check, Got
<1>3. key[p] \in Key
  BY <1>2 DEF OpInv
<1>4. Right(copy[p]["a"].val, copy[p]["b"], copy[p]["c"], copy[p]["res"])
  BY <1>2 DEF OpInv, CopyRight, Field
<1>5. KeyMatches(p) => copy[p]["res"] = Result[key[p]]
  BY <1>3, <1>4 DEF KeyMatches, Right
<1>6. ans # Zero => ans[2] = Result[ans[1]]
  BY <1>1, <1>5
<1> QED
  BY <1>1, <1>6, FinishRight

-----------------------------------------------------------------------------
(* The property *)

LEMMA OpInit == Init => OpInv
<1> SUFFICES ASSUME Init PROVE OpInv
  OBVIOUS
<1>1. OpTypeOK
  BY DEF Init, OpTypeOK, Words
<1>2. EntriesRight
  <2> SUFFICES ASSUME NEW q \in Thread, NEW d \in Place
               PROVE  Right(entry[q][d]["a"], entry[q][d]["b"], entry[q][d]["c"], entry[q][d]["res"])
    BY DEF EntriesRight
  <2>1. entry[q][d]["a"] = Zero
    BY DEF Init, Field
  <2> QED
    BY <2>1, ClearRight
<1>3. DOMAIN << >> = {}
  OBVIOUS
<1>4. \A p \in Thread : WriterOK(p) /\ CopyRight(p)
  BY <1>3 DEF Init, WriterOK, CopyRight, Writing
<1> QED
  BY <1>1, <1>2, <1>4 DEF Init, OpInv, HitRight

LEMMA OpNext == ASSUME AtomicGet, OpInv, [Next]_vars PROVE OpInv'
<1>1. CASE Next
  <2> PICK p \in Thread :
        \/ \E k \in Key : PutLock(p, k) \/ Request(p, k)
        \/ PutIndex(p) \/ PutRes(p) \/ PutC(p) \/ PutB(p) \/ PutA(p)
        \/ Miss(p) \/ GetEntry(p) \/ Check(p)
    BY <1>1 DEF Next
  <2>1. ASSUME NEW k \in Key, PutLock(p, k) PROVE OpInv'
    BY <2>1, PutLockRight
  <2>2. ASSUME NEW k \in Key, Request(p, k) PROVE OpInv'
    BY <2>2, RequestRight
  <2>3. CASE PutIndex(p)
    BY <2>3, PutIndexRight
  <2>4. CASE PutRes(p) \/ PutC(p) \/ PutB(p)
    BY <2>4, PutWordRight
  <2>5. CASE PutA(p)
    BY <2>5, PutARight
  <2>6. CASE Miss(p)
    BY <2>6, MissRight
  <2>7. CASE GetEntry(p)
    BY <2>7, GetEntryRight
  <2>8. CASE Check(p)
    BY <2>8, CheckRight
  <2> QED
    BY <2>1, <2>2, <2>3, <2>4, <2>5, <2>6, <2>7, <2>8
<1>2. CASE UNCHANGED vars
  BY <1>2 DEF vars, OpInv, OpTypeOK, EntriesRight, WriterOK, CopyRight, HitRight, Right, Mine, MyPlace
<1> QED
  BY <1>1, <1>2

\* A hit returns the result of the operation that was asked for, whatever other
\* threads put into the bucket and the entry meanwhile, if a get takes the entry
\* at one time: cache_put clears word a first and writes it last.
THEOREM HitRightHolds == ASSUME AtomicGet PROVE Spec => []HitRight
<1>1. OpInv /\ [Next]_vars => OpInv'
  BY OpNext
<1>2. OpInv => HitRight
  BY DEF OpInv
<1> QED
  BY OpInit, <1>1, <1>2, PTL DEF Spec
=============================================================================
