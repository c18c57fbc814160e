------------------------- MODULE WorkStealingProofs -------------------------
(***************************************************************************)
(* Theorems about WorkStealing, for any number of threads, request slots,  *)
(* tasks and rounds: every request for work is answered exactly once.      *)
(***************************************************************************)
EXTENDS WorkStealing, FiniteSetTheorems, TLAPS

\* The variables of the request protocol have their types.
ProtocolTypes ==
  /\ request \in [Thread -> [Slot -> Thread \cup {Free, Block}]]
  /\ \A m \in net : m.to \in Thread
  /\ IsFiniteSet(net)
  /\ sem \in [Thread -> Nat]
  /\ trying \in [Thread -> {"no", "cas", "wait"}]
  /\ poll \in [Thread -> Slot \cup {0}]

ProtocolInv == ProtocolTypes /\ OneAnswer

-----------------------------------------------------------------------------
(* Counting requests and replies *)

LEMMA SlotFinite == IsFiniteSet(Slot)
  BY BoundAssumption, FS_Interval DEF Slot

\* Both counts are numbers.
LEMMA CountTypes ==
  ASSUME ProtocolTypes, NEW q \in Thread
  PROVE  /\ IsFiniteSet(Requests(q)) /\ Cardinality(Requests(q)) \in Nat
         /\ IsFiniteSet(Replies(q)) /\ Cardinality(Replies(q)) \in Nat
         /\ sem[q] \in Nat
<1>1. IsFiniteSet(Thread \X Slot)
  BY SlotFinite, ThreadAssumption, FS_Product
<1>2. Requests(q) \in SUBSET (Thread \X Slot) /\ Replies(q) \in SUBSET net /\ IsFiniteSet(net)
  BY DEF Requests, Replies, ProtocolTypes
<1>3. IsFiniteSet(Requests(q)) /\ IsFiniteSet(Replies(q))
  BY <1>1, <1>2, FS_Subset
<1> QED
  BY <1>3, FS_CardinalityType DEF ProtocolTypes

\* Writing one slot takes the request of the thread that was in it and puts
\* that of the thread written.
LEMMA WriteSlot ==
  ASSUME ProtocolTypes, NEW p \in Thread, NEW s \in Slot,
         NEW v \in Thread \cup {Free, Block},
         request' = [request EXCEPT ![p][s] = v]
  PROVE  /\ request' \in [Thread -> [Slot -> Thread \cup {Free, Block}]]
         /\ \A q \in Thread :
              Requests(q)' = IF v = q THEN Requests(q) \cup {<<p, s>>}
                                      ELSE Requests(q) \ {<<p, s>>}
<1>1. request' \in [Thread -> [Slot -> Thread \cup {Free, Block}]]
  BY DEF ProtocolTypes
<1>2. \A r \in Thread, u \in Slot :
        request'[r][u] = IF r = p /\ u = s THEN v ELSE request[r][u]
  BY DEF ProtocolTypes
<1>3. ASSUME NEW q \in Thread
      PROVE  Requests(q)' = IF v = q THEN Requests(q) \cup {<<p, s>>}
                                     ELSE Requests(q) \ {<<p, s>>}
  BY <1>2 DEF Requests
<1> QED
  BY <1>1, <1>3

\* The count of each thread: what OneAnswer sums up.
Count(q) == Cardinality(Requests(q)) + Cardinality(Replies(q)) + sem[q]

\* Exchanging Free and Block changes no count.
LEMMA NoRequestWritten ==
  ASSUME ProtocolTypes, NEW p \in Thread, NEW s \in Slot,
         request[p][s] \notin Thread, NEW v \in {Free, Block},
         request' = [request EXCEPT ![p][s] = v], net' = net, sem' = sem
  PROVE  /\ request' \in [Thread -> [Slot -> Thread \cup {Free, Block}]]
         /\ \A q \in Thread : Count(q)' = Count(q)
<1>1. /\ request' \in [Thread -> [Slot -> Thread \cup {Free, Block}]]
      /\ \A q \in Thread :
           Requests(q)' = IF v = q THEN Requests(q) \cup {<<p, s>>}
                                   ELSE Requests(q) \ {<<p, s>>}
  BY WriteSlot
<1>2. ASSUME NEW q \in Thread PROVE Requests(q)' = Requests(q) /\ Replies(q)' = Replies(q)
  <2>1. v # q /\ <<p, s>> \notin Requests(q)
    BY ThreadAssumption DEF Requests
  <2>2. Requests(q)' = Requests(q) \ {<<p, s>>}
    BY <1>1, <2>1
  <2>3. Requests(q)' = Requests(q)
    BY <2>1, <2>2
  <2>4. Replies(q)' = Replies(q)
    BY DEF Replies
  <2> QED
    BY <2>3, <2>4
<1> QED
  BY <1>1, <1>2 DEF Count

\* An answer moves a request from its slot to the network.
LEMMA Answered ==
  ASSUME ProtocolTypes, OneAnswer, NEW p \in Thread, NEW s \in Slot, NEW src,
         request[p][s] \in Thread, NEW v \in {Free, Block},
         request' = [request EXCEPT ![p][s] = v],
         Reply(request[p][s], src), sem' = sem
  PROVE  /\ request' \in [Thread -> [Slot -> Thread \cup {Free, Block}]]
         /\ \A m \in net' : m.to \in Thread
         /\ IsFiniteSet(net')
         /\ \A q \in Thread : Count(q)' = Count(q)
<1> DEFINE t == request[p][s]
           m == [to |-> t, src |-> src]
<1>1. /\ request' \in [Thread -> [Slot -> Thread \cup {Free, Block}]]
      /\ \A q \in Thread :
           Requests(q)' = IF v = q THEN Requests(q) \cup {<<p, s>>}
                                   ELSE Requests(q) \ {<<p, s>>}
  BY WriteSlot
<1>2. net' = net \cup {m} /\ m.to = t /\ t \in Thread
  BY DEF Reply
<1>3. (\A n \in net' : n.to \in Thread) /\ IsFiniteSet(net')
  BY <1>2, FS_AddElement DEF ProtocolTypes
<1>4. ASSUME NEW q \in Thread PROVE Count(q)' = Count(q)
  <2>1. v # q
    BY ThreadAssumption
  <2>2. Requests(q)' = Requests(q) \ {<<p, s>>}
    BY <1>1, <2>1
  <2>3. CASE q # t
    <3>1. Requests(q)' = Requests(q)
      BY <2>2, <2>3 DEF Requests
    <3>2. Replies(q)' = Replies(q)
      BY <1>2, <2>3 DEF Replies
    <3> QED
      BY <3>1, <3>2 DEF Count
  <2>4. CASE q = t
    <3>1. <<p, s>> \in Requests(q)
      BY <2>4 DEF Requests
    <3>2. Cardinality(Requests(q)) \in Nat /\ Cardinality(Replies(q)) \in Nat
          /\ sem[q] \in Nat /\ IsFiniteSet(Requests(q)) /\ IsFiniteSet(Replies(q))
      BY CountTypes
    <3>3. Cardinality(Requests(q)') = Cardinality(Requests(q)) - 1
      <4>1. Cardinality(Requests(q) \ {<<p, s>>}) = Cardinality(Requests(q)) - 1
        BY <3>1, <3>2, FS_RemoveElement
      <4> QED
        BY <2>2, <4>1
    <3>4. Cardinality(Requests(q)) # 0
      BY <3>1, <3>2, FS_EmptySet
    <3>5. Cardinality(Replies(q)) = 0
      BY <3>2, <3>4 DEF OneAnswer
    <3>6. Replies(q) = {}
      BY <3>2, <3>5, FS_EmptySet
    <3>7. Replies(q)' = Replies(q) \cup {m} /\ m \notin Replies(q)
      BY <1>2, <2>4, <3>6 DEF Replies
    <3>8. Cardinality(Replies(q)') = Cardinality(Replies(q)) + 1
      BY <3>2, <3>7, FS_AddElement
    <3> QED
      BY <3>2, <3>3, <3>8 DEF Count
  <2> QED
    BY <2>3, <2>4
<1> QED
  BY <1>1, <1>3, <1>4

\* OneAnswer follows when no count changes and nobody starts or stops waiting.
LEMMA CountsStay ==
  ASSUME OneAnswer, \A q \in Thread : Count(q)' = Count(q),
         \A q \in Thread : Waiting(q)' = Waiting(q)
  PROVE  OneAnswer'
  BY DEF OneAnswer, Count

-----------------------------------------------------------------------------
(* Where a thread can be inside ws_steal *)

StealsWhere ==
  /\ trying \in [Thread -> {"no", "cas", "wait"}]
  /\ \E L : pc \in [Thread -> L]
  /\ \A p \in Thread : trying[p] # "no" => pc[p] \in StealBack

LEMMA WhereStays ==
  ASSUME StealsWhere, UNCHANGED <<trying, pc>>
  PROVE  StealsWhere'
  BY DEF StealsWhere

\* A thread that changes its location is not inside ws_steal then.
LEMMA WhereMoves ==
  ASSUME StealsWhere, NEW p \in Thread, NEW l, Goto(p, l),
         \/ trying[p] = "no" /\ UNCHANGED trying
         \/ trying' = [trying EXCEPT ![p] = "no"]
         \/ trying' = [trying EXCEPT ![p] = "cas"] /\ l \in StealBack
  PROVE  StealsWhere'
<1>1. PICK L : pc \in [Thread -> L]
  BY DEF StealsWhere
<1>2. pc' \in [Thread -> L \cup {l}]
  BY <1>1 DEF Goto
<1>3. pc'[p] = l /\ \A q \in Thread \ {p} : pc'[q] = pc[q]
  BY <1>1 DEF Goto
<1>4. trying' \in [Thread -> {"no", "cas", "wait"}]
  BY DEF StealsWhere
<1>5. \A q \in Thread \ {p} : trying'[q] = trying[q]
  BY DEF StealsWhere
<1>6. trying'[p] # "no" => l \in StealBack
  BY DEF StealsWhere
<1> QED
  BY <1>2, <1>3, <1>4, <1>5, <1>6 DEF StealsWhere

\* A thread that begins to steal, or goes on to wait, stays where it is.
LEMMA WhereTries ==
  ASSUME StealsWhere, NEW p \in Thread, NEW v \in {"cas", "wait"},
         trying' = [trying EXCEPT ![p] = v], pc[p] \in StealBack, UNCHANGED pc
  PROVE  StealsWhere'
  BY DEF StealsWhere

LEMMA WhereStep ==
  ASSUME StealsWhere, Next
  PROVE  StealsWhere'
<1>1. CASE Network \/ Terminated
  <2>1. UNCHANGED <<trying, pc>>
    BY <1>1 DEF Network, LandReply, LandPut, LandTerm, LandDone, Terminated, vars
  <2> QED
    BY <2>1, WhereStays
<1>2. ASSUME NEW p \in Thread, Poll(p) PROVE StealsWhere'
  <2>1. UNCHANGED <<trying, pc>>
    BY <1>2 DEF Poll, PollSkip, PollRefuse, PollSeeFree, PollCasWon, PollCasLost,
                PollUnblock, PollServe
  <2> QED
    BY <2>1, WhereStays
<1>3. ASSUME NEW p \in Thread, Steal(p) PROVE StealsWhere'
  <2>1. CASE StealCasWon(p)
    <3>1. pc[p] \in StealBack
      BY <2>1 DEF StealCasWon, Casing, StealsWhere
    <3> QED
      BY <3>1, <2>1, WhereTries DEF StealCasWon
  <2>2. CASE StealCasLost(p) \/ StealRefused(p) \/ StealRun(p)
    <3>1. trying' = [trying EXCEPT ![p] = "no"] /\ \E l : Goto(p, l)
      BY <2>2 DEF StealCasLost, StealRefused, StealRun
    <3> QED
      BY <3>1, WhereMoves
  <2>3. CASE WriteBackPoll(p)
    BY <2>3, WhereStays DEF WriteBackPoll
  <2>4. CASE WriteBackDone(p)
    BY <2>4, WhereMoves DEF WriteBackDone, Idle
  <2> QED
    BY <1>3, <2>1, <2>2, <2>3, <2>4 DEF Steal
<1>4. ASSUME NEW p \in Thread, Handler(p) PROVE StealsWhere'
  <2>1. CASE Progress(p) \/ Spawn(p) \/ Call(p) \/ ReturnLocal(p)
    BY <2>1, WhereStays DEF Progress, Spawn, Call, ReturnLocal
  <2>2. CASE Sync(p) \/ SyncInline(p) \/ SyncStolen(p) \/ Join(p) \/ ReturnStolen(p) \/ ReturnRoot(p)
    <3>1. trying[p] = "no" /\ UNCHANGED trying /\ \E l : Goto(p, l)
      BY <2>2 DEF Sync, SyncInline, SyncStolen, Join, ReturnStolen, ReturnRoot, InHandler, Idle
    <3> QED
      BY <3>1, WhereMoves
  <2>3. CASE SyncSteal(p)
    <3>1. pc[p] \in StealBack /\ trying' = [trying EXCEPT ![p] = "cas"] /\ UNCHANGED pc
      BY <2>3 DEF SyncSteal, BeginSteal, StealBack
    <3> QED
      BY <3>1, WhereTries
  <2> QED
    BY <1>4, <2>1, <2>2, <2>3 DEF Handler, SyncOrReturn
<1>5. ASSUME NEW p \in Thread, Compute(p) PROVE StealsWhere'
  <2>1. CASE Reset(p) \/ Initiate(p) \/ LeavePool(p) \/ EndRound(p)
    <3>1. UNCHANGED trying /\ \E l : Goto(p, l)
      BY <2>1 DEF Reset, Initiate, LeavePool, EndRound
    <3>2. trying[p] = "no"
      BY <2>1 DEF Reset, Initiate, LeavePool, EndRound, Idle, StealsWhere, StealBack
    <3> QED
      BY <3>1, <3>2, WhereMoves
  <2>2. CASE Participate(p)
    <3>1. trying' = [trying EXCEPT ![p] = "cas"] /\ Goto(p, "part") /\ "part" \in StealBack
      BY <2>2 DEF Participate, BeginSteal, StealBack
    <3> QED
      BY <3>1, WhereMoves
  <2>3. CASE PoolSteal(p)
    <3>1. pc[p] \in StealBack /\ trying' = [trying EXCEPT ![p] = "cas"] /\ UNCHANGED pc
      BY <2>3 DEF PoolSteal, BeginSteal, StealBack
    <3> QED
      BY <3>1, WhereTries
  <2> QED
    BY <1>5, <2>1, <2>2, <2>3 DEF Compute
<1> QED
  BY <1>1, <1>2, <1>3, <1>4, <1>5 DEF Next, Step

-----------------------------------------------------------------------------
(* The steps *)

\* Steps that only move poll, or let a thread begin to steal.
LEMMA QuietStep ==
  ASSUME ProtocolInv, UNCHANGED <<request, net, sem>>,
         poll' \in [Thread -> Slot \cup {0}],
         trying' \in [Thread -> {"no", "cas", "wait"}],
         \A q \in Thread : Waiting(q)' = Waiting(q)
  PROVE  ProtocolInv'
<1>1. ProtocolTypes'
  BY DEF ProtocolInv, ProtocolTypes
<1>2. \A q \in Thread : Count(q)' = Count(q)
  BY DEF Count, Requests, Replies
<1>3. OneAnswer'
  BY <1>2, CountsStay DEF ProtocolInv
<1> QED
  BY <1>1, <1>3 DEF ProtocolInv

\* ws_communicate goes to the next slot, or ends.
LEMMA NextSlotType ==
  ASSUME ProtocolTypes, NEW p \in Thread, Visiting(p)
  PROVE  /\ poll[p] \in Slot
         /\ NextSlot(p) => poll' \in [Thread -> Slot \cup {0}]
<1>1. poll[p] \in Slot
  BY DEF ProtocolTypes, Visiting
<1>2. (IF poll[p] = NSlots THEN 0 ELSE poll[p] + 1) \in Slot \cup {0}
  BY <1>1, BoundAssumption DEF Slot
<1> QED
  BY <1>1, <1>2 DEF NextSlot, ProtocolTypes

\* Steps that call ws_communicate, begin to steal, or do neither.
LEMMA CallStep ==
  ASSUME ProtocolInv, NEW p \in Thread, UNCHANGED <<request, net, sem>>,
         UNCHANGED poll \/ Communicate(p),
         \/ UNCHANGED trying
         \/ Idle(p) /\ trying' = [trying EXCEPT ![p] = "cas"]
  PROVE  ProtocolInv'
<1>1. 1 \in Slot
  BY BoundAssumption DEF Slot
<1>2. poll' \in [Thread -> Slot \cup {0}]
  BY <1>1 DEF Communicate, ProtocolInv, ProtocolTypes
<1>3. trying' \in [Thread -> {"no", "cas", "wait"}]
  BY DEF ProtocolInv, ProtocolTypes
<1>4. \A q \in Thread : Waiting(q)' = Waiting(q)
  BY DEF Waiting, Idle, ProtocolInv, ProtocolTypes
<1> QED
  BY <1>2, <1>3, <1>4, QuietStep

LEMMA PollSteps ==
  ASSUME ProtocolInv, NEW p \in Thread, Poll(p)
  PROVE  ProtocolInv'
<1>1. Visiting(p)
  BY DEF Poll, PollSkip, PollRefuse, PollSeeFree, PollCasWon, PollCasLost, PollUnblock, PollServe
<1>2. poll[p] \in Slot /\ (NextSlot(p) => poll' \in [Thread -> Slot \cup {0}])
  BY <1>1, NextSlotType DEF ProtocolInv
<1>3. UNCHANGED trying
  BY DEF Poll, PollSkip, PollRefuse, PollSeeFree, PollCasWon, PollCasLost, PollUnblock, PollServe
<1>4. \A q \in Thread : Waiting(q)' = Waiting(q)
  BY <1>3 DEF Waiting
<1>5. trying' \in [Thread -> {"no", "cas", "wait"}]
  BY <1>3 DEF ProtocolInv, ProtocolTypes
<1>6. CASE PollSkip(p)
  BY <1>2, <1>4, <1>5, <1>6, QuietStep DEF PollSkip, netVars
<1>7. CASE PollSeeFree(p)
  <2>1. poll' \in [Thread -> Slot \cup {0}]
    BY <1>7 DEF PollSeeFree, ProtocolInv, ProtocolTypes
  <2> QED
    BY <2>1, <1>4, <1>5, <1>7, QuietStep DEF PollSeeFree, netVars
\* A slot without a request changes hands between Free and Block.
<1>8. CASE PollCasWon(p) \/ PollUnblock(p)
  <2>1. PICK v \in {Free, Block} : request' = [request EXCEPT ![p][poll[p]] = v]
    BY <1>8 DEF PollCasWon, PollUnblock, SetSlot
  <2>2. request[p][poll[p]] \notin Thread /\ net' = net /\ sem' = sem /\ NextSlot(p)
    BY <1>8, ThreadAssumption DEF PollCasWon, PollUnblock, SlotOf, netVars
  <2>3. /\ request' \in [Thread -> [Slot -> Thread \cup {Free, Block}]]
        /\ \A q \in Thread : Count(q)' = Count(q)
    BY <2>1, <2>2, <1>2, NoRequestWritten DEF ProtocolInv
  <2>4. OneAnswer'
    BY <2>3, <1>4, CountsStay DEF ProtocolInv
  <2> QED
    BY <2>2, <2>3, <2>4, <1>2, <1>5 DEF ProtocolInv, ProtocolTypes
\* A request is refused or served.
<1>9. CASE PollRefuse(p) \/ PollCasLost(p) \/ PollServe(p)
  <2>1. PICK v \in {Free, Block} : request' = [request EXCEPT ![p][poll[p]] = v]
    BY <1>9 DEF PollRefuse, PollCasLost, PollServe, SetSlot
  <2>2. PICK src : Reply(request[p][poll[p]], src)
    BY <1>9 DEF PollRefuse, PollCasLost, PollServe, SlotOf
  <2>3. request[p][poll[p]] \in Thread /\ sem' = sem /\ NextSlot(p)
    BY <1>9 DEF PollRefuse, PollCasLost, PollServe, SlotOf
  <2>4. /\ request' \in [Thread -> [Slot -> Thread \cup {Free, Block}]]
        /\ \A m \in net' : m.to \in Thread
        /\ IsFiniteSet(net')
        /\ \A q \in Thread : Count(q)' = Count(q)
    BY <2>1, <2>2, <2>3, <1>2, Answered DEF ProtocolInv
  <2>5. OneAnswer'
    BY <2>4, <1>4, CountsStay DEF ProtocolInv
  <2> QED
    BY <2>3, <2>4, <2>5, <1>2, <1>5 DEF ProtocolInv, ProtocolTypes
<1> QED
  BY <1>6, <1>7, <1>8, <1>9 DEF Poll

\* The thief's CAS32 succeeds: it had no request, and now has one.
LEMMA CasWonStep ==
  ASSUME ProtocolInv, NEW p \in Thread, StealCasWon(p)
  PROVE  ProtocolInv'
<1>1. PICK v \in Thread, s \in Slot :
        request[v][s] = Free /\ request' = [request EXCEPT ![v][s] = p]
  BY DEF StealCasWon, Victims
<1>2. /\ trying[p] = "cas" /\ trying' = [trying EXCEPT ![p] = "wait"]
      /\ net' = net /\ sem' = sem /\ poll' = poll
  BY DEF StealCasWon, Casing, netVars, pollVars
<1>3. /\ request' \in [Thread -> [Slot -> Thread \cup {Free, Block}]]
      /\ \A q \in Thread :
           Requests(q)' = IF p = q THEN Requests(q) \cup {<<v, s>>}
                                   ELSE Requests(q) \ {<<v, s>>}
  BY <1>1, WriteSlot DEF ProtocolInv
<1>4. ProtocolTypes'
  BY <1>2, <1>3 DEF ProtocolInv, ProtocolTypes
<1>5. ASSUME NEW q \in Thread
      PROVE  Replies(q)' = Replies(q) /\ <<v, s>> \notin Requests(q)
             /\ IsFiniteSet(Requests(q)) /\ Cardinality(Requests(q)) \in Nat
             /\ Cardinality(Replies(q)) \in Nat /\ sem[q] \in Nat
  BY <1>1, <1>2, CountTypes, ThreadAssumption DEF Replies, Requests, ProtocolInv
<1>6. Count(p) = 0 /\ Waiting(p)' /\ Count(p)' = 1
  <2>1. Count(p) = 0 /\ Waiting(p)'
    BY <1>2 DEF ProtocolInv, OneAnswer, Count, Waiting, ProtocolTypes
  <2>2. Cardinality(Requests(p)') = Cardinality(Requests(p)) + 1
    BY <1>3, <1>5, FS_AddElement
  <2>3. Count(p)' = Count(p) + 1
    BY <1>2, <1>5, <2>2 DEF Count
  <2> QED
    BY <2>1, <2>3
<1>7. ASSUME NEW q \in Thread, q # p
      PROVE  Count(q)' = Count(q) /\ Waiting(q)' = Waiting(q)
  <2>1. Requests(q)' = Requests(q)
    BY <1>3, <1>5, <1>7
  <2>2. trying'[q] = trying[q]
    BY <1>2, <1>7 DEF ProtocolInv, ProtocolTypes
  <2> QED
    BY <1>2, <1>5, <2>1, <2>2 DEF Count, Waiting
<1>8. OneAnswer'
  <2>1. \A q \in Thread : Count(q)' = IF Waiting(q)' THEN 1 ELSE 0
    BY <1>6, <1>7 DEF ProtocolInv, OneAnswer, Count
  <2> QED
    BY <2>1 DEF OneAnswer, Count
<1> QED
  BY <1>4, <1>8 DEF ProtocolInv

\* The thief takes its answer and no longer waits.
LEMMA AnswerTaken ==
  ASSUME ProtocolInv, NEW p \in Thread, Waiting(p), sem[p] > 0,
         sem' = [sem EXCEPT ![p] = @ - 1], trying' = [trying EXCEPT ![p] = "no"],
         UNCHANGED <<request, net, poll>>
  PROVE  ProtocolInv'
<1>1. ASSUME NEW q \in Thread
      PROVE  /\ Requests(q)' = Requests(q) /\ Replies(q)' = Replies(q)
             /\ Cardinality(Requests(q)) \in Nat
             /\ Cardinality(Replies(q)) \in Nat /\ sem[q] \in Nat
  BY CountTypes DEF Requests, Replies, ProtocolInv
<1>2. sem[p] - 1 \in Nat
  BY <1>1
<1>3. ProtocolTypes'
  BY <1>2 DEF ProtocolInv, ProtocolTypes
<1>4. Count(p)' = 0 /\ ~Waiting(p)'
  <2>1. Count(p) = 1 /\ sem'[p] = sem[p] - 1 /\ trying'[p] = "no"
    BY DEF ProtocolInv, OneAnswer, Count, ProtocolTypes
  <2> QED
    BY <1>1, <2>1 DEF Count, Waiting
<1>5. ASSUME NEW q \in Thread, q # p
      PROVE  Count(q)' = Count(q) /\ Waiting(q)' = Waiting(q)
  <2>1. trying'[q] = trying[q] /\ sem'[q] = sem[q]
    BY <1>5 DEF ProtocolInv, ProtocolTypes
  <2> QED
    BY <1>1, <2>1 DEF Count, Waiting
<1>6. OneAnswer'
  <2>1. \A q \in Thread : Count(q)' = IF Waiting(q)' THEN 1 ELSE 0
    BY <1>4, <1>5 DEF ProtocolInv, OneAnswer, Count
  <2> QED
    BY <2>1 DEF OneAnswer, Count
<1> QED
  BY <1>3, <1>6 DEF ProtocolInv

LEMMA StealSteps ==
  ASSUME ProtocolInv, NEW p \in Thread, Steal(p)
  PROVE  ProtocolInv'
<1>1. CASE StealCasWon(p)
  BY <1>1, CasWonStep
<1>2. CASE StealCasLost(p)
  <2>1. trying[p] = "cas" /\ trying' = [trying EXCEPT ![p] = "no"]
    BY <1>2 DEF StealCasLost, Casing
  <2>2. trying' \in [Thread -> {"no", "cas", "wait"}]
    BY <2>1 DEF ProtocolInv, ProtocolTypes
  <2>3. \A q \in Thread : Waiting(q)' = Waiting(q)
    BY <2>1 DEF Waiting, ProtocolInv, ProtocolTypes
  <2>4. UNCHANGED <<request, net, sem>> /\ poll' \in [Thread -> Slot \cup {0}]
    BY <1>2 DEF StealCasLost, netVars, pollVars, ProtocolInv, ProtocolTypes
  <2> QED
    BY <2>2, <2>3, <2>4, QuietStep
<1>3. CASE StealRefused(p) \/ StealRun(p)
  <2>1. /\ Waiting(p) /\ sem[p] > 0 /\ sem' = [sem EXCEPT ![p] = @ - 1]
        /\ trying' = [trying EXCEPT ![p] = "no"] /\ UNCHANGED <<request, net, poll>>
    BY <1>3 DEF StealRefused, StealRun, netVars, pollVars
  <2> QED
    BY <2>1, AnswerTaken
<1>4. CASE WriteBackPoll(p) \/ WriteBackDone(p)
  <2>1. UNCHANGED <<request, net, sem, trying>> /\ (UNCHANGED poll \/ Communicate(p))
    BY <1>4 DEF WriteBackPoll, WriteBackDone, netVars, pollVars
  <2> QED
    BY <2>1, CallStep
<1> QED
  BY <1>1, <1>2, <1>3, <1>4 DEF Steal

LEMMA HandlerSteps ==
  ASSUME ProtocolInv, NEW p \in Thread, Handler(p)
  PROVE  ProtocolInv'
<1>1. /\ UNCHANGED <<request, net, sem>>
      /\ UNCHANGED poll \/ Communicate(p)
      /\ \/ UNCHANGED trying
         \/ Idle(p) /\ trying' = [trying EXCEPT ![p] = "cas"]
  <2>1. CASE Progress(p) \/ Spawn(p) \/ Call(p) \/ Sync(p)
    BY <2>1 DEF Progress, Spawn, Call, Sync, netVars, pollVars
  <2>2. CASE SyncInline(p) \/ SyncStolen(p) \/ Join(p)
    BY <2>2 DEF SyncInline, SyncStolen, Join, netVars, pollVars
  <2>3. CASE SyncSteal(p)
    BY <2>3 DEF SyncSteal, BeginSteal, netVars
  <2>4. CASE ReturnLocal(p) \/ ReturnStolen(p) \/ ReturnRoot(p)
    BY <2>4 DEF ReturnLocal, ReturnStolen, ReturnRoot, netVars, pollVars
  <2> QED
    BY <2>1, <2>2, <2>3, <2>4 DEF Handler, SyncOrReturn
<1> QED
  BY <1>1, CallStep

LEMMA ComputeSteps ==
  ASSUME ProtocolInv, StealsWhere, NEW p \in Thread, Compute(p)
  PROVE  ProtocolInv'
<1>1. CASE Participate(p)
  <2>1. /\ UNCHANGED <<request, net, sem>> /\ Communicate(p)
        /\ trying' = [trying EXCEPT ![p] = "cas"]
    BY <1>1 DEF Participate, BeginSteal, netVars
  <2>2. trying[p] = "no"
    BY <1>1 DEF Participate, StealsWhere, StealBack
  <2>3. trying' \in [Thread -> {"no", "cas", "wait"}] /\ poll' \in [Thread -> Slot \cup {0}]
    BY <2>1, BoundAssumption DEF Communicate, ProtocolInv, ProtocolTypes, Slot
  <2>4. \A q \in Thread : Waiting(q)' = Waiting(q)
    BY <2>1, <2>2 DEF Waiting, ProtocolInv, ProtocolTypes
  <2> QED
    BY <2>1, <2>3, <2>4, QuietStep
<1>2. CASE Reset(p) \/ Initiate(p) \/ PoolSteal(p) \/ LeavePool(p) \/ EndRound(p)
  <2>1. /\ UNCHANGED <<request, net, sem>>
        /\ UNCHANGED poll \/ Communicate(p)
        /\ \/ UNCHANGED trying
           \/ Idle(p) /\ trying' = [trying EXCEPT ![p] = "cas"]
    BY <1>2 DEF Reset, Initiate, PoolSteal, LeavePool, EndRound, BeginSteal, netVars, pollVars
  <2> QED
    BY <2>1, CallStep
<1> QED
  BY <1>1, <1>2 DEF Compute

\* An answer lands in the transfer cell and raises the semaphore.
LEMMA ReplyLands ==
  ASSUME ProtocolInv, NEW m \in net, LandReply(m)
  PROVE  ProtocolInv'
<1>1. /\ net' = net \ {m} /\ sem' = [sem EXCEPT ![m.to] = @ + 1]
      /\ UNCHANGED <<request, trying, poll>>
  BY DEF LandReply, pollVars
<1>2. m.to \in Thread /\ sem[m.to] + 1 \in Nat
  BY DEF ProtocolInv, ProtocolTypes
<1>3. ProtocolTypes'
  BY <1>1, <1>2, FS_RemoveElement DEF ProtocolInv, ProtocolTypes
<1>4. ASSUME NEW q \in Thread PROVE Count(q)' = Count(q)
  <2>1. /\ Requests(q)' = Requests(q)
        /\ Cardinality(Requests(q)) \in Nat
        /\ IsFiniteSet(Replies(q)) /\ Cardinality(Replies(q)) \in Nat /\ sem[q] \in Nat
    BY <1>1, CountTypes DEF Requests, ProtocolInv
  <2>2. CASE q # m.to
    <3>1. Replies(q)' = Replies(q)
      BY <1>1, <2>2 DEF Replies
    <3>2. sem'[q] = sem[q]
      BY <1>1, <2>2 DEF ProtocolInv, ProtocolTypes
    <3> QED
      BY <2>1, <3>1, <3>2 DEF Count
  <2>3. CASE q = m.to
    <3>1. Replies(q)' = Replies(q) \ {m} /\ m \in Replies(q)
      BY <1>1, <2>3 DEF Replies
    <3>2. Cardinality(Replies(q)') = Cardinality(Replies(q)) - 1
      BY <2>1, <3>1, FS_RemoveElement
    <3>3. sem'[q] = sem[q] + 1
      BY <1>1, <2>3 DEF ProtocolInv, ProtocolTypes
    <3> QED
      BY <2>1, <3>2, <3>3 DEF Count
  <2> QED
    BY <2>2, <2>3
<1>5. \A q \in Thread : Waiting(q)' = Waiting(q)
  BY <1>1 DEF Waiting
<1>6. OneAnswer'
  BY <1>4, <1>5, CountsStay DEF ProtocolInv
<1> QED
  BY <1>3, <1>6 DEF ProtocolInv

LEMMA NetworkSteps ==
  ASSUME ProtocolInv, Network
  PROVE  ProtocolInv'
<1>1. ASSUME NEW m \in net, LandReply(m) PROVE ProtocolInv'
  BY <1>1, ReplyLands
<1>2. ASSUME UNCHANGED <<request, net, sem, trying, poll>> PROVE ProtocolInv'
  <2>1. \A q \in Thread : Waiting(q)' = Waiting(q)
    BY <1>2 DEF Waiting
  <2> QED
    BY <1>2, <2>1, QuietStep DEF ProtocolInv, ProtocolTypes
<1>3. ASSUME NEW p \in Thread, LandPut(p) \/ LandTerm(p) PROVE ProtocolInv'
  BY <1>2, <1>3 DEF LandPut, LandTerm, pollVars
<1>4. ASSUME NEW a \in doneFlight, LandDone(a) PROVE ProtocolInv'
  BY <1>2, <1>4 DEF LandDone, pollVars
<1> QED
  BY <1>1, <1>3, <1>4 DEF Network

-----------------------------------------------------------------------------
(* The theorem *)

LEMMA ProtocolInit == Init => ProtocolInv /\ StealsWhere
<1> SUFFICES ASSUME Init PROVE ProtocolInv /\ StealsWhere
  OBVIOUS
<1>1. ProtocolTypes
  BY FS_EmptySet DEF Init, ProtocolTypes
<1>2. StealsWhere
  <2>1. pc \in [Thread -> {"start"}] /\ trying \in [Thread -> {"no", "cas", "wait"}]
    BY DEF Init
  <2>2. \A p \in Thread : trying[p] = "no"
    BY DEF Init
  <2> QED
    BY <2>1, <2>2 DEF StealsWhere
<1>3. ASSUME NEW q \in Thread
      PROVE  Requests(q) = {} /\ Replies(q) = {} /\ sem[q] = 0 /\ ~Waiting(q)
  BY ThreadAssumption DEF Init, Requests, Replies, Waiting
<1>4. OneAnswer
  BY <1>3, FS_EmptySet DEF OneAnswer
<1> QED
  BY <1>1, <1>2, <1>4 DEF ProtocolInv

LEMMA ProtocolNext ==
  ASSUME ProtocolInv, StealsWhere, [Next]_vars
  PROVE  ProtocolInv' /\ StealsWhere'
<1>1. CASE UNCHANGED vars
  <2>1. UNCHANGED <<request, net, sem, trying, poll, pc>>
    BY <1>1 DEF vars
  <2>2. \A q \in Thread : Waiting(q)' = Waiting(q)
    BY <2>1 DEF Waiting
  <2>3. ProtocolInv'
    BY <2>1, <2>2, QuietStep DEF ProtocolInv, ProtocolTypes
  <2> QED
    BY <2>1, <2>3, WhereStays
<1>2. CASE Next
  <2>1. StealsWhere'
    BY <1>2, WhereStep
  <2>2. ASSUME NEW p \in Thread, Step(p) PROVE ProtocolInv'
    BY <2>2, PollSteps, StealSteps, HandlerSteps, ComputeSteps DEF Step
  <2>3. CASE Terminated
    BY <1>1, <2>3 DEF Terminated
  <2> QED
    BY <1>2, <2>1, <2>2, <2>3, NetworkSteps DEF Next
<1> QED
  BY <1>1, <1>2

\* Every request for work that a thief posts is answered exactly once, for any
\* number of threads: no request is lost between the victim's read of a slot
\* and its LOCAL_CAS, and no transfer cell is overwritten before it is read.
THEOREM OneAnswerHolds == Spec => []OneAnswer
<1>1. Init => ProtocolInv /\ StealsWhere
  BY ProtocolInit
<1>2. (ProtocolInv /\ StealsWhere) /\ [Next]_vars => (ProtocolInv /\ StealsWhere)'
  BY ProtocolNext
<1>3. ProtocolInv => OneAnswer
  BY DEF ProtocolInv
<1> QED
  BY <1>1, <1>2, <1>3, PTL DEF Spec
=============================================================================
