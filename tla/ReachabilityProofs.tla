------------------------- MODULE ReachabilityProofs -------------------------
(***************************************************************************)
(* For every set of states, number of relations and model: what the search *)
(* has found when it ends is the least set that has the initial states and *)
(* is closed under the relations (Finds).                                  *)
(*                                                                         *)
(* The invariant has four parts.  Every finished task has the successors, *)
(* less the visited states, under the relations that it is about           *)
(* (TasksRight, which needs that the two halves make the whole).  Every    *)
(* successor of a visited state is visited, except for those of the states *)
(* of the current level (Frontier).  Nothing is visited that a closed set  *)
(* with the initial states leaves out (Sound).  And two tasks of a level   *)
(* are about different relations, unless one waits for the other (Nested): *)
(* so when the first task is done, every task is.                          *)
(***************************************************************************)
EXTENDS Reachability, FiniteSetTheorems, WellFoundedInduction, TLAPS

Within1(t, i) == i \in Index /\ t[1] <= i /\ i < t[1] + t[2]

\* What a task has to find.
Found(t) == {y \in State : /\ y \notin visited
                           /\ \E i \in Index : Within1(t, i) /\ y \in Image(new, model.next[i])}

TasksRight == \A t \in Task : status[t] = "done" => res[t] = Found(t)

\* A task that waits has more than one relation.
WaitsSplit == \A t \in Task : status[t] = "waits" => t[2] # 1

Active(t) == status[t] # "none"
Inside(s, t)  == t[1] <= s[1] /\ s[1] + s[2] <= t[1] + t[2]
Apart(s, t)   == s[1] + s[2] <= t[1] \/ t[1] + t[2] <= s[1]
WaitsFor(t, s) == status[t] = "waits" /\ (Inside(s, Left(t)) \/ Inside(s, Right(t)))

Nested ==
  \A s, t \in Task :
    s # t /\ Active(s) /\ Active(t) => Apart(s, t) \/ WaitsFor(s, t) \/ WaitsFor(t, s)

\* Between two levels there is no task.
Between == pc # "level" => \A t \in Task : ~Active(t)

Frontier == \A i \in Index : Image(visited \ new, model.next[i]) \subseteq visited

Sound == /\ model.states \subseteq visited /\ new \subseteq visited
         /\ \A C \in SUBSET State :
              model.states \subseteq C /\ Closed(C) => visited \subseteq C

Ended == pc \in {"count", "end"} => new = {}

Inv == TypeOK /\ TasksRight /\ WaitsSplit /\ Nested /\ Between /\ Frontier /\ Sound /\ Ended

-----------------------------------------------------------------------------
(* The halves of a task *)

LEMMA Half ==
  ASSUME NEW n \in Nat, n > 1
  PROVE  /\ HalfUp(n) \in 1 .. n - 1 /\ n \div 2 \in 1 .. n - 1
         /\ HalfUp(n) + n \div 2 = n
  BY SMTT(20) DEF HalfUp

LEMMA TaskType ==
  ASSUME NEW t \in Task
  PROVE  /\ t = <<t[1], t[2]>>
         /\ t[1] \in Index /\ t[1] \in Nat /\ t[2] \in Nat /\ t[2] >= 1
         /\ t[1] + t[2] <= NextCount
  BY NextCountAssumption DEF Task, Index

LEMMA HalvesAreTasks ==
  ASSUME NEW t \in Task, t[2] # 1
  PROVE  Left(t) \in Task /\ Right(t) \in Task
<1>1. /\ t[1] \in Nat /\ t[2] \in Nat /\ t[2] > 1 /\ t[1] + t[2] <= NextCount
  BY TaskType
<1>2. /\ HalfUp(t[2]) \in 1 .. t[2] - 1 /\ t[2] \div 2 \in 1 .. t[2] - 1
      /\ HalfUp(t[2]) + t[2] \div 2 = t[2]
  BY <1>1, Half
<1>3. ASSUME NEW h \in 1 .. t[2] - 1, NEW k \in 1 .. t[2] - 1, h + k = t[2]
      PROVE  <<t[1], h>> \in Task /\ <<t[1] + h, k>> \in Task
  BY <1>1, <1>3, NextCountAssumption DEF Task, Index
<1> QED
  BY <1>2, <1>3 DEF Left, Right

\* The two halves are about the relations of the whole.
LEMMA HalvesCover ==
  ASSUME NEW t \in Task, t[2] # 1, NEW i \in Index
  PROVE  Within1(t, i) <=> Within1(Left(t), i) \/ Within1(Right(t), i)
<1>1. /\ t[1] \in Nat /\ t[2] \in Nat /\ t[2] > 1
  BY TaskType
<1>2. /\ HalfUp(t[2]) \in 1 .. t[2] - 1 /\ t[2] \div 2 \in 1 .. t[2] - 1
      /\ HalfUp(t[2]) + t[2] \div 2 = t[2]
  BY <1>1, Half
<1>3. i \in Nat
  BY NextCountAssumption DEF Index
<1>4. ASSUME NEW h \in 1 .. t[2] - 1, NEW k \in 1 .. t[2] - 1, h + k = t[2]
      PROVE  Within1(t, i) <=> Within1(<<t[1], h>>, i) \/ Within1(<<t[1] + h, k>>, i)
  BY <1>1, <1>3, <1>4 DEF Within1
<1> QED
  BY <1>2, <1>4 DEF Left, Right

\* The places of the two halves.
LEMMA HalfPlaces ==
  ASSUME NEW t \in Task, t[2] # 1
  PROVE  \E m \in Nat : /\ t[1] < m /\ m < t[1] + t[2]
                         /\ Left(t)[1] = t[1] /\ Left(t)[1] + Left(t)[2] = m
                         /\ Right(t)[1] = m /\ Right(t)[1] + Right(t)[2] = t[1] + t[2]
<1>1. /\ t[1] \in Nat /\ t[2] \in Nat /\ t[2] > 1
  BY TaskType
<1>2. /\ HalfUp(t[2]) \in 1 .. t[2] - 1 /\ t[2] \div 2 \in 1 .. t[2] - 1
      /\ HalfUp(t[2]) + t[2] \div 2 = t[2]
  BY <1>1, Half
<1>3. ASSUME NEW h \in 1 .. t[2] - 1, NEW k \in 1 .. t[2] - 1, h + k = t[2]
      PROVE  /\ t[1] < t[1] + h /\ t[1] + h < t[1] + t[2] /\ t[1] + h \in Nat
             /\ t[1] + h + k = t[1] + t[2]
  BY <1>1, <1>3
<1>4. t[1] + HalfUp(t[2]) \in Nat
  BY <1>1, <1>2
<1> WITNESS t[1] + HalfUp(t[2]) \in Nat
<1> QED
  BY <1>2, <1>3 DEF Left, Right

LEMMA RootIsTask == Root \in Task /\ \A i \in Index : Within1(Root, i)
  BY NextCountAssumption DEF Root, Task, Index, Within1

LEMMA ModelType ==
  ASSUME model \in Models
  PROVE  /\ model.states \in SUBSET State
         /\ \A i \in Index : model.next[i] \in SUBSET (State \X State)
  BY ModelsAssumption

-----------------------------------------------------------------------------
(* The steps *)

LEMMA InitInv == Init => Inv
<1> SUFFICES ASSUME Init PROVE Inv
  OBVIOUS
<1>1. TypeOK
  BY ModelType DEF Init, TypeOK
<1>2. visited \ new = {}
  BY DEF Init
<1>3. Frontier
  BY <1>2 DEF Frontier, Image
<1> QED
  BY <1>1, <1>3 DEF Inv, Init, TasksRight, WaitsSplit, Nested, Between, Active, Sound, Ended

LEMMA GoLeafInv == ASSUME Inv, NEW t \in Task, GoLeaf(t) PROVE Inv'
<1> USE DEF Inv
<1>1. TypeOK'
  BY DEF GoLeaf, TypeOK, Image
<1>2. UNCHANGED <<model, visited, new, pc>>
  BY DEF GoLeaf
<1>3. Image(new, model.next[t[1]]) \ visited = Found(t)
  <2>1. \A i \in Index : Within1(t, i) <=> i = t[1]
    BY TaskType, NextCountAssumption DEF GoLeaf, Within1, Index
  <2> QED
    BY <2>1, TaskType DEF Found, Image
<1>4. TasksRight'
  <2> SUFFICES ASSUME NEW s \in Task, status'[s] = "done" PROVE res'[s] = Found(s)'
    BY DEF TasksRight
  <2>1. Found(s)' = Found(s)
    BY <1>2 DEF Found, Image, Within1
  <2>2. CASE s = t
    BY <1>3, <2>1, <2>2 DEF GoLeaf, TypeOK
  <2>3. CASE s # t
    BY <2>1, <2>3 DEF GoLeaf, TypeOK, TasksRight
  <2> QED
    BY <2>2, <2>3
<1>5. WaitsSplit'
  BY DEF WaitsSplit, GoLeaf, TypeOK
<1>6. \A s \in Task : /\ Active(s)' <=> Active(s)
                      /\ status[s] = "waits" => status'[s] = "waits"
  BY DEF GoLeaf, TypeOK, Active
<1>7. Nested' /\ Between'
  BY <1>2, <1>6 DEF Nested, Between, Apart, WaitsFor, Inside, Left, Right
<1> QED
  BY <1>1, <1>2, <1>4, <1>5, <1>7 DEF Frontier, Sound, Ended, Image, Closed

LEMMA GoSplitInv == ASSUME Inv, NEW t \in Task, GoSplit(t) PROVE Inv'
<1> USE DEF Inv
<1>1. Left(t) \in Task /\ Right(t) \in Task
  BY HalvesAreTasks DEF GoSplit
<1>2. TypeOK'
  BY DEF GoSplit, TypeOK
<1>3. UNCHANGED <<model, visited, new, pc, res>>
  BY DEF GoSplit
<1>4. \A s \in Task : status'[s] = "done" => status[s] = "done"
  BY DEF GoSplit, TypeOK
<1>5. TasksRight'
  BY <1>3, <1>4 DEF TasksRight, Found, Image, Within1
<1>6. WaitsSplit'
  BY DEF WaitsSplit, GoSplit, TypeOK
<1>7. Between'
  BY <1>3 DEF Between, Active, GoSplit
<1>8. Nested'
  <2>1. PICK m \in Nat : /\ t[1] < m /\ m < t[1] + t[2]
                         /\ Left(t)[1] = t[1] /\ Left(t)[1] + Left(t)[2] = m
                         /\ Right(t)[1] = m /\ Right(t)[1] + Right(t)[2] = t[1] + t[2]
    BY HalfPlaces DEF GoSplit
  <2>2. status'[t] = "waits"
    BY <1>1, <2>1, TaskType DEF GoSplit, TypeOK
  <2>3. ASSUME NEW s \in Task, s # t, s # Left(t), s # Right(t)
        PROVE  status'[s] = status[s]
    BY <2>3 DEF GoSplit, TypeOK
  <2>4. /\ Apart(Left(t), Right(t)) /\ Inside(Left(t), t) /\ Inside(Right(t), t)
        /\ Inside(Left(t), Left(t)) /\ Inside(Right(t), Right(t))
    BY <1>1, <2>1, TaskType DEF Apart, Inside
  <2>5. ASSUME NEW s \in Task, NEW h \in {Left(t), Right(t)}, s # t, s # Left(t), s # Right(t),
               Active(s)
        PROVE  Apart(s, h) \/ WaitsFor(s, h)'
    <3>1. Apart(s, t) \/ WaitsFor(s, t)
      BY <2>5 DEF GoSplit, Nested, Active, WaitsFor
    <3>2. h \in Task /\ Inside(h, t)
      BY <1>1, <2>4
    <3>3. CASE Apart(s, t)
      BY <3>2, <3>3, TaskType DEF Apart, Inside
    <3>4. CASE WaitsFor(s, t)
      <4>1. s[2] # 1
        BY <3>4 DEF WaitsFor, WaitsSplit
      <4>2. Left(s) \in Task /\ Right(s) \in Task
        BY <4>1, HalvesAreTasks
      <4>3. ASSUME NEW x \in Task, Inside(t, x) PROVE Inside(h, x)
        BY <3>2, <4>3, TaskType DEF Inside
      <4> QED
        BY <2>3, <2>5, <3>4, <4>2, <4>3 DEF WaitsFor, Inside, Left, Right
    <3> QED
      BY <3>1, <3>3, <3>4
  <2>6. ASSUME NEW s \in Task, Active(s)', s # t, s # Left(t), s # Right(t)
        PROVE  Active(s)
    BY <2>3, <2>6 DEF Active
  <2>7. ASSUME NEW r \in Task, NEW s \in Task, Apart(r, s) PROVE Apart(s, r)
    BY <2>7 DEF Apart
  <2>8. ASSUME NEW s \in Task, NEW x \in Task, Active(s)', Active(x)', s # x,
               s \in {Left(t), Right(t)}
        PROVE  Apart(s, x) \/ WaitsFor(x, s)'
    <3>1. CASE x = t
      BY <2>2, <2>4, <2>8, <3>1 DEF WaitsFor, Inside, Left, Right
    <3>2. CASE x \in {Left(t), Right(t)}
      BY <1>1, <2>4, <2>7, <2>8, <3>2
    <3>3. CASE x # t /\ x # Left(t) /\ x # Right(t)
      BY <2>5, <2>6, <2>7, <2>8, <3>3
    <3> QED
      BY <3>1, <3>2, <3>3
  <2>9. ASSUME NEW s \in Task, NEW x \in Task, Active(s)', Active(x)', s # x,
               s \notin {Left(t), Right(t)}, x \notin {Left(t), Right(t)}
        PROVE  Apart(s, x) \/ WaitsFor(s, x)' \/ WaitsFor(x, s)'
    <3>1. Active(s) /\ Active(x)
      BY <2>6, <2>9 DEF GoSplit, Active
    <3>2. Apart(s, x) \/ WaitsFor(s, x) \/ WaitsFor(x, s)
      BY <2>9, <3>1 DEF Nested
    <3>3. (status[s] = "waits" => status'[s] = "waits") /\ (status[x] = "waits" => status'[x] = "waits")
      BY <2>2, <2>3, <2>9
    <3> QED
      BY <3>2, <3>3 DEF WaitsFor, Inside, Left, Right
  <2> QED
    BY <2>7, <2>8, <2>9 DEF Nested, Apart
<1> QED
  BY <1>2, <1>3, <1>5, <1>6, <1>7, <1>8 DEF Frontier, Sound, Ended, Image, Closed

LEMMA GoJoinInv == ASSUME Inv, NEW t \in Task, GoJoin(t) PROVE Inv'
<1> USE DEF Inv
<1>1. t[2] # 1
  BY DEF GoJoin, WaitsSplit
<1>2. Left(t) \in Task /\ Right(t) \in Task
  BY <1>1, HalvesAreTasks
<1>3. TypeOK'
  BY <1>2 DEF GoJoin, TypeOK
<1>4. UNCHANGED <<model, visited, new, pc>>
  BY DEF GoJoin
<1>5. res[Left(t)] = Found(Left(t)) /\ res[Right(t)] = Found(Right(t))
  BY <1>2 DEF GoJoin, TasksRight
<1>6. Found(t) = Found(Left(t)) \cup Found(Right(t))
  BY <1>1, HalvesCover DEF Found
<1>7. TasksRight'
  <2> SUFFICES ASSUME NEW s \in Task, status'[s] = "done" PROVE res'[s] = Found(s)'
    BY DEF TasksRight
  <2>1. Found(s)' = Found(s)
    BY <1>4 DEF Found, Image, Within1
  <2>2. CASE s = t
    BY <1>5, <1>6, <2>1, <2>2 DEF GoJoin, TypeOK
  <2>3. CASE s # t
    BY <2>1, <2>3 DEF GoJoin, TypeOK, TasksRight
  <2> QED
    BY <2>2, <2>3
<1>8. WaitsSplit'
  BY DEF WaitsSplit, GoJoin, TypeOK
<1>9. Between'
  BY <1>4 DEF Between, Active, GoJoin
<1>10. Nested'
  <2>1. PICK m \in Nat : /\ t[1] < m /\ m < t[1] + t[2]
                         /\ Left(t)[1] = t[1] /\ Left(t)[1] + Left(t)[2] = m
                         /\ Right(t)[1] = m /\ Right(t)[1] + Right(t)[2] = t[1] + t[2]
    BY <1>1, HalfPlaces
  <2>2. Left(t) # t /\ Right(t) # t
    BY <1>2, <2>1, TaskType
  <2>3. ASSUME NEW s \in Task, s # t, Active(s)'
        PROVE  s # Left(t) /\ s # Right(t) /\ Active(s) /\ status'[s] = status[s]
    BY <1>2, <2>3 DEF GoJoin, TypeOK, Active
  <2>4. ASSUME NEW s \in Task, s # t, Active(s)', NEW h \in {Left(t), Right(t)}
        PROVE  ~Inside(s, h)
    <3>1. h \in Task /\ Active(h) /\ status[h] = "done" /\ s # h
      BY <1>2, <2>3, <2>4 DEF GoJoin, Active
    <3>2. Apart(s, h) \/ WaitsFor(s, h)
      BY <2>3, <2>4, <3>1 DEF Nested, WaitsFor
    <3>3. ASSUME Apart(s, h), Inside(s, h) PROVE FALSE
      BY <3>1, <3>3, TaskType DEF Apart, Inside
    <3>4. ASSUME WaitsFor(s, h), Inside(s, h) PROVE FALSE
      <4>1. s[2] # 1
        BY <3>4 DEF WaitsFor, WaitsSplit
      <4>2. PICK n \in Nat : /\ s[1] < n /\ n < s[1] + s[2]
                             /\ Left(s)[1] = s[1] /\ Left(s)[1] + Left(s)[2] = n
                             /\ Right(s)[1] = n /\ Right(s)[1] + Right(s)[2] = s[1] + s[2]
        BY <4>1, HalfPlaces
      <4> QED
        BY <3>1, <3>4, <4>2, TaskType DEF WaitsFor, Inside
    <3> QED
      BY <3>2, <3>3, <3>4
  <2>5. ASSUME NEW s \in Task, s # t, Active(s)' PROVE Apart(s, t) \/ WaitsFor(s, t)
    <3>1. Apart(s, t) \/ WaitsFor(s, t) \/ WaitsFor(t, s)
      BY <2>3, <2>5 DEF Nested, GoJoin, Active
    <3> QED
      BY <2>4, <2>5, <3>1 DEF WaitsFor
  <2>6. ASSUME NEW s \in Task, NEW x \in Task, s # t, x # t, s # x, Active(s)', Active(x)'
        PROVE  Apart(s, x) \/ WaitsFor(s, x) \/ WaitsFor(x, s)
    BY <2>3, <2>6 DEF Nested
  <2>7. ASSUME NEW s \in Task, NEW x \in Task, s # t, Active(s)', WaitsFor(s, x)
        PROVE  WaitsFor(s, x)'
    BY <2>3, <2>7 DEF WaitsFor, Inside, Left, Right
  <2>8. ASSUME NEW r \in Task, NEW s \in Task, Apart(r, s) PROVE Apart(s, r)
    BY <2>8 DEF Apart
  <2> QED
    BY <2>5, <2>6, <2>7, <2>8 DEF Nested, Apart
<1> QED
  BY <1>3, <1>4, <1>7, <1>8, <1>9, <1>10 DEF Frontier, Sound, Ended, Image, Closed

LEMMA StartLevelInv == ASSUME Inv, StartLevel PROVE Inv'
<1> USE DEF Inv
<1>1. TypeOK'
  BY RootIsTask DEF StartLevel, TypeOK
<1>2. UNCHANGED <<model, visited, new, res>>
  BY DEF StartLevel
<1>3. \A s \in Task : s # Root => status'[s] = "none"
  BY DEF StartLevel, TypeOK, Between, Active
<1>4. status'[Root] = "ready"
  BY RootIsTask DEF StartLevel, TypeOK
<1>5. TasksRight' /\ WaitsSplit' /\ Nested'
  BY <1>3, <1>4 DEF TasksRight, WaitsSplit, Nested, Active
<1>6. Ended' /\ Between'
  BY DEF StartLevel, Ended, Between
<1> QED
  BY <1>1, <1>2, <1>5, <1>6 DEF Frontier, Sound, Image, Closed

LEMMA EndLevelInv == ASSUME Inv, EndLevel PROVE Inv'
<1> USE DEF Inv
<1>1. Root \in Task
  BY RootIsTask
<1>2. TypeOK'
  BY <1>1 DEF EndLevel, TypeOK
\* The first task is done, so that there is no other.
<1>3. ASSUME NEW s \in Task, s # Root, Active(s) PROVE FALSE
  <2>1. Apart(s, Root) \/ WaitsFor(s, Root)
    BY <1>1, <1>3 DEF Nested, Active, EndLevel, WaitsFor
  <2>2. CASE Apart(s, Root)
    BY <2>2, TaskType, NextCountAssumption DEF Apart, Root
  <2>3. CASE WaitsFor(s, Root)
    <3>1. s[2] # 1
      BY <2>3 DEF WaitsFor, WaitsSplit
    <3>2. PICK n \in Nat : /\ s[1] < n /\ n < s[1] + s[2]
                           /\ Left(s)[1] = s[1] /\ Left(s)[1] + Left(s)[2] = n
                           /\ Right(s)[1] = n /\ Right(s)[1] + Right(s)[2] = s[1] + s[2]
      BY <3>1, HalfPlaces
    <3> QED
      BY <2>3, <3>2, TaskType, NextCountAssumption DEF WaitsFor, Inside, Root
  <2> QED
    BY <2>1, <2>2, <2>3
<1>4. \A s \in Task : status'[s] = "none"
  BY <1>1, <1>3 DEF EndLevel, TypeOK, Active
<1>5. TasksRight' /\ WaitsSplit' /\ Nested' /\ Between'
  BY <1>4 DEF TasksRight, WaitsSplit, Nested, Between, Active
<1>6. /\ new' = Found(Root) /\ visited' = visited \cup new'
      /\ model' = model /\ \A i \in Index : Within1(Root, i)
  BY <1>1, RootIsTask DEF EndLevel, TasksRight
<1>7. \A i \in Index : Image(new, model.next[i]) \subseteq visited'
  BY <1>6 DEF Found, Image
<1>8. Frontier'
  <2> SUFFICES ASSUME NEW i \in Index, NEW x \in visited' \ new', NEW y \in State,
                      <<x, y>> \in model.next[i]
               PROVE  y \in visited'
    BY <1>6 DEF Frontier, Image
  <2>1. x \in visited
    BY <1>6
  <2>2. CASE x \in new
    BY <1>7, <2>2 DEF Image
  <2>3. CASE x \notin new
    BY <1>6, <2>1, <2>3 DEF Frontier, Image
  <2> QED
    BY <2>2, <2>3
<1>9. Sound'
  <2>1. model.states \subseteq visited' /\ new' \subseteq visited'
    BY <1>6 DEF Sound
  <2>2. ASSUME NEW C \in SUBSET State, model.states \subseteq C, Closed(C)
        PROVE  visited' \subseteq C
    <3>1. visited \subseteq C /\ new \subseteq C
      BY <2>2 DEF Sound
    <3>2. \A i \in Index : Image(new, model.next[i]) \subseteq C
      BY <2>2, <3>1 DEF Closed, Image
    <3> QED
      BY <1>6, <3>1, <3>2 DEF Found
  <2> QED
    BY <1>6, <2>1, <2>2 DEF Sound, Closed, Image
<1>10. Ended'
  BY DEF EndLevel, Ended
<1> QED
  BY <1>2, <1>5, <1>8, <1>9, <1>10

LEMMA NextInv == ASSUME Inv, [Next]_vars PROVE Inv'
<1>1. CASE CountStates
  <2>1. UNCHANGED <<model, visited, new, counter, status, res>> /\ pc = "count" /\ pc' = "end"
    BY <1>1 DEF CountStates
  <2>2. count' \in Nat
    BY <1>1, StateAssumption, FS_Subset, FS_CardinalityType DEF CountStates, Inv, TypeOK
  <2>3. TypeOK' /\ TasksRight' /\ WaitsSplit'
    BY <2>1, <2>2 DEF Inv, TypeOK, TasksRight, WaitsSplit, Found, Within1, Image
  <2>4. Nested' /\ Between'
    BY <2>1 DEF Inv, Nested, Between, Active, Apart, WaitsFor, Inside, Left, Right
  <2>5. Frontier' /\ Sound' /\ Ended'
    BY <2>1 DEF Inv, Frontier, Sound, Ended, Image, Closed
  <2> QED
    BY <2>3, <2>4, <2>5 DEF Inv
<1>2. CASE UNCHANGED vars
  <2>1. UNCHANGED <<model, pc, visited, new, counter, status, res, count>>
    BY <1>2 DEF vars
  <2>2. TypeOK' /\ TasksRight' /\ WaitsSplit'
    BY <2>1 DEF Inv, TypeOK, TasksRight, WaitsSplit, Found, Within1, Image
  <2>3. Nested' /\ Between'
    BY <2>1 DEF Inv, Nested, Between, Active, Apart, WaitsFor, Inside, Left, Right
  <2>4. Frontier' /\ Sound' /\ Ended'
    BY <2>1 DEF Inv, Frontier, Sound, Ended, Image, Closed
  <2> QED
    BY <2>2, <2>3, <2>4 DEF Inv
<1> QED
  BY <1>1, <1>2, GoLeafInv, GoSplitInv, GoJoinInv, StartLevelInv, EndLevelInv DEF Next

-----------------------------------------------------------------------------
(* The results *)

LEMMA InvHolds == Spec => []Inv
  BY InitInv, NextInv, PTL DEF Spec

\* Every variable keeps its type; no task is about relations that are not there.
THEOREM TypeCorrect == Spec => []TypeOK
<1>1. Inv => TypeOK
  BY DEF Inv
<1> QED
  BY <1>1, InvHolds, PTL

\* bdd_par ends with the least set of states that has the initial ones and is
\* closed under every relation: the reachable states.
THEOREM FindsReachableHolds == Spec => []FindsReachable
<1>1. ASSUME Inv, pc \in {"count", "end"}
      PROVE  /\ model.states \subseteq visited /\ Closed(visited)
             /\ \A C \in SUBSET State : model.states \subseteq C /\ Closed(C) => visited \subseteq C
  <2>1. visited \ new = visited
    BY <1>1 DEF Inv, Ended
  <2> QED
    BY <1>1, <2>1 DEF Inv, Sound, Frontier, Closed
<1>2. Inv => FindsReachable
  BY <1>1 DEF FindsReachable
<1> QED
  BY <1>2, InvHolds, PTL


-----------------------------------------------------------------------------
(* The levels: Within is a recursive function, and its existence is shown here *)

\* Induction over the naturals, for sets: a number left out would have a least.
LEMMA NatSet ==
  ASSUME NEW S, 0 \in S, \A n \in Nat : n \in S => n + 1 \in S
  PROVE  \A n \in Nat : n \in S
<1> DEFINE T == Nat \ S
<1> SUFFICES ASSUME T # {} PROVE FALSE
  OBVIOUS
<1>1. \E m \in T : \A n \in T : ~(<<n, m>> \in OpToRel(<, Nat))
  <2>1. T \subseteq Nat
    OBVIOUS
  <2> HIDE DEF T
  <2> QED
    BY <2>1, NatLessThanWellFounded, WFMin
<1>2. PICK m \in T : \A n \in T : ~(<<n, m>> \in OpToRel(<, Nat))
  BY <1>1
<1>3. m \in Nat /\ m # 0 /\ m \notin S
  OBVIOUS
<1>4. m - 1 \in Nat /\ m - 1 < m /\ (m - 1) + 1 = m
  BY <1>3
<1>5. <<m - 1, m>> \in OpToRel(<, Nat)
  BY <1>3, <1>4 DEF OpToRel
<1>6. m - 1 \in S
  BY <1>2, <1>4, <1>5
<1> QED
  BY <1>3, <1>4, <1>6

\* One level more.
Wider(A) == A \cup UNION {Image(A, model.next[i]) : i \in Index}

\* The first n levels.
Chain(h, n) ==
  /\ h \in [0 .. n -> SUBSET State]
  /\ h[0] = model.states
  /\ \A i \in 1 .. n : h[i] = Wider(h[i - 1])

LEMMA WiderType == ASSUME NEW A \in SUBSET State PROVE Wider(A) \in SUBSET State
  BY DEF Wider, Image

LEMMA ChainExists ==
  ASSUME model \in Models
  PROVE  \A n \in Nat : \E h : Chain(h, n)
<1> DEFINE S == {n \in Nat : \E h : Chain(h, n)}
<1>1. 0 \in S
  <2>1. Chain([i \in 0 .. 0 |-> model.states], 0)
    BY ModelType DEF Chain
  <2> QED
    BY <2>1
<1>2. ASSUME NEW n \in Nat, n \in S PROVE n + 1 \in S
  <2>1. PICK h : Chain(h, n)
    BY <1>2
  <2> DEFINE g == [i \in 0 .. n + 1 |-> IF i = n + 1 THEN Wider(h[n]) ELSE h[i]]
  <2>2. h[n] \in SUBSET State
    BY <2>1 DEF Chain
  <2>3. g \in [0 .. n + 1 -> SUBSET State]
    BY <2>1, <2>2, WiderType DEF Chain
  <2>4. ASSUME NEW i \in 1 .. n + 1 PROVE g[i] = Wider(g[i - 1])
    <3>1. CASE i = n + 1
      BY <3>1
    <3>2. CASE i # n + 1
      BY <2>1, <3>2 DEF Chain
    <3> QED
      BY <3>1, <3>2
  <2>5. g[0] = model.states
    BY <2>1 DEF Chain
  <2>6. Chain(g, n + 1)
    BY <2>3, <2>4, <2>5 DEF Chain
  <2> QED
    BY <2>6
<1>3. \A n \in Nat : n \in S
  <2> HIDE DEF S
  <2> QED
    BY <1>1, <1>2, NatSet
<1> QED
  BY <1>3

LEMMA ChainsAgree ==
  ASSUME NEW m \in Nat, NEW n \in Nat, NEW g, NEW h, Chain(g, m), Chain(h, n)
  PROVE  \A i \in Nat : i <= m /\ i <= n => g[i] = h[i]
<1> DEFINE S == {i \in Nat : i <= m /\ i <= n => g[i] = h[i]}
<1>1. 0 \in S
  BY DEF Chain
<1>2. ASSUME NEW i \in Nat, i \in S PROVE i + 1 \in S
  <2> SUFFICES ASSUME i + 1 <= m, i + 1 <= n PROVE g[i + 1] = h[i + 1]
    OBVIOUS
  <2>1. i + 1 \in 1 .. m /\ i + 1 \in 1 .. n /\ (i + 1) - 1 = i
    OBVIOUS
  <2>2. g[i] = h[i]
    BY <1>2
  <2>3. g[i + 1] = Wider(g[i]) /\ h[i + 1] = Wider(h[i])
    BY <2>1 DEF Chain
  <2> QED
    BY <2>2, <2>3
<1>3. \A i \in Nat : i \in S
  <2> HIDE DEF S
  <2> QED
    BY <1>1, <1>2, NatSet
<1> QED
  BY <1>3

\* The recursive definition of Within defines a function.
LEMMA WithinIs ==
  ASSUME model \in Models
  PROVE  /\ Within[0] = model.states
         /\ \A n \in Nat : Within[n + 1] = Wider(Within[n])
<1> DEFINE First(n) == CHOOSE h : Chain(h, n)
           W == [n \in Nat |-> First(n)[n]]
<1>1. \A n \in Nat : Chain(First(n), n)
  BY ChainExists
<1>2. W[0] = model.states
  BY <1>1 DEF Chain
<1>3. ASSUME NEW n \in Nat, n # 0 PROVE W[n] = Wider(W[n - 1])
  <2>1. n - 1 \in Nat /\ n \in 1 .. n /\ n - 1 <= n
    BY <1>3
  <2>2. Chain(First(n), n) /\ Chain(First(n - 1), n - 1)
    BY <1>1, <2>1
  <2>3. First(n)[n] = Wider(First(n)[n - 1])
    BY <2>1, <2>2 DEF Chain
  <2>4. First(n)[n - 1] = First(n - 1)[n - 1]
    <3> HIDE DEF First
    <3> QED
      BY <2>1, <2>2, ChainsAgree
  <2> QED
    BY <2>1, <2>3, <2>4
<1>4. W = [n \in Nat |-> IF n = 0 THEN model.states
             ELSE W[n - 1] \cup UNION {Image(W[n - 1], model.next[i]) : i \in Index}]
  <2>1. ASSUME NEW n \in Nat
        PROVE  W[n] = IF n = 0 THEN model.states
                 ELSE W[n - 1] \cup UNION {Image(W[n - 1], model.next[i]) : i \in Index}
    <3> HIDE DEF W
    <3> QED
      BY <1>2, <1>3 DEF Wider
  <2>2. W = [n \in Nat |-> W[n]]
    OBVIOUS
  <2> HIDE DEF W
  <2> QED
    BY <2>1, <2>2
<1>5. Within = [n \in Nat |-> IF n = 0 THEN model.states
             ELSE Within[n - 1] \cup UNION {Image(Within[n - 1], model.next[i]) : i \in Index}]
  <2> HIDE DEF W
  <2> QED
    BY <1>4 DEF Within
<1>6. \A n \in Nat : Within[n] = IF n = 0 THEN model.states ELSE Wider(Within[n - 1])
  <2> DEFINE F(n) == IF n = 0 THEN model.states
                     ELSE Within[n - 1] \cup UNION {Image(Within[n - 1], model.next[i]) : i \in Index}
  <2>1. Within = [n \in Nat |-> F(n)]
    BY <1>5
  <2>2. \A n \in Nat : F(n) = IF n = 0 THEN model.states ELSE Wider(Within[n - 1])
    BY DEF Wider
  <2> HIDE DEF F
  <2> QED
    BY <2>1, <2>2
<1>7. ASSUME NEW n \in Nat PROVE Within[n + 1] = Wider(Within[n])
  <2>1. PICK m \in Nat : m = n + 1 /\ m # 0 /\ m - 1 = n
    OBVIOUS
  <2> QED
    BY <1>6, <2>1
<1> QED
  BY <1>6, <1>7

LEMMA WithinStays == ASSUME model' = model PROVE Within' = Within
  BY DEF Within, Image

-----------------------------------------------------------------------------
(* Breadth first *)

\* Of a level only the states visited before it are known; what it will find
\* follows from TasksRight and Frontier.
LevelInv ==
  /\ pc \in {"loop", "level"} => counter >= 1
  /\ LevelsExact
  /\ pc = "level" => counter >= 2 /\ visited = Within[counter - 2]

LEMMA LevelInit == Init => LevelInv
<1> SUFFICES ASSUME Init PROVE LevelInv
  OBVIOUS
<1>1. Within[0] = model.states
  BY WithinIs DEF Init
<1> QED
  BY <1>1 DEF Init, LevelInv, LevelsExact

LEMMA TaskLevel ==
  ASSUME LevelInv, UNCHANGED <<model, pc, visited, new, counter>>
  PROVE  LevelInv'
<1>1. Within' = Within
  BY WithinStays
<1> QED
  BY <1>1 DEF LevelInv, LevelsExact

LEMMA StartLevelLevel ==
  ASSUME Inv, LevelInv, StartLevel
  PROVE  LevelInv'
<1>1. Within' = Within
  BY WithinStays DEF StartLevel
<1>2. counter \in Nat /\ counter >= 1 /\ counter' = counter + 1 /\ pc' = "level"
      /\ visited' = visited /\ visited = Within[counter - 1]
  BY DEF StartLevel, LevelInv, LevelsExact, Inv, TypeOK
<1>3. counter' >= 2 /\ counter' - 2 = counter - 1
  BY <1>2
<1> QED
  BY <1>1, <1>2, <1>3 DEF LevelInv, LevelsExact

\* What a level finds are the states one step further that were not visited.
LEMMA EndLevelLevel ==
  ASSUME Inv, LevelInv, EndLevel
  PROVE  LevelInv'
<1>1. Within' = Within
  BY WithinStays DEF EndLevel
<1>2. PICK n \in Nat : n = counter - 2 /\ counter = n + 2
  BY DEF EndLevel, LevelInv, Inv, TypeOK
<1>3. counter' = counter /\ counter - 1 = n + 1 /\ counter # 1 /\ pc' \in {"loop", "count"}
  BY <1>2 DEF EndLevel
<1>4. visited = Within[n] /\ model \in Models
  BY <1>2 DEF EndLevel, LevelInv, Inv, TypeOK
<1>5. Within[n + 1] = Wider(visited)
  BY <1>4, WithinIs
<1>6. /\ new' = Found(Root) /\ visited' = visited \cup new'
      /\ \A i \in Index : Within1(Root, i)
  BY RootIsTask DEF EndLevel, Inv, TasksRight
<1>7. /\ new \subseteq visited
      /\ \A i \in Index : Image(visited \ new, model.next[i]) \subseteq visited
      /\ \A i \in Index : Image(new, model.next[i]) \subseteq State
  BY DEF Inv, Sound, Frontier, Image
<1>8. Found(Root) = Wider(visited) \ visited
  <2>1. ASSUME NEW y \in Found(Root) PROVE y \in Wider(visited) \ visited
    BY <1>7 DEF Found, Wider, Image
  <2>2. ASSUME NEW y \in Wider(visited) \ visited PROVE y \in Found(Root)
    <3>1. PICK i \in Index : y \in Image(visited, model.next[i])
      BY DEF Wider
    <3>2. PICK x \in visited : <<x, y>> \in model.next[i] /\ y \in State
      BY <3>1 DEF Image
    <3>3. x \in new
      BY <1>7, <3>2 DEF Image
    <3> QED
      BY <1>6, <3>2, <3>3 DEF Found, Image
  <2> QED
    BY <2>1, <2>2
<1>9. visited' = Within[n + 1] /\ new' = Within[n + 1] \ Within[n]
  BY <1>4, <1>5, <1>6, <1>8 DEF Wider
<1> QED
  BY <1>1, <1>2, <1>3, <1>9 DEF LevelInv, LevelsExact

LEMMA LevelNext ==
  ASSUME Inv, LevelInv, [Next]_vars
  PROVE  LevelInv'
<1>1. CASE \E t \in Task : GoLeaf(t) \/ GoSplit(t) \/ GoJoin(t)
  BY <1>1, TaskLevel DEF GoLeaf, GoSplit, GoJoin
<1>2. CASE CountStates
  BY <1>2 DEF CountStates, LevelInv, LevelsExact
<1>3. CASE UNCHANGED vars
  BY <1>3, TaskLevel DEF vars
<1> QED
  BY <1>1, <1>2, <1>3, StartLevelLevel, EndLevelLevel DEF Next

\* The search goes breadth first, for every model: before each level it has
\* visited exactly the states within that distance, and each is new only once.
THEOREM LevelsExactHolds == Spec => []LevelsExact
<1>1. Inv /\ LevelInv /\ Inv' /\ [Next]_vars => LevelInv'
  BY LevelNext
<1>2. LevelInv => LevelsExact
  BY DEF LevelInv
<1> QED
  BY LevelInit, InvHolds, <1>1, <1>2, PTL DEF Spec
=============================================================================
