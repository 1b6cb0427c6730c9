---------------------------- MODULE ClockProofs -----------------------------
(***************************************************************************)
(* Clock implements DeferredSchedule, for every set of tasks, every delay  *)
(* and every increment; and pass_realtime keeps up with the host's clock.  *)
(***************************************************************************)
EXTENDS Clock, SequenceTheorems, TLAPS

LEMMA InitIInv == Init => IInv
BY ClockAssumption DEF Init, IInv, TypeOK, PassTimeAsserts, OnePlaceEach, DeadlinesKept,
   FifoGroups, Due, Queued, Promise!Init

(* What TypeOK says of the elements of the delta list. *)
LEMMA Elements ==
  ASSUME TypeOK
  PROVE  /\ Len(queue) \in Nat
         /\ \A i \in 1..Len(queue) :
              /\ queue[i].left \in Int
              /\ queue[i].tasks \in Seq(Task)
              /\ Len(queue[i].tasks) \in Nat \ {0}
              /\ \A k \in 1..Len(queue[i].tasks) : queue[i].tasks[k] \in Task
         /\ queue # <<>> => 1 \in 1..Len(queue)
<1>1. queue \in Seq([left : Int, tasks : Seq(Task)])
  BY DEF TypeOK
<1>2. \A i \in 1..Len(queue) : queue[i] \in [left : Int, tasks : Seq(Task)]
  BY <1>1, ElementOfSeq
<1>3. Len(queue) \in Nat /\ (queue # <<>> => 1 \in 1..Len(queue))
  BY <1>1
<1>4. ASSUME NEW i \in 1..Len(queue)
      PROVE  /\ queue[i].left \in Int
             /\ queue[i].tasks \in Seq(Task)
             /\ Len(queue[i].tasks) \in Nat \ {0}
             /\ \A k \in 1..Len(queue[i].tasks) : queue[i].tasks[k] \in Task
  <2>1. queue[i].left \in Int /\ queue[i].tasks \in Seq(Task) /\ queue[i].tasks # <<>>
    BY <1>2 DEF TypeOK
  <2>2. \A k \in 1..Len(queue[i].tasks) : queue[i].tasks[k] \in Task
    BY <2>1, ElementOfSeq
  <2>3. Len(queue[i].tasks) \in Nat \ {0}
    BY <2>1, EmptySeq
  <2>4. QED
    BY <2>1, <2>2, <2>3
<1>5. QED
  BY <1>3, <1>4

(* A task stands at one place of the delta list.                             *)
LEMMA DistinctPlaces ==
  ASSUME OnePlaceEach, NEW i \in 1..Len(queue), NEW j \in 1..Len(queue),
         NEW k \in 1..Len(queue[i].tasks), NEW l \in 1..Len(queue[j].tasks),
         queue[i].tasks[k] = queue[j].tasks[l]
  PROVE  i = j /\ k = l
BY Zenon DEF OnePlaceEach

LEMMA RunTaskIInv == IInv /\ RunTask => IInv'
<1> SUFFICES ASSUME IInv, RunTask PROVE IInv'
  OBVIOUS
<1> USE ClockAssumption
<1> DEFINE x == queue[1].tasks[pos]
<1>1. /\ TypeOK /\ PassTimeAsserts /\ OnePlaceEach /\ DeadlinesKept /\ FifoGroups
      /\ pos > 0 /\ call = NoCall /\ pos <= Len(queue[1].tasks)
      /\ pos' = pos + 1
      /\ UNCHANGED <<time, queue, call>>
      /\ pending' = pending \ {x}
      /\ due' = [due EXCEPT ![x] = 0]
      /\ older' = {p \in older : p[1] # x /\ p[2] # x}
  BY DEF IInv, RunTask
<1>a. x \in Task /\ 1 \in 1..Len(queue) /\ pos \in 1..Len(queue[1].tasks) /\ Len(queue[1].tasks) \in Nat
  BY <1>1, Elements DEF TypeOK
<1>2. TypeOK'
  BY <1>1, <1>a DEF TypeOK
<1>3. PassTimeAsserts'
  BY <1>1, <1>a DEF PassTimeAsserts, TypeOK
<1>4. OnePlaceEach'
  BY <1>1, <1>a, Elements DEF OnePlaceEach, Queued
<1>5. DeadlinesKept'
  <2>1. ASSUME NEW i \in 1..Len(queue), NEW k \in 1..Len(queue[i].tasks),
               ~(i = 1 /\ k = pos)
        PROVE  due'[queue[i].tasks[k]] = due[queue[i].tasks[k]]
    <3>1. queue[i].tasks[k] # x
      BY <1>1, <1>a, <2>1, Elements DEF OnePlaceEach
    <3>2. queue[i].tasks[k] \in Task
      BY <1>1, Elements
    <3>3. QED
      BY <1>1, <1>a, <3>1, <3>2 DEF TypeOK
  <2>2. \A i \in 1..Len(queue) : Due(i)' = Due(i)
    BY <1>1, <1>a, <2>1, Elements DEF Due
  <2>3. \A i \in 1..Len(queue) : \A k \in 1..Len(queue[i].tasks) :
           (i = 1 /\ k < pos') \/ due'[queue[i].tasks[k]] = Due(i)'
    BY <1>1, <1>a, <2>1, <2>2, Elements DEF DeadlinesKept
  <2>4. \A i \in 2..Len(queue) : Due(i)' = Due(i - 1)' + queue[i].left
    <3>1. \A i \in 2..Len(queue) : i \in 1..Len(queue) /\ i - 1 \in 1..Len(queue)
      BY <1>1, Elements
    <3>2. QED
      BY <1>1, <2>2, <3>1 DEF DeadlinesKept
  <2>5. \A i, j \in 1..Len(queue) : i < j => Due(i)' < Due(j)'
    BY <1>1, <2>2 DEF DeadlinesKept
  <2>6. QED
    BY <1>1, <2>3, <2>4, <2>5 DEF DeadlinesKept
<1>6. FifoGroups'
  <2>1. ASSUME NEW i \in 1..Len(queue), NEW k \in 1..Len(queue[i].tasks),
               NEW l \in 1..Len(queue[i].tasks), k < l, ~(i = 1 /\ k < pos')
        PROVE  <<queue[i].tasks[k], queue[i].tasks[l]>> \in older'
    <3>1. queue[i].tasks[k] # x /\ queue[i].tasks[l] # x
      BY <1>1, <1>a, <2>1, Elements DEF OnePlaceEach
    <3>2. <<queue[i].tasks[k], queue[i].tasks[l]>> \in older
      BY <1>1, <1>a, <2>1, Elements DEF FifoGroups
    <3>3. QED
      BY <1>1, <3>1, <3>2
  <2>2. QED
    BY <1>1, <2>1 DEF FifoGroups
<1>7. QED
  BY <1>2, <1>3, <1>4, <1>5, <1>6 DEF IInv

LEMMA SetTimeIInv ==
  ASSUME NEW s \in 0..SecWrap - 1, NEW ns \in SetNsec, IInv, SetTime(s, ns)
  PROVE  IInv'
<1>1. TypeOK'
  BY ClockAssumption DEF IInv, TypeOK, SetTime
<1>2. UNCHANGED <<queue, pos, call, pending, due, older>>
  BY DEF SetTime
<1>3. QED
  BY <1>1, <1>2 DEF IInv, PassTimeAsserts, OnePlaceEach, DeadlinesKept, FifoGroups, Due, Queued

LEMMA TimespecType ==
  ASSUME NEW ts \in [sec : 0..SecWrap - 1, nsec : Nat], NEW n \in Nat
  PROVE  TimespecAdd(ts, n) \in [sec : 0..SecWrap - 1, nsec : Nat]
BY ClockAssumption DEF TimespecAdd

LEMMA IncrementTimeIInv ==
  ASSUME NEW n \in Increment, IInv, IncrementTime(n)
  PROVE  IInv'
<1>1. /\ TypeOK /\ PassTimeAsserts /\ OnePlaceEach /\ DeadlinesKept /\ FifoGroups
      /\ pos = 0 /\ call = NoCall
      /\ time' = TimespecAdd(time, n)
      /\ due' = [t \in Task |-> IF t \in pending THEN due[t] - n ELSE 0]
      /\ UNCHANGED <<call, pending, older>>
      /\ n \in Nat \ {0}
  BY ClockAssumption DEF IInv, IncrementTime, Idle
<1>2. time' \in [sec : 0..SecWrap - 1, nsec : Nat] /\ due' \in [Task -> Int]
  <2>1. time \in [sec : 0..SecWrap - 1, nsec : Nat] /\ due \in [Task -> Int] /\ n \in Nat
    BY <1>1 DEF TypeOK
  <2>2. TimespecAdd(time, n) \in [sec : 0..SecWrap - 1, nsec : Nat]
    BY <2>1, TimespecType
  <2>3. due' \in [Task -> Int]
    BY <1>1, <2>1
  <2>4. QED
    BY <1>1, <2>2, <2>3
<1>3. CASE queue = <<>>
  <2>1. UNCHANGED <<queue, pos>>
    BY <1>3 DEF IncrementTime
  <2>2. QED
    BY <1>1, <1>2, <1>3, <2>1 DEF IInv, TypeOK, PassTimeAsserts, OnePlaceEach, DeadlinesKept,
       FifoGroups, Due, Queued
<1>4. CASE queue # <<>>
  <2>1. /\ queue' = [queue EXCEPT ![1].left = @ - n]
        /\ pos' = IF queue[1].left - n <= 0 THEN 1 ELSE 0
    BY <1>4 DEF IncrementTime, PassTimeOnFront
  <2>2. 1 \in 1..Len(queue) /\ Len(queue) \in Nat /\ queue[1].left \in Int
    BY <1>1, <1>4, Elements
  <2>3. /\ queue' \in Seq([left : Int, tasks : Seq(Task)])
        /\ Len(queue') = Len(queue)
        /\ queue'[1].left = queue[1].left - n
        /\ \A i \in 1..Len(queue) :
             /\ queue'[i].tasks = queue[i].tasks
             /\ i # 1 => queue'[i].left = queue[i].left
    <3>1. queue \in Seq([left : Int, tasks : Seq(Task)]) /\ n \in Int
      BY <1>1 DEF TypeOK
    <3>2. queue[1] \in [left : Int, tasks : Seq(Task)]
      BY <2>2, <3>1, ElementOfSeq
    <3>3. DEFINE e == [queue[1] EXCEPT !.left = @ - n]
    <3>4. e \in [left : Int, tasks : Seq(Task)] /\ e.left = queue[1].left - n
          /\ e.tasks = queue[1].tasks
      <4>1. queue[1].left - n \in Int
        BY <2>2, <3>1
      <4>2. e = [left |-> queue[1].left - n, tasks |-> queue[1].tasks]
        BY <3>2
      <4>3. QED
        BY <3>2, <4>1, <4>2
    <3>5. queue' = [queue EXCEPT ![1] = e]
      BY <2>1
    <3> HIDE DEF e
    <3>6. /\ queue' \in Seq([left : Int, tasks : Seq(Task)])
          /\ Len(queue') = Len(queue)
          /\ \A j \in 1..Len(queue) : queue'[j] = IF j = 1 THEN e ELSE queue[j]
      BY <2>2, <3>1, <3>4, <3>5, ExceptSeq
    <3>7. QED
      BY <2>2, <3>4, <3>6
  <2>4. TypeOK'
    <3>1. \A i \in 1..Len(queue') : queue'[i].tasks # <<>>
      BY <1>1, <2>3 DEF TypeOK
    <3>2. pos' \in {0, 1} /\ queue' # <<>> /\ pos' <= Len(queue'[1].tasks) + 1
      <4>1. Len(queue[1].tasks) \in Nat /\ queue'[1].tasks = queue[1].tasks
        BY <1>1, <2>2, <2>3, Elements
      <4>2. pos' \in {0, 1}
        BY <2>1
      <4>3. queue' # <<>>
        BY <2>2, <2>3, EmptySeq
      <4>4. QED
        BY <4>1, <4>2, <4>3
    <3>3. call' = NoCall /\ pending' \in SUBSET Task /\ older' \in SUBSET (Task \X Task)
      BY <1>1 DEF TypeOK
    <3>4. pos' \in Nat
      BY <3>2
    <3>5. QED
      BY <1>2, <2>3, <3>1, <3>2, <3>3, <3>4 DEF TypeOK
  <2>5. PassTimeAsserts'
    BY <1>1, <2>1, <2>2, <2>3, Elements DEF PassTimeAsserts
  <2>6. OnePlaceEach'
    <3>1. \A t : Queued(t)' <=> Queued(t)
      BY <2>2, <2>3 DEF Queued
    <3>2. \A i \in 1..Len(queue) : \A k \in 1..Len(queue[i].tasks) :
             queue[i].tasks[k] \in pending' <=> ~(i = 1 /\ k < pos')
      BY <1>1, <2>1, <2>2, Elements DEF OnePlaceEach
    <3>3. QED
      <4>1. \A i \in 1..Len(queue) : queue'[i].tasks = queue[i].tasks
        BY <2>3
      <4>2. \A i, j \in 1..Len(queue') :
              \A k \in 1..Len(queue'[i].tasks), l \in 1..Len(queue'[j].tasks) :
                 queue'[i].tasks[k] = queue'[j].tasks[l] => i = j /\ k = l
        <5>1. SUFFICES ASSUME NEW i \in 1..Len(queue'), NEW j \in 1..Len(queue'),
                              NEW k \in 1..Len(queue'[i].tasks),
                              NEW l \in 1..Len(queue'[j].tasks),
                              queue'[i].tasks[k] = queue'[j].tasks[l]
                       PROVE  i = j /\ k = l
          OBVIOUS
        <5>2. /\ i \in 1..Len(queue) /\ queue'[i].tasks = queue[i].tasks
              /\ j \in 1..Len(queue) /\ queue'[j].tasks = queue[j].tasks
          BY <2>3, <4>1
        <5>3. QED
          BY <1>1, <5>1, <5>2 DEF OnePlaceEach
      <4>3. \A i \in 1..Len(queue') : \A k \in 1..Len(queue'[i].tasks) :
              queue'[i].tasks[k] \in pending' <=> ~(i = 1 /\ k < pos')
        BY <2>3, <3>2, <4>1
      <4>4. \A t \in pending' : Queued(t)'
        BY <1>1, <3>1 DEF OnePlaceEach
      <4>5. QED
        BY <1>1, <4>2, <4>3, <4>4 DEF OnePlaceEach
  <2>7. ASSUME NEW i \in 1..Len(queue), NEW k \in 1..Len(queue[i].tasks)
        PROVE  due'[queue[i].tasks[k]] = due[queue[i].tasks[k]] - n
    BY <1>1, <2>2, Elements DEF OnePlaceEach
  <2>8. \A i \in 1..Len(queue) : Due(i)' = Due(i) - n /\ Due(i) \in Int
    <3>1. ASSUME NEW i \in 1..Len(queue)
          PROVE  /\ due'[queue[i].tasks[1]] = due[queue[i].tasks[1]] - n
                 /\ due[queue[i].tasks[1]] \in Int
      <4>1. 1 \in 1..Len(queue[i].tasks) /\ queue[i].tasks[1] \in Task
        BY <1>1, Elements
      <4>2. QED
        BY <1>1, <2>7, <4>1 DEF TypeOK
    <3>2. QED
      BY <2>2, <2>3, <3>1 DEF Due
  <2>9. DeadlinesKept'
    <3>1. ASSUME NEW i \in 1..Len(queue), NEW k \in 1..Len(queue[i].tasks)
          PROVE  due'[queue[i].tasks[k]] = Due(i)'
      <4>1. due'[queue[i].tasks[k]] = due[queue[i].tasks[k]] - n
        BY <2>7
      <4>2. k \in Nat /\ 1 <= k /\ ~(i = 1 /\ k < pos)
        BY <1>1, Elements
      <4>3. due[queue[i].tasks[k]] = Due(i)
        BY <1>1, <4>2 DEF DeadlinesKept
      <4>4. QED
        BY <2>8, <4>1, <4>3
    <3>2. \A i \in 2..Len(queue) : Due(i)' = Due(i - 1)' + queue[i].left
      <4>1. SUFFICES ASSUME NEW i \in 2..Len(queue)
                     PROVE  Due(i)' = Due(i - 1)' + queue[i].left
        OBVIOUS
      <4>2. i \in 1..Len(queue) /\ i - 1 \in 1..Len(queue)
        BY <2>2
      <4>3. Due(i) = Due(i - 1) + queue[i].left
        BY <1>1 DEF DeadlinesKept
      <4>4. queue[i].left \in Int /\ Due(i - 1) \in Int
        BY <1>1, <2>8, <4>2, Elements
      <4>5. Due(i)' = Due(i) - n /\ Due(i - 1)' = Due(i - 1) - n
        BY <2>8, <4>2
      <4>6. QED
        BY <1>1, <4>3, <4>4, <4>5
    <3>3. \A i, j \in 1..Len(queue) : i < j => Due(i)' < Due(j)'
      BY <1>1, <2>8 DEF DeadlinesKept
    <3>4. ASSUME NEW i \in 2..Len(queue) PROVE queue'[i].left = queue[i].left
      <4>1. i \in 1..Len(queue) /\ i # 1
        BY <2>2
      <4>2. QED
        BY <2>3, <4>1
    <3>5. QED
      BY <1>1, <2>2, <2>3, <3>1, <3>2, <3>3, <3>4 DEF DeadlinesKept
  <2>10. FifoGroups'
    <3>1. SUFFICES ASSUME NEW i \in 1..Len(queue'), NEW k \in 1..Len(queue'[i].tasks),
                          NEW l \in 1..Len(queue'[i].tasks), k < l
                   PROVE  <<queue'[i].tasks[k], queue'[i].tasks[l]>> \in older'
      BY <1>1 DEF FifoGroups
    <3>2. i \in 1..Len(queue) /\ queue'[i].tasks = queue[i].tasks
      BY <2>3
    <3>3. ~(i = 1 /\ k < pos)
      BY <1>1, <3>1
    <3>4. <<queue[i].tasks[k], queue[i].tasks[l]>> \in older
      BY <1>1, <3>1, <3>2, <3>3 DEF FifoGroups
    <3>5. QED
      BY <1>1, <3>2, <3>4
  <2>11. QED
    BY <2>4, <2>5, <2>6, <2>9, <2>10 DEF IInv
<1>5. QED
  BY <1>3, <1>4

LEMMA EndGroupIInv ==
  ASSUME IInv, EndGroup
  PROVE  IInv'
<1>1. /\ TypeOK /\ PassTimeAsserts /\ OnePlaceEach /\ DeadlinesKept /\ FifoGroups
      /\ pos > 0 /\ call = NoCall /\ pos > Len(queue[1].tasks)
      /\ AfterGroup(Tail(queue), queue[1].left)
      /\ UNCHANGED <<time, call, pending, due, older>>
  BY DEF IInv, EndGroup
<1>2. /\ queue # <<>> /\ 1 \in 1..Len(queue) /\ Len(queue) \in Nat
      /\ queue[1].left \in Int /\ queue[1].left <= 0
      /\ pos = Len(queue[1].tasks) + 1
  BY <1>1, Elements DEF TypeOK, PassTimeAsserts
<1>3. /\ Tail(queue) \in Seq([left : Int, tasks : Seq(Task)])
      /\ Len(Tail(queue)) = Len(queue) - 1
      /\ \A i \in 1..Len(Tail(queue)) : Tail(queue)[i] = queue[i + 1]
  BY <1>1, <1>2, HeadTailProperties DEF TypeOK
<1> DEFINE q == Tail(queue)
<1>4. /\ queue' \in Seq([left : Int, tasks : Seq(Task)])
      /\ Len(queue') = Len(queue) - 1
      /\ \A i \in 1..Len(queue') :
            /\ i + 1 \in 1..Len(queue)
            /\ queue'[i].tasks = queue[i + 1].tasks
            /\ queue'[i].left = IF i = 1 THEN Due(2) ELSE queue[i + 1].left
      /\ pos' = IF Len(queue) > 1 /\ Due(2) <= 0 THEN 1 ELSE 0
  <2>1. Len(queue) > 1 => Due(2) = queue[1].left + queue[2].left /\ queue[2].left \in Int
    BY <1>1, <1>2, Elements DEF DeadlinesKept, Due
  <2>2. CASE queue[1].left >= 0 \/ q = <<>>
    <3>1. queue' = q /\ pos' = 0
      BY <1>1, <2>2 DEF AfterGroup
    <3>2. Len(queue) > 1 => Due(2) = queue[2].left /\ Due(2) > 0
      <4>1. Len(queue) > 1 => q # <<>> /\ queue[2].left > 0
        <5>1. Len(queue) > 1 => 2 \in 1..Len(queue)
          BY <1>2
        <5>2. Len(queue) > 1 => queue[2].left > 0
          BY <1>1, <5>1 DEF PassTimeAsserts
        <5>3. Len(queue) > 1 => Len(q) # 0
          BY <1>2, <1>3
        <5>4. QED
          BY <5>2, <5>3, EmptySeq
      <4>2. QED
        BY <1>2, <2>1, <2>2, <4>1
    <3> HIDE DEF q
    <3>3. ASSUME NEW i \in 1..Len(queue')
          PROVE  /\ i + 1 \in 1..Len(queue)
                 /\ queue'[i].tasks = queue[i + 1].tasks
                 /\ queue'[i].left = IF i = 1 THEN Due(2) ELSE queue[i + 1].left
      <4>1. i + 1 \in 1..Len(queue) /\ queue'[i] = queue[i + 1]
        BY <1>2, <1>3, <3>1 DEF q
      <4>2. CASE i = 1
        BY <1>2, <3>2, <4>1, <4>2
      <4>3. CASE i # 1
        BY <4>1, <4>3
      <4>4. QED
        BY <4>2, <4>3
    <3>4. QED
      <4>1. queue' \in Seq([left : Int, tasks : Seq(Task)]) /\ Len(queue') = Len(queue) - 1
        BY <1>3, <3>1 DEF q
      <4>2. pos' = IF Len(queue) > 1 /\ Due(2) <= 0 THEN 1 ELSE 0
        <5>1. Len(queue) > 1 => ~(Due(2) <= 0)
          BY <1>2, <2>1, <3>2
        <5>2. QED
          BY <3>1, <5>1
      <4>3. QED
        BY <3>3, <4>1, <4>2
  <2>3. CASE ~(queue[1].left >= 0 \/ q = <<>>)
    <3>1. /\ queue' = [q EXCEPT ![1].left = @ - (- queue[1].left)]
          /\ pos' = IF q[1].left - (- queue[1].left) <= 0 THEN 1 ELSE 0
      BY <1>1, <2>3 DEF AfterGroup, PassTimeOnFront
    <3>2. Len(queue) > 1 /\ 1 \in 1..Len(q) /\ q[1] = queue[2]
      BY <1>2, <1>3, <2>3
    <3>3. q[1] \in [left : Int, tasks : Seq(Task)] /\ Due(2) \in Int
      <4>1. q[1] \in [left : Int, tasks : Seq(Task)]
        BY <1>3, <3>2, ElementOfSeq
      <4>2. QED
        BY <1>2, <2>1, <3>2, <4>1
    <3> DEFINE e == [q[1] EXCEPT !.left = @ - (- queue[1].left)]
    <3>4. e = [left |-> Due(2), tasks |-> queue[2].tasks]
      BY <1>2, <2>1, <3>2, <3>3
    <3>5. e \in [left : Int, tasks : Seq(Task)] /\ e.left = Due(2) /\ e.tasks = queue[2].tasks
      BY <3>2, <3>3, <3>4
    <3>6. queue' = [q EXCEPT ![1] = e]
      BY <3>1
    <3> HIDE DEF e, q
    <3>7. /\ queue' \in Seq([left : Int, tasks : Seq(Task)])
          /\ Len(queue') = Len(q)
          /\ \A j \in 1..Len(q) : queue'[j] = IF j = 1 THEN e ELSE q[j]
      <4>1. q \in Seq([left : Int, tasks : Seq(Task)])
        BY <1>3 DEF q
      <4>2. QED
        BY <3>2, <3>5, <3>6, <4>1, ExceptSeq
    <3>8. pos' = IF Due(2) <= 0 THEN 1 ELSE 0
      BY <1>2, <2>1, <3>1, <3>2
    <3>9. QED
      <4>1. Len(q) = Len(queue) - 1 /\ \A i \in 1..Len(q) : q[i] = queue[i + 1]
        BY <1>3 DEF q
      <4>2. ASSUME NEW i \in 1..Len(queue')
            PROVE  /\ i + 1 \in 1..Len(queue)
                   /\ queue'[i].tasks = queue[i + 1].tasks
                   /\ queue'[i].left = IF i = 1 THEN Due(2) ELSE queue[i + 1].left
        <5>1. i \in 1..Len(q) /\ i + 1 \in 1..Len(queue)
          BY <1>2, <3>7, <4>1
        <5>2. CASE i = 1
          BY <3>5, <3>7, <5>1, <5>2
        <5>3. CASE i # 1
          BY <3>7, <4>1, <5>1, <5>3
        <5>4. QED
          BY <5>2, <5>3
      <4>3. QED
        BY <3>2, <3>7, <3>8, <4>1, <4>2
  <2>4. QED
    BY <2>2, <2>3
<1> HIDE DEF q
<1>a. ASSUME NEW i \in 1..Len(queue')
      PROVE  /\ i + 1 \in 1..Len(queue)
             /\ queue'[i].tasks = queue[i + 1].tasks
             /\ Len(queue[i + 1].tasks) \in Nat \ {0}
             /\ queue[i + 1].left \in Int
             /\ 1..Len(queue'[i].tasks) = 1..Len(queue[i + 1].tasks)
  BY <1>1, <1>4, Elements
<1>b. /\ Len(queue') \in Nat
      /\ Len(queue') > 0 <=> Len(queue) > 1
      /\ queue' # <<>> <=> Len(queue') > 0
      /\ Len(queue) > 1 => 1 \in 1..Len(queue') /\ Due(2) \in Int /\ queue'[1].left = Due(2)
  <2>1. Len(queue') \in Nat /\ (Len(queue') > 0 <=> Len(queue) > 1)
        /\ (Len(queue) > 1 => 1 \in 1..Len(queue'))
    BY <1>2, <1>4
  <2>2. queue' # <<>> <=> Len(queue') > 0
    BY <1>4, <2>1, EmptySeq
  <2>3. Len(queue) > 1 => queue'[1].left = Due(2)
    BY <1>4, <2>1
  <2>4. Len(queue) > 1 => Due(2) \in Int
    BY <1>1, <1>2, Elements DEF TypeOK, Due
  <2>5. QED
    BY <2>1, <2>2, <2>3, <2>4
<1>5. TypeOK'
  <2>1. \A i \in 1..Len(queue') : queue'[i].tasks # <<>>
    BY <1>1, <1>a DEF TypeOK
  <2>2. pos' \in Nat /\ (pos' > 0 => queue' # <<>> /\ pos' <= Len(queue'[1].tasks) + 1)
    BY <1>4, <1>a, <1>b
  <2>3. QED
    BY <1>1, <1>4, <2>1, <2>2 DEF TypeOK
<1>6. ASSUME NEW i \in 1..Len(queue') PROVE Due(i)' = Due(i + 1)
  <2>1. CASE i = 1
    BY <1>b, <2>1 DEF Due
  <2>2. CASE i # 1
    BY <1>1, <1>a, <2>2 DEF Due
  <2>3. QED
    BY <2>1, <2>2
<1>7. PassTimeAsserts'
  <2>1. ASSUME NEW i \in 1..Len(queue') PROVE queue'[i].left > 0 <=> ~(i = 1 /\ pos' > 0)
    <3>1. CASE i = 1
      BY <1>4, <1>a, <1>b, <3>1
    <3>2. CASE i # 1
      <4>1. queue'[i].left = queue[i + 1].left /\ i + 1 # 1
        BY <1>4, <1>b, <3>2
      <4>2. queue[i + 1].left > 0
        BY <1>1, <1>a, <4>1 DEF PassTimeAsserts
      <4>3. QED
        BY <3>2, <4>1, <4>2
    <3>3. QED
      BY <3>1, <3>2
  <2>2. QED
    BY <2>1 DEF PassTimeAsserts
<1>8. OnePlaceEach'
  <2>1. ASSUME NEW i \in 1..Len(queue'), NEW j \in 1..Len(queue'),
               NEW k \in 1..Len(queue'[i].tasks), NEW l \in 1..Len(queue'[j].tasks),
               queue'[i].tasks[k] = queue'[j].tasks[l]
        PROVE  i = j /\ k = l
    <3>1. i + 1 = j + 1 /\ k = l
      <4>1. /\ i + 1 \in 1..Len(queue) /\ j + 1 \in 1..Len(queue)
            /\ k \in 1..Len(queue[i + 1].tasks) /\ l \in 1..Len(queue[j + 1].tasks)
            /\ queue[i + 1].tasks[k] = queue[j + 1].tasks[l]
        BY <1>a, <2>1
      <4>2. PICK a \in 1..Len(queue), b \in 1..Len(queue) : a = i + 1 /\ b = j + 1
        BY <4>1
      <4>3. /\ k \in 1..Len(queue[a].tasks) /\ l \in 1..Len(queue[b].tasks)
            /\ queue[a].tasks[k] = queue[b].tasks[l]
        BY <4>1, <4>2
      <4>4. a = b /\ k = l
        BY <1>1, <4>3, DistinctPlaces
      <4>5. QED
        BY <4>2, <4>4
    <3>2. QED
      BY <1>b, <3>1
  <2>2. ASSUME NEW i \in 1..Len(queue'), NEW k \in 1..Len(queue'[i].tasks)
        PROVE  queue'[i].tasks[k] \in pending' /\ ~(i = 1 /\ k < pos')
    <3>1. i + 1 # 1 /\ ~(i = 1 /\ k < pos')
      <4>1. i \in Int /\ i >= 1 /\ k \in Int /\ k >= 1
        OBVIOUS
      <4>2. pos' = 0 \/ pos' = 1
        BY <1>4
      <4>3. QED
        BY ONLY <4>1, <4>2
    <3>2. queue[i + 1].tasks[k] \in pending
      BY <1>1, <1>a, <3>1 DEF OnePlaceEach
    <3>3. QED
      BY <1>1, <1>a, <3>1, <3>2
  <2>3. ASSUME NEW t \in pending
        PROVE  Queued(t)'
    <3>1. PICK i \in 1..Len(queue) : \E k \in 1..Len(queue[i].tasks) : queue[i].tasks[k] = t
      BY <1>1, <2>3 DEF OnePlaceEach, Queued
    <3>2. i # 1
      BY <1>1, <1>2, <3>1, Elements DEF OnePlaceEach
    <3>3. i - 1 \in 1..Len(queue') /\ queue'[i - 1].tasks = queue[i].tasks
      <4>1. i - 1 \in 1..Len(queue') /\ (i - 1) + 1 = i
        BY <1>2, <1>4, <3>2
      <4>2. QED
        BY <1>4, <4>1
    <3>4. QED
      BY <3>1, <3>3 DEF Queued
  <2>4. QED
    BY <1>1, <2>1, <2>2, <2>3 DEF OnePlaceEach
<1>9. DeadlinesKept'
  <2>1. ASSUME NEW i \in 1..Len(queue'), NEW k \in 1..Len(queue'[i].tasks)
        PROVE  due'[queue'[i].tasks[k]] = Due(i)'
    <3>1. i + 1 # 1
      BY <1>b
    <3>2. due[queue[i + 1].tasks[k]] = Due(i + 1)
      BY <1>1, <1>a, <3>1 DEF DeadlinesKept
    <3>3. QED
      BY <1>1, <1>6, <1>a, <3>2
  <2>2. ASSUME NEW i \in 2..Len(queue')
        PROVE  Due(i)' = Due(i - 1)' + queue'[i].left
    <3>1. /\ i \in 1..Len(queue') /\ i - 1 \in 1..Len(queue') /\ (i - 1) + 1 = i
          /\ i + 1 \in 2..Len(queue) /\ (i + 1) - 1 = i
      <4>1. i \in 1..Len(queue') /\ i - 1 \in 1..Len(queue') /\ (i - 1) + 1 = i
        BY <1>b
      <4>2. i + 1 \in 1..Len(queue) /\ Len(queue) \in Nat /\ i \in Int
        BY <1>2, <1>a, <4>1
      <4>3. QED
        BY <4>1, <4>2
    <3>2. Due(i)' = Due(i + 1) /\ Due(i - 1)' = Due(i) /\ queue'[i].left = queue[i + 1].left
      BY <1>4, <1>6, <3>1
    <3>3. QED
      BY <1>1, <3>1, <3>2 DEF DeadlinesKept
  <2>3. ASSUME NEW i \in 1..Len(queue'), NEW j \in 1..Len(queue'), i < j
        PROVE  Due(i)' < Due(j)'
    BY <1>1, <1>4, <1>6, <2>3 DEF DeadlinesKept
  <2>4. QED
    BY <1>1, <2>1, <2>2, <2>3 DEF DeadlinesKept
<1>10. FifoGroups'
  <2>1. ASSUME NEW i \in 1..Len(queue'), NEW k \in 1..Len(queue'[i].tasks),
               NEW l \in 1..Len(queue'[i].tasks), k < l
        PROVE  <<queue'[i].tasks[k], queue'[i].tasks[l]>> \in older'
    <3>1. i + 1 # 1
      BY <1>b
    <3>2. QED
      BY <1>1, <1>a, <2>1, <3>1 DEF FifoGroups
  <2>2. QED
    BY <1>1, <2>1 DEF FifoGroups
<1>11. QED
  BY <1>5, <1>7, <1>8, <1>9, <1>10 DEF IInv

(* The task in hand gets a group of its own at place c of the list, which  *)
(* is what the insertion and push_back of add_deferred_task both do.       *)
NewGroupAt(c) ==
  /\ queue' \in Seq([left : Int, tasks : Seq(Task)])
  /\ Len(queue') = Len(queue) + 1
  /\ \A j \in 1..Len(queue) + 1 :
        /\ queue'[j].tasks = IF j < c THEN queue[j].tasks
                             ELSE IF j = c THEN <<call.task>> ELSE queue[j - 1].tasks
        /\ queue'[j].left = IF j < c THEN queue[j].left
                            ELSE IF j = c THEN call.ns
                            ELSE IF j = c + 1 THEN queue[c].left - call.ns
                            ELSE queue[j - 1].left
  /\ c <= Len(queue) => call.ns < queue[c].left

LEMMA NewGroupIInv ==
  ASSUME IInv, call # NoCall, NEW c, c = call.i, NewGroupAt(c), call' = NoCall,
         UNCHANGED <<time, pos, pending, due, older>>
  PROVE  IInv'
<1> DEFINE n == call.ns  t == call.task
           Old(j) == IF j < c THEN j ELSE j - 1
<1>1. TypeOK /\ PassTimeAsserts /\ OnePlaceEach /\ DeadlinesKept /\ FifoGroups
  BY DEF IInv
<1>0. Len(queue') = Len(queue) + 1 /\ Len(queue) \in Nat
  BY <1>1, Elements DEF NewGroupAt
<1> USE <1>0
<1>2. /\ n \in Nat \ {0} /\ t \in Task /\ c \in Nat \ {0} /\ c <= Len(queue) + 1
      /\ Len(queue) \in Nat /\ queue # <<>> /\ 1 \in 1..Len(queue) /\ c \in 1..Len(queue) + 1
      /\ pos \in Nat
  <2>1. call \in [task : Task, ns : Nat \ {0}, i : Nat \ {0}]
    BY <1>1 DEF TypeOK
  <2>2. queue # <<>> /\ c <= Len(queue) + 1 /\ pos \in Nat
    BY <1>1 DEF TypeOK
  <2>3. Len(queue) \in Nat /\ 1 \in 1..Len(queue)
    BY <1>1, <2>2, Elements
  <2>4. n \in Nat \ {0} /\ t \in Task /\ c \in Nat \ {0}
    BY <2>1
  <2>5. c \in 1..Len(queue) + 1
    BY <2>2, <2>3, <2>4
  <2>6. QED
    BY <2>2, <2>3, <2>4, <2>5
<1>3. pos > 0 => c > 1
  <2>1. SUFFICES ASSUME pos > 0, c = 1 PROVE FALSE
    BY <1>2
  <2>2. ~(queue[1].left > 0) /\ queue[1].left \in Int
    BY <1>1, <1>2, <2>1, Elements DEF PassTimeAsserts
  <2>3. 1 <= Len(queue) /\ n < queue[1].left
    BY <1>2, <2>1 DEF NewGroupAt
  <2>4. QED
    BY <1>2, <2>2, <2>3
<1>4. ASSUME NEW j \in 1..Len(queue) + 1, j # c
      PROVE  /\ Old(j) \in 1..Len(queue)
             /\ queue'[j].tasks = queue[Old(j)].tasks
             /\ Len(queue[Old(j)].tasks) \in Nat \ {0}
             /\ queue[Old(j)].left \in Int
             /\ (j = 1 /\ pos > 0) <=> (Old(j) = 1 /\ pos > 0)
             /\ j # c + 1 => queue'[j].left = queue[Old(j)].left
  <2>1. Old(j) \in 1..Len(queue)
    BY <1>2, <1>4
  <2>2. queue'[j].tasks = queue[Old(j)].tasks
    BY <1>2, <1>4 DEF NewGroupAt
  <2>3. (j = 1 /\ pos > 0) <=> (Old(j) = 1 /\ pos > 0)
    BY <1>2, <1>3, <1>4
  <2>4. j # c + 1 => queue'[j].left = queue[Old(j)].left
    BY <1>2, <1>4 DEF NewGroupAt
  <2>5. QED
    BY <1>1, <2>1, <2>2, <2>3, <2>4, Elements
<1>5. /\ queue'[c].tasks = <<t>> /\ queue'[c].left = n
      /\ c <= Len(queue) => c + 1 \in 1..Len(queue) + 1 /\ queue'[c + 1].left = queue[c].left - n
  <2>1. queue'[c].tasks = <<t>> /\ queue'[c].left = n
    BY <1>2 DEF NewGroupAt
  <2>2. c <= Len(queue) => c + 1 \in 1..Len(queue) + 1 /\ ~(c + 1 < c) /\ c + 1 # c
    BY <1>2
  <2>3. QED
    BY <2>1, <2>2 DEF NewGroupAt
<1> HIDE DEF Old
<1>6. TypeOK'
  <2>1. ASSUME NEW j \in 1..Len(queue') PROVE queue'[j].tasks # <<>>
    <3>1. CASE j = c
      <4>1. queue'[j].tasks = <<t>> /\ <<t>> # <<>>
        BY <1>5, <3>1
      <4>2. QED
        BY <4>1
    <3>2. CASE j # c
      <4>1. Old(j) \in 1..Len(queue) /\ queue'[j].tasks = queue[Old(j)].tasks
        BY <1>4, <3>2
      <4>2. QED
        BY <1>1, <4>1 DEF TypeOK
    <3>3. QED
      BY <3>1, <3>2
  <2>2. pos > 0 => pos <= Len(queue'[1].tasks) + 1
    <3>1. c > 1 => 1 \in 1..Len(queue) + 1 /\ 1 < c
      BY <1>2
    <3>2. c > 1 => queue'[1].tasks = queue[1].tasks
      BY <3>1 DEF NewGroupAt
    <3>3. QED
      BY <1>1, <1>3, <3>2 DEF TypeOK
  <2>3. queue' # <<>>
    BY <1>2, EmptySeq
  <2>4. QED
    BY <1>1, <1>2, <2>1, <2>2, <2>3 DEF TypeOK, NewGroupAt
<1>7. PassTimeAsserts'
  <2>1. ASSUME NEW j \in 1..Len(queue') PROVE queue'[j].left > 0 <=> ~(j = 1 /\ pos > 0)
    <3>1. CASE j = c
      BY <1>2, <1>3, <1>5, <3>1
    <3>2. CASE j = c + 1
      <4>1. c <= Len(queue) /\ queue[c].left \in Int
        BY <1>1, <1>2, <3>2, Elements
      <4>2. n < queue[c].left /\ queue'[j].left = queue[c].left - n
        BY <1>5, <3>2, <4>1 DEF NewGroupAt
      <4>3. j # 1
        BY <1>2, <3>2
      <4>4. QED
        BY <1>2, <4>1, <4>2, <4>3
    <3>3. CASE j # c /\ j # c + 1
      BY <1>1, <1>4, <3>3 DEF PassTimeAsserts
    <3>4. QED
      BY <3>1, <3>2, <3>3
  <2>2. QED
    BY <2>1 DEF PassTimeAsserts
<1>8. OnePlaceEach'
  <2>1. ASSUME NEW i \in 1..Len(queue), NEW k \in 1..Len(queue[i].tasks)
        PROVE  queue[i].tasks[k] # t
    BY <1>1, <2>1 DEF OnePlaceEach, Queued
  <2>2. ASSUME NEW i \in 1..Len(queue'), NEW j \in 1..Len(queue'),
               NEW k \in 1..Len(queue'[i].tasks), NEW l \in 1..Len(queue'[j].tasks),
               queue'[i].tasks[k] = queue'[j].tasks[l]
        PROVE  i = j /\ k = l
    <3>1. CASE i = c /\ j = c
      BY <1>5, <2>2, <3>1
    <3>2. CASE i = c /\ j # c
      <4>1. /\ queue'[i].tasks[k] = t
            /\ Old(j) \in 1..Len(queue) /\ l \in 1..Len(queue[Old(j)].tasks)
            /\ queue'[j].tasks[l] = queue[Old(j)].tasks[l]
        <5>1. queue'[i].tasks = <<t>> /\ k = 1
          BY <1>5, <2>2, <3>2
        <5>2. QED
          BY <1>4, <2>2, <3>2, <5>1
      <4>2. QED
        BY <2>1, <2>2, <4>1
    <3>3. CASE i # c /\ j = c
      <4>1. /\ queue'[j].tasks[l] = t
            /\ Old(i) \in 1..Len(queue) /\ k \in 1..Len(queue[Old(i)].tasks)
            /\ queue'[i].tasks[k] = queue[Old(i)].tasks[k]
        <5>1. queue'[j].tasks = <<t>> /\ l = 1
          BY <1>5, <2>2, <3>3
        <5>2. QED
          BY <1>4, <2>2, <3>3, <5>1
      <4>2. QED
        BY <2>1, <2>2, <4>1
    <3>4. CASE i # c /\ j # c
      <4>1. /\ Old(i) \in 1..Len(queue) /\ Old(j) \in 1..Len(queue)
            /\ k \in 1..Len(queue[Old(i)].tasks) /\ l \in 1..Len(queue[Old(j)].tasks)
            /\ queue[Old(i)].tasks[k] = queue[Old(j)].tasks[l]
        BY <1>4, <2>2, <3>4
      <4>2. PICK a \in 1..Len(queue), b \in 1..Len(queue) : a = Old(i) /\ b = Old(j)
        BY <4>1
      <4>3. /\ k \in 1..Len(queue[a].tasks) /\ l \in 1..Len(queue[b].tasks)
            /\ queue[a].tasks[k] = queue[b].tasks[l]
        BY <4>1, <4>2
      <4>4. a = b /\ k = l
        BY <1>1, <4>3, DistinctPlaces
      <4>5. i \in Int /\ j \in Int /\ i # c /\ j # c /\ c \in Int
        BY <1>2, <2>2, <3>4
      <4>6. Old(i) = Old(j) => i = j
        BY <4>5 DEF Old
      <4>7. QED
        BY <4>2, <4>4, <4>6
    <3>5. QED
      BY <3>1, <3>2, <3>3, <3>4
  <2>3. ASSUME NEW j \in 1..Len(queue'), NEW k \in 1..Len(queue'[j].tasks)
        PROVE  queue'[j].tasks[k] \in pending' <=> ~(j = 1 /\ k < pos')
    <3>1. CASE j = c
      <4>0. queue'[j].tasks = <<t>>
        BY <1>5, <3>1
      <4>1. queue'[j].tasks[k] = t /\ k = 1
        BY <2>3, <4>0
      <4>2. t \in pending
        BY <1>1 DEF OnePlaceEach
      <4>3. ~(j = 1 /\ k < pos)
        BY <1>2, <1>3, <3>1, <4>1
      <4>4. QED
        BY <4>1, <4>2, <4>3
    <3>2. CASE j # c
      <4>1. /\ Old(j) \in 1..Len(queue) /\ k \in 1..Len(queue[Old(j)].tasks)
            /\ queue'[j].tasks[k] = queue[Old(j)].tasks[k]
            /\ (j = 1 /\ k < pos) <=> (Old(j) = 1 /\ k < pos)
        BY <1>2, <1>4, <3>2
      <4>2. QED
        BY <1>1, <4>1 DEF OnePlaceEach
    <3>3. QED
      BY <3>1, <3>2
  <2>4. ASSUME NEW u \in pending PROVE Queued(u)'
    <3>1. CASE u = t
      <4>1. c \in 1..Len(queue') /\ 1 \in 1..Len(queue'[c].tasks) /\ queue'[c].tasks[1] = u
        BY <1>2, <1>5, <3>1
      <4>2. QED
        BY <4>1 DEF Queued
    <3>2. CASE u # t
      <4>1. PICK i \in 1..Len(queue) : \E k \in 1..Len(queue[i].tasks) : queue[i].tasks[k] = u
        BY <1>1, <2>4, <3>2 DEF OnePlaceEach, Queued
      <4>2. PICK j \in 1..Len(queue') : j # c /\ Old(j) = i
        <5>1. CASE i < c
          <6>1. i \in 1..Len(queue') /\ i # c /\ Old(i) = i
            BY <1>2, <5>1 DEF Old
          <6>2. QED
            BY <6>1
        <5>2. CASE ~(i < c)
          <6>1. i + 1 \in 1..Len(queue') /\ i + 1 # c /\ Old(i + 1) = i
            BY <1>2, <5>2 DEF Old
          <6>2. QED
            BY <6>1
        <5>3. QED
          BY <5>1, <5>2
      <4>3. queue'[j].tasks = queue[i].tasks
        BY <1>4, <4>2
      <4>4. QED
        BY <4>1, <4>3 DEF Queued
    <3>3. QED
      BY <3>1, <3>2
  <2>5. QED
    BY <2>2, <2>3, <2>4 DEF OnePlaceEach
<1>9. Due(c)' = due[t] /\ due[t] \in Int
  <2>1. due[t] \in Int
    BY <1>1, <1>2 DEF TypeOK
  <2>2. due[t] = n + (IF c = 1 THEN 0 ELSE Due(c - 1))
    BY <1>1 DEF DeadlinesKept
  <2>3. CASE c = 1
    BY <1>2, <1>5, <2>1, <2>2, <2>3 DEF Due
  <2>4. CASE c # 1
    BY <1>2, <1>5, <2>1, <2>4 DEF Due
  <2>5. QED
    BY <2>1, <2>3, <2>4
<1>10. \A i \in 1..Len(queue) : Due(i) \in Int /\ queue[i].left \in Int
  <2>1. ASSUME NEW i \in 1..Len(queue) PROVE Due(i) \in Int /\ queue[i].left \in Int
    <3>1. queue[i].left \in Int /\ 1 \in 1..Len(queue[i].tasks) /\ queue[i].tasks[1] \in Task
      BY <1>1, Elements
    <3>2. queue[1].left \in Int /\ due[queue[i].tasks[1]] \in Int
      BY <1>1, <1>2, <3>1, Elements DEF TypeOK
    <3>3. QED
      BY <3>1, <3>2 DEF Due
  <2>2. QED
    BY <2>1
<1>11. ASSUME NEW j \in 1..Len(queue'), j # c PROVE Due(j)' = Due(Old(j))
  <2>1. CASE j = 1
    <3>1. Old(j) = 1 /\ j # c + 1
      BY <1>2, <1>11, <2>1 DEF Old
    <3>2. QED
      BY <1>4, <1>11, <2>1, <3>1 DEF Due
  <2>2. CASE j # 1 /\ Old(j) # 1
    BY <1>4, <1>11, <2>2 DEF Due
  <2>3. CASE j # 1 /\ Old(j) = 1
    <3>1. c = 1 /\ pos = 0
      BY <1>2, <1>3, <1>11, <2>3 DEF Old
    <3>2. 1 \in 1..Len(queue[1].tasks)
      BY <1>1, <1>2, Elements
    <3>3. due[queue[1].tasks[1]] = Due(1)
      BY <1>1, <1>2, <3>1, <3>2 DEF DeadlinesKept
    <3>4. QED
      BY <1>4, <1>11, <2>3, <3>3 DEF Due
  <2>4. QED
    BY <2>1, <2>2, <2>3
<1>12. /\ c > 1 => c - 1 \in 1..Len(queue) /\ Due(c - 1) < due[t] /\ due[t] = Due(c - 1) + n
       /\ c <= Len(queue) => c \in 1..Len(queue) /\ due[t] < Due(c)
                              /\ Due(c) = due[t] + (queue[c].left - n)
  <2>1. due[t] = n + (IF c = 1 THEN 0 ELSE Due(c - 1))
    BY <1>1 DEF DeadlinesKept
  <2>2. c > 1 => c - 1 \in 1..Len(queue) /\ Due(c - 1) \in Int
    BY <1>2, <1>10
  <2>3. c <= Len(queue) => c \in 1..Len(queue) /\ Due(c) \in Int /\ queue[c].left \in Int
    BY <1>2, <1>10
  <2>4. c <= Len(queue) => Due(c) = (IF c = 1 THEN 0 ELSE Due(c - 1)) + queue[c].left
    <3>1. CASE c = 1
      BY <2>3, <3>1 DEF Due
    <3>2. CASE c # 1
      <4>1. c <= Len(queue) => c \in 2..Len(queue)
        BY <1>2, <3>2
      <4>2. QED
        BY <1>1, <3>2, <4>1 DEF DeadlinesKept
    <3>3. QED
      BY <3>1, <3>2
  <2>5. QED
    <3>1. c > 1 => due[t] = n + Due(c - 1)
      BY <2>1
    <3>2. c > 1 => Due(c - 1) < due[t] /\ due[t] = Due(c - 1) + n
      BY <1>2, <1>9, <2>2, <3>1
    <3>3. c <= Len(queue) => Due(c) = due[t] + (queue[c].left - n)
      <4> DEFINE before == IF c = 1 THEN 0 ELSE Due(c - 1)
      <4>1. before \in Int
        BY <1>2, <2>2
      <4>2. due[t] = n + before /\ (c <= Len(queue) => Due(c) = before + queue[c].left)
        BY <2>1, <2>4
      <4> HIDE DEF before
      <4>3. QED
        BY <1>2, <2>3, <4>1, <4>2
    <3>4. c <= Len(queue) => due[t] < Due(c)
      <4>1. c <= Len(queue) => n < queue[c].left
        BY DEF NewGroupAt
      <4>2. QED
        BY <1>2, <1>9, <2>3, <3>3, <4>1
    <3>5. QED
      BY <2>2, <2>3, <3>2, <3>3, <3>4
<1>13. DeadlinesKept'
  <2>1. ASSUME NEW j \in 1..Len(queue'), NEW k \in 1..Len(queue'[j].tasks)
        PROVE  (j = 1 /\ k < pos') \/ due'[queue'[j].tasks[k]] = Due(j)'
    <3>1. CASE j = c
      BY <1>5, <1>9, <3>1
    <3>2. CASE j # c
      <4>1. /\ Old(j) \in 1..Len(queue) /\ k \in 1..Len(queue[Old(j)].tasks)
            /\ queue'[j].tasks[k] = queue[Old(j)].tasks[k]
            /\ (j = 1 /\ k < pos) <=> (Old(j) = 1 /\ k < pos)
        BY <1>2, <1>4, <3>2
      <4>2. QED
        BY <1>1, <1>11, <3>2, <4>1 DEF DeadlinesKept
    <3>3. QED
      BY <3>1, <3>2
  <2>2. ASSUME NEW j \in 2..Len(queue')
        PROVE  Due(j)' = Due(j - 1)' + queue'[j].left
    <3>0. j \in 1..Len(queue') /\ j - 1 \in 1..Len(queue') /\ j \in Int
      BY <1>2
    <3>1. CASE j = c
      <4>1. j - 1 # c /\ Old(j - 1) = c - 1 /\ c > 1
        BY <1>2, <3>0, <3>1 DEF Old
      <4>2. Due(j - 1)' = Due(c - 1)
        BY <1>11, <3>0, <4>1
      <4>3. QED
        BY <1>5, <1>9, <1>12, <3>1, <4>1, <4>2
    <3>2. CASE j = c + 1
      <4>1. j # c /\ j - 1 = c /\ Old(j) = c /\ c <= Len(queue)
        BY <1>2, <3>0, <3>2 DEF Old
      <4>2. Due(j)' = Due(c)
        BY <1>11, <3>0, <4>1
      <4>3. QED
        BY <1>5, <1>9, <1>12, <3>2, <4>1, <4>2
    <3>3. CASE j # c /\ j # c + 1
      <4>1. j - 1 # c /\ Old(j - 1) = Old(j) - 1 /\ Old(j) \in 2..Len(queue)
        <5>1. CASE j < c
          BY <1>2, <2>2, <3>0, <3>3, <5>1 DEF Old
        <5>2. CASE j > c
          <6>1. j > c + 1 /\ ~(j < c) /\ ~(j - 1 < c) /\ j - 1 # c
            <7>1. c \in Int /\ j \in Int
              BY <1>2, <3>0
            <7>2. QED
              BY <3>3, <5>2, <7>1
          <6>2. Old(j) = j - 1 /\ Old(j - 1) = (j - 1) - 1 /\ j - 1 \in 2..Len(queue)
            BY <1>2, <3>0, <6>1 DEF Old
          <6>3. QED
            BY <6>1, <6>2
        <5>3. QED
          BY <1>2, <3>0, <3>3, <5>1, <5>2
      <4>2. Due(j)' = Due(Old(j)) /\ Due(j - 1)' = Due(Old(j) - 1)
        BY <1>11, <3>0, <3>3, <4>1
      <4>3. queue'[j].left = queue[Old(j)].left
        BY <1>4, <3>0, <3>3
      <4>4. QED
        BY <1>1, <4>1, <4>2, <4>3 DEF DeadlinesKept
    <3>4. QED
      BY <3>1, <3>2, <3>3
  <2>3. ASSUME NEW i \in 1..Len(queue'), NEW j \in 1..Len(queue'), i < j
        PROVE  Due(i)' < Due(j)'
    <3>1. CASE i # c /\ j # c
      <4>1. Old(i) < Old(j) /\ Old(i) \in 1..Len(queue) /\ Old(j) \in 1..Len(queue)
        <5>1. Old(i) \in 1..Len(queue) /\ Old(j) \in 1..Len(queue)
          BY <1>4, <2>3, <3>1
        <5>2. i \in Int /\ j \in Int /\ c \in Int /\ i < j /\ i # c /\ j # c
          BY <1>2, <2>3, <3>1
        <5>3. Old(i) < Old(j)
          BY <5>2 DEF Old
        <5>4. QED
          BY <5>1, <5>3
      <4>2. QED
        BY <1>1, <1>11, <3>1, <4>1 DEF DeadlinesKept
    <3>2. CASE i = c
      <4>1. j # c /\ c <= Len(queue) /\ Old(j) \in 1..Len(queue) /\ Old(j) >= c
        BY <1>2, <2>3, <3>2 DEF Old
      <4>2. Due(j)' = Due(Old(j))
        BY <1>11, <4>1
      <4>3. Old(j) = c \/ Due(c) < Due(Old(j))
        BY <1>1, <1>12, <4>1 DEF DeadlinesKept
      <4>4. Due(c) \in Int /\ Due(Old(j)) \in Int /\ due[t] < Due(c)
        BY <1>10, <1>12, <4>1
      <4>5. due[t] < Due(Old(j))
        BY <1>9, <4>3, <4>4
      <4>6. QED
        BY <1>9, <3>2, <4>2, <4>5
    <3>3. CASE j = c
      <4>1. i # c /\ c > 1 /\ Old(i) \in 1..Len(queue) /\ Old(i) <= c - 1
        BY <1>2, <2>3, <3>3 DEF Old
      <4>2. Due(i)' = Due(Old(i))
        BY <1>11, <4>1
      <4>3. Old(i) = c - 1 \/ Due(Old(i)) < Due(c - 1)
        BY <1>1, <1>12, <4>1 DEF DeadlinesKept
      <4>4. Due(c - 1) \in Int /\ Due(Old(i)) \in Int /\ Due(c - 1) < due[t]
        BY <1>10, <1>12, <4>1
      <4>5. Due(Old(i)) < due[t]
        BY <1>9, <4>3, <4>4
      <4>6. QED
        BY <1>9, <3>3, <4>2, <4>5
    <3>4. QED
      BY <3>1, <3>2, <3>3
  <2>4. QED
    BY <2>1, <2>2, <2>3 DEF DeadlinesKept
<1>14. FifoGroups'
  <2>1. ASSUME NEW j \in 1..Len(queue'), NEW k \in 1..Len(queue'[j].tasks),
               NEW l \in 1..Len(queue'[j].tasks), k < l, ~(j = 1 /\ k < pos')
        PROVE  <<queue'[j].tasks[k], queue'[j].tasks[l]>> \in older'
    <3>1. CASE j = c
      BY <1>5, <2>1, <3>1
    <3>2. CASE j # c
      <4>1. /\ Old(j) \in 1..Len(queue)
            /\ k \in 1..Len(queue[Old(j)].tasks) /\ l \in 1..Len(queue[Old(j)].tasks)
            /\ queue'[j].tasks = queue[Old(j)].tasks
            /\ (j = 1 /\ k < pos) <=> (Old(j) = 1 /\ k < pos)
        BY <1>2, <1>4, <3>2
      <4>2. QED
        BY <1>1, <2>1, <4>1 DEF FifoGroups
    <3>3. QED
      BY <3>1, <3>2
  <2>2. QED
    BY <2>1 DEF FifoGroups
<1>15. QED
  BY <1>6, <1>7, <1>8, <1>13, <1>14 DEF IInv

LEMMA PushBackIInv ==
  ASSUME IInv, PushBack
  PROVE  IInv'
<1> DEFINE g == [left |-> call.ns, tasks |-> <<call.task>>]
<1>1. /\ TypeOK /\ call # NoCall /\ call.i > Len(queue) /\ call' = NoCall
      /\ queue' = Append(queue, g)
      /\ UNCHANGED <<time, pos, pending, due, older>>
  BY DEF IInv, PushBack
<1>2. /\ call.i = Len(queue) + 1 /\ Len(queue) \in Nat
      /\ g \in [left : Int, tasks : Seq(Task)]
      /\ queue \in Seq([left : Int, tasks : Seq(Task)])
  <2>1. call \in [task : Task, ns : Nat \ {0}, i : Nat \ {0}] /\ call.i <= Len(queue) + 1
    BY <1>1 DEF TypeOK
  <2>2. <<call.task>> \in Seq(Task)
    BY <2>1
  <2>3. QED
    BY <1>1, <2>1, <2>2, Elements DEF TypeOK
<1> HIDE DEF g
<1>3. /\ queue' \in Seq([left : Int, tasks : Seq(Task)])
      /\ Len(queue') = Len(queue) + 1
      /\ \A j \in 1..Len(queue) : queue'[j] = queue[j]
      /\ queue'[Len(queue) + 1] = g
  BY <1>1, <1>2, AppendProperties
<1>4. NewGroupAt(Len(queue) + 1)
  <2>1. ASSUME NEW j \in 1..Len(queue) + 1
        PROVE  /\ j < Len(queue) + 1 => queue'[j] = queue[j]
               /\ ~(j < Len(queue) + 1) => j = Len(queue) + 1 /\ queue'[j] = g
    <3>1. CASE j = Len(queue) + 1
      BY <1>2, <1>3, <3>1
    <3>2. CASE j # Len(queue) + 1
      <4>1. j \in 1..Len(queue) /\ j < Len(queue) + 1
        BY <1>2, <3>2
      <4>2. QED
        BY <1>3, <4>1
    <3>3. QED
      BY <3>1, <3>2
  <2>2. ~(Len(queue) + 1 <= Len(queue))
    BY <1>2
  <2>3. QED
    BY <1>3, <2>1, <2>2 DEF NewGroupAt, g
<1>5. QED
  BY <1>1, <1>2, <1>4, NewGroupIInv

LEMMA RecordExcept ==
  ASSUME NEW S, NEW T, NEW r \in [left : S, tasks : T], NEW x
  PROVE  [r EXCEPT !.tasks = x] = [left |-> r.left, tasks |-> x]
OBVIOUS

(* The task in hand joins the group that is due at the same instant.       *)
Join ==
  /\ call.ns - queue[call.i].left = 0
  /\ queue' = [queue EXCEPT ![call.i].tasks = Append(@, call.task)]
  /\ call' = NoCall

LEMMA JoinIInv ==
  ASSUME IInv, WalkStep, Join
  PROVE  IInv'
<1> DEFINE n == call.ns  t == call.task  c == call.i
           old == queue[c].tasks
           g == [queue[c] EXCEPT !.tasks = Append(@, t)]
<1>1. /\ TypeOK /\ PassTimeAsserts /\ OnePlaceEach /\ DeadlinesKept /\ FifoGroups
      /\ call # NoCall /\ call' = NoCall /\ c <= Len(queue)
      /\ n - queue[c].left = 0
      /\ queue' = [queue EXCEPT ![c].tasks = Append(@, t)]
      /\ UNCHANGED <<time, pos, pending, due, older>>
  BY DEF IInv, WalkStep, Join
<1>2. /\ n \in Nat \ {0} /\ t \in Task /\ c \in 1..Len(queue)
      /\ Len(queue) \in Nat /\ pos \in Nat /\ queue[c].left = n
  <2>1. call \in [task : Task, ns : Nat \ {0}, i : Nat \ {0}] /\ pos \in Nat
    BY <1>1 DEF TypeOK
  <2>2. Len(queue) \in Nat
    BY <1>1, Elements
  <2>3. c \in 1..Len(queue)
    BY <1>1, <2>1, <2>2
  <2>4. queue[c].left \in Int /\ n \in Int
    BY <1>1, <2>1, <2>3, Elements
  <2>5. queue[c].left = n
    BY <1>1, <2>4
  <2>6. QED
    BY <2>1, <2>2, <2>3, <2>5
<1>3. old \in Seq(Task) /\ Len(old) \in Nat \ {0}
  BY <1>1, <1>2, Elements
<1>4. /\ Append(old, t) \in Seq(Task)
      /\ Len(Append(old, t)) = Len(old) + 1
      /\ \A k \in 1..Len(old) : Append(old, t)[k] = old[k]
      /\ Append(old, t)[Len(old) + 1] = t
  BY <1>2, <1>3, AppendProperties
<1>5. /\ g \in [left : Int, tasks : Seq(Task)]
      /\ g.left = queue[c].left /\ g.tasks = Append(old, t)
  <2>1. queue[c] \in [left : Int, tasks : Seq(Task)]
    BY <1>1, <1>2, ElementOfSeq DEF TypeOK
  <2> DEFINE x == Append(old, t)  q == queue[c]
  <2>2. g = [q EXCEPT !.tasks = x]
    OBVIOUS
  <2>3. q \in [left : Int, tasks : Seq(Task)]
    BY <2>1
  <2> HIDE DEF g, x, q
  <2>4. g = [left |-> q.left, tasks |-> x]
    BY <2>2, <2>3, RecordExcept
  <2>5. x \in Seq(Task) /\ q.left \in Int
    BY <1>4, <2>3 DEF x
  <2>6. g \in [left : Int, tasks : Seq(Task)] /\ g.left = q.left /\ g.tasks = x
    BY <2>4, <2>5
  <2>7. QED
    BY <2>6 DEF x, q
<1>6. /\ queue' \in Seq([left : Int, tasks : Seq(Task)])
      /\ Len(queue') = Len(queue)
      /\ \A j \in 1..Len(queue) : queue'[j] = IF j = c THEN g ELSE queue[j]
  <2>1. queue' = [queue EXCEPT ![c] = g]
    BY <1>1
  <2>2. queue \in Seq([left : Int, tasks : Seq(Task)])
    BY <1>1 DEF TypeOK
  <2>3. c \in 1..Len(queue) /\ g \in [left : Int, tasks : Seq(Task)]
    BY <1>2, <1>5
  <2> HIDE DEF g, c
  <2>4. QED
    BY <2>1, <2>2, <2>3, ExceptSeq
<1> HIDE DEF g, n, t, c
<1>7. /\ \A j \in 1..Len(queue) : queue'[j].left = queue[j].left
      /\ \A j \in 1..Len(queue) : j # c => queue'[j].tasks = queue[j].tasks
      /\ queue'[c].tasks = Append(old, t)
  BY <1>2, <1>5, <1>6
<1> HIDE DEF old
<1>8. ~(c = 1 /\ pos > 0)
  BY <1>1, <1>2 DEF PassTimeAsserts
<1>9. ASSUME NEW j \in 1..Len(queue')
      PROVE  /\ j \in 1..Len(queue)
             /\ Len(queue[j].tasks) \in Nat \ {0}
             /\ queue'[j].tasks[1] = queue[j].tasks[1]
             /\ queue'[j].tasks # <<>>
             /\ Len(queue'[j].tasks) = IF j = c THEN Len(old) + 1 ELSE Len(queue[j].tasks)
             /\ \A k \in 1..Len(queue[j].tasks) : queue'[j].tasks[k] = queue[j].tasks[k]
  <2>1. j \in 1..Len(queue)
    BY <1>6
  <2>2. queue[j].tasks # <<>> /\ Len(queue[j].tasks) \in Nat \ {0}
    BY <1>1, <2>1, Elements DEF TypeOK
  <2>3. CASE j = c
    <3>1. Append(old, t) # <<>>
      BY <1>3, <1>4, EmptySeq
    <3>2. queue[j].tasks = old
      BY <2>3 DEF old
    <3>3. QED
      BY <1>3, <1>4, <1>7, <2>1, <2>2, <2>3, <3>1, <3>2
  <2>4. CASE j # c
    <3>1. queue'[j].tasks = queue[j].tasks
      BY <1>7, <2>1, <2>4
    <3>2. \A k \in 1..Len(queue[j].tasks) : queue'[j].tasks[k] = queue[j].tasks[k]
      BY <3>1
    <3>3. queue'[j].tasks # <<>> /\ Len(queue'[j].tasks) = Len(queue[j].tasks)
          /\ queue'[j].tasks[1] = queue[j].tasks[1]
      BY <2>2, <3>1
    <3>4. QED
      BY <2>1, <2>2, <2>4, <3>2, <3>3
  <2>5. QED
    BY <2>3, <2>4
<1>10. ASSUME NEW j \in 1..Len(queue'), NEW k \in 1..Len(queue'[j].tasks)
       PROVE  \/ /\ k \in 1..Len(queue[j].tasks)
                 /\ queue'[j].tasks[k] = queue[j].tasks[k]
              \/ j = c /\ k = Len(old) + 1 /\ queue'[j].tasks[k] = t
  <2>1. CASE j = c
    <3>1. queue[j].tasks = old
      BY <2>1 DEF old
    <3>2. k \in 1..Len(old) \/ k = Len(old) + 1
      BY <1>3, <1>9, <2>1
    <3>3. QED
      BY <1>4, <1>7, <2>1, <3>1, <3>2
  <2>2. CASE j # c
    BY <1>9, <2>2
  <2>3. QED
    BY <2>1, <2>2
<1>11. TypeOK'
  <2>1. pos > 0 => pos <= Len(queue'[1].tasks) + 1
    <3>1. pos > 0 => queue # <<>> /\ pos <= Len(queue[1].tasks) + 1
      BY <1>1 DEF TypeOK
    <3>2. pos > 0 => 1 \in 1..Len(queue') /\ 1 # c
      BY <1>2, <1>6, <1>8
    <3>3. QED
      BY <1>7, <1>6, <3>1, <3>2
  <2>2. queue' # <<>>
    BY <1>2, <1>6, EmptySeq
  <2>3. QED
    BY <1>1, <1>6, <1>9, <2>1, <2>2 DEF TypeOK
<1>12. PassTimeAsserts'
  BY <1>1, <1>6, <1>7 DEF PassTimeAsserts
<1>13. \A i \in 1..Len(queue) : \A k \in 1..Len(queue[i].tasks) : queue[i].tasks[k] # t
  BY <1>1 DEF OnePlaceEach, Queued, t
<1>14. t \in pending
  BY <1>1 DEF OnePlaceEach, t
<1>15. OnePlaceEach'
  <2>1. ASSUME NEW i \in 1..Len(queue'), NEW j \in 1..Len(queue'),
               NEW k \in 1..Len(queue'[i].tasks), NEW l \in 1..Len(queue'[j].tasks),
               queue'[i].tasks[k] = queue'[j].tasks[l]
        PROVE  i = j /\ k = l
    <3>1. i \in 1..Len(queue) /\ j \in 1..Len(queue)
      BY <1>6
    <3>2. CASE /\ k \in 1..Len(queue[i].tasks) /\ queue'[i].tasks[k] = queue[i].tasks[k]
               /\ l \in 1..Len(queue[j].tasks) /\ queue'[j].tasks[l] = queue[j].tasks[l]
      BY <1>1, <2>1, <3>1, <3>2 DEF OnePlaceEach
    <3>3. QED
      <4>1. CASE queue'[i].tasks[k] = t
        <5>1. ~(l \in 1..Len(queue[j].tasks) /\ queue'[j].tasks[l] = queue[j].tasks[l])
          BY <1>13, <2>1, <3>1, <4>1
        <5>2. ~(k \in 1..Len(queue[i].tasks) /\ queue'[i].tasks[k] = queue[i].tasks[k])
          BY <1>13, <3>1, <4>1
        <5>3. i = c /\ j = c /\ k = Len(old) + 1 /\ l = Len(old) + 1
          BY <1>10, <5>1, <5>2
        <5>4. QED
          BY <5>3
      <4>2. CASE queue'[i].tasks[k] # t
        BY <1>10, <2>1, <3>2, <4>2
      <4>3. QED
        BY <4>1, <4>2
  <2>2. ASSUME NEW j \in 1..Len(queue'), NEW k \in 1..Len(queue'[j].tasks)
        PROVE  queue'[j].tasks[k] \in pending <=> ~(j = 1 /\ k < pos)
    <3>1. CASE k \in 1..Len(queue[j].tasks) /\ queue'[j].tasks[k] = queue[j].tasks[k]
      BY <1>1, <1>9, <3>1 DEF OnePlaceEach
    <3>2. CASE j = c /\ queue'[j].tasks[k] = t
      <4>1. ~(j = 1 /\ pos > 0)
        BY <1>8, <3>2
      <4>2. ~(j = 1 /\ k < pos)
        BY <1>2, <1>9, <4>1
      <4>3. QED
        BY <1>14, <3>2, <4>2
    <3>3. QED
      BY <1>10, <3>1, <3>2
  <2>3. ASSUME NEW u \in pending PROVE Queued(u)'
    <3>1. CASE u = t
      <4>1. c \in 1..Len(queue') /\ Len(old) + 1 \in 1..Len(queue'[c].tasks)
            /\ queue'[c].tasks[Len(old) + 1] = u
        BY <1>2, <1>3, <1>4, <1>6, <1>7, <3>1
      <4>2. QED
        BY <4>1 DEF Queued
    <3>2. CASE u # t
      <4>1. PICK i \in 1..Len(queue) : \E k \in 1..Len(queue[i].tasks) : queue[i].tasks[k] = u
        BY <1>1, <2>3, <3>2 DEF OnePlaceEach, Queued, t
      <4>2. PICK k \in 1..Len(queue[i].tasks) : queue[i].tasks[k] = u
        BY <4>1
      <4>3. i \in 1..Len(queue')
        BY <1>6
      <4>4. k \in 1..Len(queue'[i].tasks) /\ queue'[i].tasks[k] = u
        <5>1. Len(queue'[i].tasks) \in Nat /\ Len(queue'[i].tasks) >= Len(queue[i].tasks)
              /\ Len(queue[i].tasks) \in Nat
          <6>1. CASE i = c
            BY <1>3, <1>9, <4>3, <6>1 DEF old
          <6>2. CASE i # c
            BY <1>9, <4>3, <6>2
          <6>3. QED
            BY <6>1, <6>2
        <5>2. QED
          BY <1>9, <4>2, <4>3, <5>1
      <4>5. QED
        BY <4>3, <4>4 DEF Queued
    <3>3. QED
      BY <3>1, <3>2
  <2>4. call' = NoCall /\ pending' = pending /\ pos' = pos
    BY <1>1
  <2>5. QED
    BY <2>1, <2>2, <2>3, <2>4 DEF OnePlaceEach
<1>16. ASSUME NEW j \in 1..Len(queue') PROVE Due(j)' = Due(j)
  <2>1. j \in 1..Len(queue) /\ 1 \in 1..Len(queue) /\ queue'[1].left = queue[1].left
    <3>1. j \in 1..Len(queue) /\ 1 \in 1..Len(queue)
      BY <1>2, <1>6
    <3>2. QED
      BY <1>7, <3>1
  <2>2. queue'[j].tasks[1] = queue[j].tasks[1]
    BY <1>9
  <2>3. QED
    BY <1>1, <2>1, <2>2 DEF Due
<1>17. DeadlinesKept'
  <2>1. ASSUME NEW j \in 1..Len(queue'), NEW k \in 1..Len(queue'[j].tasks)
        PROVE  (j = 1 /\ k < pos) \/ due[queue'[j].tasks[k]] = Due(j)'
    <3>1. CASE k \in 1..Len(queue[j].tasks) /\ queue'[j].tasks[k] = queue[j].tasks[k]
      BY <1>1, <1>9, <1>16, <3>1 DEF DeadlinesKept
    <3>2. CASE j = c /\ queue'[j].tasks[k] = t
      <4>1. due[t] = n + (IF c = 1 THEN 0 ELSE Due(c - 1))
        BY <1>1 DEF DeadlinesKept, n, c, t
      <4>2. CASE c = 1
        <5>1. Due(1) = n
          BY <1>2, <4>2 DEF Due
        <5>2. QED
          BY <1>2, <1>16, <3>2, <4>1, <4>2, <5>1
      <4>3. CASE c # 1
        <5>1. c \in 2..Len(queue) /\ c - 1 \in 1..Len(queue)
          BY <1>2, <4>3
        <5>2. Due(c) = Due(c - 1) + n
          BY <1>1, <1>2, <5>1 DEF DeadlinesKept
        <5>3. Due(c - 1) \in Int
          <6>1. queue[1].left \in Int /\ 1 \in 1..Len(queue[c - 1].tasks)
                /\ queue[c - 1].tasks[1] \in Task
            <7>1. 1 \in 1..Len(queue)
              BY <1>2
            <7>2. QED
              <8>1. queue[1].left \in Int
                BY <1>1, <7>1, Elements
              <8>2. Len(queue[c - 1].tasks) \in Nat \ {0}
                    /\ \A m \in 1..Len(queue[c - 1].tasks) : queue[c - 1].tasks[m] \in Task
                BY <1>1, <5>1, Elements
              <8>3. QED
                BY <8>1, <8>2
          <6>2. QED
            BY <1>1, <6>1 DEF Due, TypeOK
        <5>4. QED
          BY <1>2, <1>16, <3>2, <4>1, <4>3, <5>2, <5>3
      <4>4. QED
        BY <4>2, <4>3
    <3>3. QED
      BY <1>10, <3>1, <3>2
  <2>2. ASSUME NEW i \in 2..Len(queue') PROVE Due(i)' = Due(i - 1)' + queue'[i].left
    <3>1. /\ i \in 1..Len(queue') /\ i - 1 \in 1..Len(queue')
          /\ i \in 1..Len(queue) /\ i \in 2..Len(queue)
      <4>1. i \in 2..Len(queue)
        BY <1>6
      <4>2. Len(queue) \in Nat /\ Len(queue') = Len(queue)
        BY <1>2, <1>6
      <4>3. QED
        BY <4>1, <4>2
    <3>2. QED
      BY <1>1, <1>7, <1>16, <3>1 DEF DeadlinesKept
  <2>3. ASSUME NEW i \in 1..Len(queue'), NEW j \in 1..Len(queue'), i < j
        PROVE  Due(i)' < Due(j)'
    BY <1>1, <1>6, <1>16, <2>3 DEF DeadlinesKept
  <2>4. QED
    BY <1>1, <2>1, <2>2, <2>3 DEF DeadlinesKept
<1>18. FifoGroups'
  <2>1. ASSUME NEW j \in 1..Len(queue'), NEW k \in 1..Len(queue'[j].tasks),
               NEW l \in 1..Len(queue'[j].tasks), k < l, ~(j = 1 /\ k < pos)
        PROVE  <<queue'[j].tasks[k], queue'[j].tasks[l]>> \in older
    <3>1. CASE /\ k \in 1..Len(queue[j].tasks) /\ queue'[j].tasks[k] = queue[j].tasks[k]
               /\ l \in 1..Len(queue[j].tasks) /\ queue'[j].tasks[l] = queue[j].tasks[l]
      BY <1>1, <1>9, <2>1, <3>1 DEF FifoGroups
    <3>2. CASE /\ k \in 1..Len(queue[j].tasks) /\ queue'[j].tasks[k] = queue[j].tasks[k]
               /\ queue'[j].tasks[l] = t
      <4>1. queue[j].tasks[k] \in pending /\ queue[j].tasks[k] # t
        BY <1>1, <1>9, <1>13, <2>1, <3>2 DEF OnePlaceEach
      <4>2. QED
        BY <1>1, <3>2, <4>1 DEF FifoGroups, t
    <3>3. CASE j = c /\ k = Len(old) + 1
      <4>1. l \in 1..Len(old) + 1
        BY <1>9, <3>3
      <4>2. QED
        BY <1>3, <2>1, <3>3, <4>1
    <3>4. QED
      BY <1>10, <3>1, <3>2, <3>3
  <2>2. QED
    BY <1>1, <2>1 DEF FifoGroups
<1>19. QED
  BY <1>11, <1>12, <1>15, <1>17, <1>18 DEF IInv

LEMMA FunctionIsSeq ==
  ASSUME NEW S, NEW n \in Nat, NEW f \in [1..n -> S]
  PROVE  f \in Seq(S) /\ Len(f) = n
OBVIOUS

LEMMA WalkStepIInv ==
  ASSUME IInv, WalkStep
  PROVE  IInv'
<1> DEFINE i == call.i  rest == call.ns - queue[i].left
<1>1. /\ TypeOK /\ call # NoCall /\ i <= Len(queue) /\ WalkBody
      /\ UNCHANGED <<time, pos, pending, due, older>>
  BY DEF IInv, WalkStep
<1>2. /\ call \in [task : Task, ns : Nat \ {0}, i : Nat \ {0}]
      /\ i \in 1..Len(queue) /\ Len(queue) \in Nat /\ queue[i].left \in Int
      /\ rest \in Int
  <2>1. call \in [task : Task, ns : Nat \ {0}, i : Nat \ {0}] /\ Len(queue) \in Nat
    BY <1>1, Elements DEF TypeOK
  <2>2. i \in 1..Len(queue)
    BY <1>1, <2>1
  <2>3. queue[i].left \in Int
    BY <1>1, <2>2, Elements
  <2>4. QED
    BY <2>1, <2>2, <2>3
<1>3. CASE rest < 0 /\ queue' = InsertBefore(queue, i, call.ns, call.task) /\ call' = NoCall
  <2>1. NewGroupAt(i)
    <3>1. queue' = [j \in 1..Len(queue) + 1 |->
                      IF j < i THEN queue[j]
                      ELSE IF j = i THEN [left |-> call.ns, tasks |-> <<call.task>>]
                      ELSE IF j = i + 1
                             THEN [left |-> queue[i].left - call.ns, tasks |-> queue[i].tasks]
                      ELSE queue[j - 1]]
      BY <1>3 DEF InsertBefore
    <3>2. \A j \in 1..Len(queue) : queue[j] \in [left : Int, tasks : Seq(Task)]
      BY <1>1, ElementOfSeq DEF TypeOK
    <3>3. <<call.task>> \in Seq(Task) /\ call.ns \in Int /\ queue[i].left - call.ns \in Int
          /\ queue[i].tasks \in Seq(Task)
      BY <1>2, <3>2
    <3>4. ASSUME NEW j \in 1..Len(queue) + 1
          PROVE  /\ queue'[j] \in [left : Int, tasks : Seq(Task)]
                 /\ queue'[j].tasks = IF j < i THEN queue[j].tasks
                                      ELSE IF j = i THEN <<call.task>> ELSE queue[j - 1].tasks
                 /\ queue'[j].left = IF j < i THEN queue[j].left
                                     ELSE IF j = i THEN call.ns
                                     ELSE IF j = i + 1 THEN queue[i].left - call.ns
                                     ELSE queue[j - 1].left
      <4>1. CASE j < i
        <5>1. queue'[j] = queue[j] /\ j \in 1..Len(queue)
          BY <1>2, <3>1, <4>1
        <5>2. QED
          BY <3>2, <4>1, <5>1
      <4>2. CASE j = i
        <5>1. queue'[j] = [left |-> call.ns, tasks |-> <<call.task>>] /\ ~(j < i)
          BY <1>2, <3>1, <4>2
        <5>2. QED
          BY <3>3, <4>2, <5>1
      <4>3. CASE j = i + 1
        <5>1. /\ queue'[j] = [left |-> queue[i].left - call.ns, tasks |-> queue[i].tasks]
              /\ ~(j < i) /\ j # i /\ j - 1 = i
          BY <1>2, <3>1, <4>3
        <5>2. QED
          BY <3>3, <4>3, <5>1
      <4>4. CASE j > i + 1
        <5>1. queue'[j] = queue[j - 1] /\ ~(j < i) /\ j # i /\ j # i + 1 /\ j - 1 \in 1..Len(queue)
          BY <1>2, <3>1, <4>4
        <5>2. QED
          BY <3>2, <5>1
      <4>5. QED
        BY <1>2, <4>1, <4>2, <4>3, <4>4
    <3>5. queue' \in [1..Len(queue) + 1 -> [left : Int, tasks : Seq(Task)]]
      BY <3>1, <3>4
    <3>6. queue' \in Seq([left : Int, tasks : Seq(Task)]) /\ Len(queue') = Len(queue) + 1
      <4> DEFINE S == [left : Int, tasks : Seq(Task)]  m == Len(queue) + 1
      <4>1. m \in Nat /\ queue' \in [1..m -> S]
        BY <1>2, <3>5
      <4> HIDE DEF S, m
      <4>2. queue' \in Seq(S) /\ Len(queue') = m
        BY <4>1, FunctionIsSeq
      <4>3. QED
        BY <4>2 DEF S, m
    <3>7. call.ns < queue[i].left
      BY <1>2, <1>3
    <3>8. QED
      BY <3>4, <3>6, <3>7 DEF NewGroupAt
  <2>2. QED
    BY <1>1, <1>3, <2>1, NewGroupIInv
<1>4. CASE /\ rest = 0
           /\ queue' = [queue EXCEPT ![i].tasks = Append(@, call.task)]
           /\ call' = NoCall
  BY <1>4, JoinIInv DEF Join
<1>5. CASE rest > 0 /\ queue' = queue /\ call' = [call EXCEPT !.ns = rest, !.i = i + 1]
  <2>1. /\ PassTimeAsserts /\ OnePlaceEach /\ DeadlinesKept /\ FifoGroups
        /\ UNCHANGED <<queue, pos, pending, due, older>>
    BY <1>1, <1>5 DEF IInv
  <2>2. /\ call' \in [task : Task, ns : Nat \ {0}, i : Nat \ {0}] /\ call' # NoCall
        /\ call'.task = call.task /\ call'.ns = rest /\ call'.i = i + 1
    <3>1. rest \in Nat \ {0} /\ i + 1 \in Nat \ {0}
      BY <1>2, <1>5
    <3>2. call' = [task |-> call.task, ns |-> rest, i |-> i + 1]
      BY <1>2, <1>5
    <3>3. call' \in [task : Task, ns : Nat \ {0}, i : Nat \ {0}]
      BY <1>2, <3>1, <3>2
    <3>4. call' \in [task : Task, ns : Int, i : Nat]
      BY <3>3
    <3>5. QED
      BY <3>2, <3>3, <3>4, ClockAssumption
  <2>3. TypeOK'
    <3>1. i + 1 <= Len(queue) + 1
      BY <1>2
    <3>2. QED
      BY <1>1, <2>1, <2>2, <3>1 DEF TypeOK
  <2>4. PassTimeAsserts' /\ FifoGroups' /\ OnePlaceEach'
    BY <1>1, <2>1, <2>2 DEF PassTimeAsserts, FifoGroups, OnePlaceEach, Queued
  <2>5. due[call.task] = rest + Due(i)
    <3>1. due[call.task] = call.ns + (IF i = 1 THEN 0 ELSE Due(i - 1))
      BY <1>1, <2>1 DEF DeadlinesKept
    <3>2. CASE i = 1
      BY <1>2, <3>1, <3>2 DEF Due
    <3>3. CASE i # 1
      <4>1. i \in 2..Len(queue) /\ i - 1 \in 1..Len(queue)
        BY <1>2, <3>3
      <4>2. Due(i) = Due(i - 1) + queue[i].left
        BY <2>1, <4>1 DEF DeadlinesKept
      <4>3. Due(i - 1) \in Int
        <5>1. 1 \in 1..Len(queue)
          BY <1>2
        <5>2. queue[1].left \in Int
          BY <1>1, <5>1, Elements
        <5>3. 1 \in 1..Len(queue[i - 1].tasks) /\ queue[i - 1].tasks[1] \in Task
          BY <1>1, <4>1, Elements
        <5>4. QED
          BY <1>1, <5>2, <5>3 DEF Due, TypeOK
      <4>4. QED
        BY <1>2, <3>1, <3>3, <4>2, <4>3
    <3>4. QED
      BY <3>2, <3>3
  <2>6. \A j : Due(j)' = Due(j)
    BY <2>1 DEF Due
  <2>7. (due[call.task] = call.ns + (IF call.i = 1 THEN 0 ELSE Due(call.i - 1)))'
    <3>1. call'.i # 1 /\ call'.i - 1 = i
      BY <1>2, <2>2
    <3>2. Due(call.i - 1)' = Due(i)
      BY <2>1, <3>1 DEF Due
    <3>3. QED
      BY <2>1, <2>2, <2>5, <3>1, <3>2
  <2>8. DeadlinesKept'
    <3>1. DeadlinesKept /\ UNCHANGED <<queue, pos, due>>
      BY <2>1
    <3>2. QED
      BY <3>1, <2>7 DEF DeadlinesKept, Due
  <2>9. QED
    BY <2>3, <2>4, <2>8 DEF IInv
<1>6. QED
  BY <1>1, <1>3, <1>4, <1>5 DEF WalkBody

LEMMA AddDeferredTaskIInv ==
  ASSUME IInv, NEW t \in Task, NEW n \in Delay, AddDeferredTask(t, n)
  PROVE  IInv'
<1>1. /\ TypeOK /\ PassTimeAsserts /\ OnePlaceEach /\ DeadlinesKept /\ FifoGroups
      /\ call = NoCall /\ pos # 1 /\ ~Queued(t)
      /\ t \notin pending
      /\ pending' = pending \cup {t}
      /\ due' = [due EXCEPT ![t] = n]
      /\ older' = older \cup {<<u, t>> : u \in pending}
      /\ UNCHANGED <<time, pos>>
  BY DEF IInv, AddDeferredTask, Promise!Schedule
<1>2. n \in Nat \ {0} /\ due \in [Task -> Int] /\ pos \in Nat
  BY <1>1, ClockAssumption DEF TypeOK
<1>3. /\ pending' \in SUBSET Task /\ due' \in [Task -> Int]
      /\ older' \in SUBSET (Task \X Task)
  BY <1>1, <1>2 DEF TypeOK
<1>4. due'[t] = n /\ \A u \in Task : u # t => due'[u] = due[u]
  BY <1>1, <1>2
<1>5. CASE queue = <<>> /\ queue' = << [left |-> n, tasks |-> <<t>>] >> /\ call' = NoCall
  <2>1. pending = {} /\ pos = 0
    <3>1. Len(queue) = 0
      BY <1>5
    <3>2. ~ \E u : Queued(u)
      BY <3>1 DEF Queued
    <3>3. QED
      BY <1>1, <1>2, <1>5, <3>2 DEF OnePlaceEach, TypeOK
  <2>2. /\ Len(queue') = 1 /\ queue'[1].left = n /\ queue'[1].tasks = <<t>>
        /\ queue' \in Seq([left : Int, tasks : Seq(Task)])
        /\ Len(queue'[1].tasks) = 1 /\ queue'[1].tasks[1] = t
        /\ queue'[1].tasks # <<>>
    BY <1>2, <1>5
  <2>3. TypeOK'
    BY <1>1, <1>3, <1>5, <2>1, <2>2 DEF TypeOK
  <2>4. PassTimeAsserts'
    BY <1>1, <1>2, <2>1, <2>2 DEF PassTimeAsserts
  <2>5. OnePlaceEach'
    <3>1. Queued(t)'
      <4>1. 1 \in 1..Len(queue') /\ 1 \in 1..Len(queue'[1].tasks)
        BY <2>2
      <4>2. queue'[1].tasks[1] = t
        BY <2>2
      <4>3. QED
        BY <4>1, <4>2, Zenon DEF Queued
    <3>2. QED
      BY <1>1, <1>5, <2>1, <2>2, <3>1 DEF OnePlaceEach
  <2>6. DeadlinesKept'
    BY <1>1, <1>4, <1>5, <2>1, <2>2 DEF DeadlinesKept, Due
  <2>7. FifoGroups'
    BY <1>1, <1>5, <2>1, <2>2 DEF FifoGroups
  <2>8. QED
    BY <2>3, <2>4, <2>5, <2>6, <2>7 DEF IInv
<1>6. CASE queue # <<>> /\ queue' = queue /\ call' = [task |-> t, ns |-> n, i |-> 1]
  <2>1. /\ call' \in [task : Task, ns : Nat \ {0}, i : Nat \ {0}] /\ call' # NoCall
        /\ call'.task = t /\ call'.ns = n /\ call'.i = 1
    <3>1. call' \in [task : Task, ns : Nat \ {0}, i : Nat \ {0}]
      BY <1>2, <1>6
    <3>2. call' \in [task : Task, ns : Int, i : Nat]
      BY <3>1
    <3>3. QED
      BY <1>6, <3>1, <3>2, ClockAssumption
  <2>2. Len(queue) \in Nat /\ 1 <= Len(queue) + 1
    BY <1>1, Elements
  <2>3. TypeOK'
    BY <1>1, <1>3, <1>6, <2>1, <2>2 DEF TypeOK
  <2>4. PassTimeAsserts'
    BY <1>1, <1>6 DEF PassTimeAsserts
  <2>5. ASSUME NEW i \in 1..Len(queue), NEW k \in 1..Len(queue[i].tasks)
        PROVE  queue[i].tasks[k] # t /\ queue[i].tasks[k] \in Task
    BY <1>1, Elements DEF Queued
  <2>6. OnePlaceEach'
    <3>1. \A i \in 1..Len(queue) : \A k \in 1..Len(queue[i].tasks) :
             queue[i].tasks[k] \in pending' <=> ~(i = 1 /\ k < pos)
      BY <1>1, <2>5 DEF OnePlaceEach
    <3>2. \A u : Queued(u)' = Queued(u)
      BY <1>6 DEF Queued
    <3>3. \A u \in pending' : Queued(u)' \/ t = u
      BY <1>1, <3>2 DEF OnePlaceEach
    <3>4. t \in pending' /\ ~Queued(t)'
      BY <1>1, <3>2
    <3>5. QED
      BY <1>1, <1>6, <2>1, <3>1, <3>3, <3>4 DEF OnePlaceEach
  <2>7. \A i \in 1..Len(queue) : \A k \in 1..Len(queue[i].tasks) :
           due'[queue[i].tasks[k]] = due[queue[i].tasks[k]]
    BY <1>4, <2>5
  <2>8. ASSUME NEW i \in 1..Len(queue) PROVE Due(i)' = Due(i)
    <3>1. 1 \in 1..Len(queue[i].tasks)
      BY <1>1, Elements
    <3>2. QED
      BY <1>6, <2>7, <3>1 DEF Due
  <2>9. DeadlinesKept'
    <3>1. ASSUME NEW i \in 1..Len(queue), NEW k \in 1..Len(queue[i].tasks)
          PROVE  (i = 1 /\ k < pos) \/ due'[queue[i].tasks[k]] = Due(i)'
      BY <1>1, <2>7, <2>8 DEF DeadlinesKept
    <3>2. ASSUME NEW i \in 2..Len(queue) PROVE Due(i)' = Due(i - 1)' + queue[i].left
      <4>1. i \in 1..Len(queue) /\ i - 1 \in 1..Len(queue)
        BY <2>2
      <4>2. Due(i) = Due(i - 1) + queue[i].left
        BY <1>1 DEF DeadlinesKept
      <4>3. Due(i - 1)' = Due(i - 1)
        <5>1. 1 \in 1..Len(queue[i - 1].tasks)
          BY <1>1, <4>1, Elements
        <5>2. QED
          BY <1>6, <2>7, <4>1, <5>1 DEF Due
      <4>4. QED
        BY <2>8, <4>1, <4>2, <4>3
    <3>3. ASSUME NEW i \in 1..Len(queue), NEW j \in 1..Len(queue), i < j
          PROVE  Due(i)' < Due(j)'
      BY <1>1, <2>8, <3>3 DEF DeadlinesKept
    <3>4. (due[call.task] = call.ns + (IF call.i = 1 THEN 0 ELSE Due(call.i - 1)))'
      BY <1>2, <1>4, <2>1
    <3>5. QED
      BY <1>1, <1>6, <3>1, <3>2, <3>3, <3>4 DEF DeadlinesKept
  <2>10. FifoGroups'
    BY <1>1, <1>6, <2>1 DEF FifoGroups
  <2>11. QED
    BY <2>3, <2>4, <2>6, <2>9, <2>10 DEF IInv
<1>7. QED
  BY <1>5, <1>6 DEF AddDeferredTask

LEMMA NextIInv == IInv /\ [Next]_vars => IInv'
<1> SUFFICES ASSUME IInv, [Next]_vars PROVE IInv'
  OBVIOUS
<1>1. ASSUME NEW t \in Task, NEW n \in Delay, AddDeferredTask(t, n) PROVE IInv'
  BY <1>1, AddDeferredTaskIInv
<1>2. CASE WalkStep
  BY <1>2, WalkStepIInv
<1>3. CASE PushBack
  BY <1>3, PushBackIInv
<1>4. ASSUME NEW n \in Increment, IncrementTime(n) PROVE IInv'
  BY <1>4, IncrementTimeIInv
<1>5. CASE RunTask
  BY <1>5, RunTaskIInv
<1>6. CASE EndGroup
  BY <1>6, EndGroupIInv
<1>7. ASSUME NEW s \in 0..SecWrap - 1, NEW ns \in SetNsec, SetTime(s, ns) PROVE IInv'
  BY <1>7, SetTimeIInv
<1>8. CASE UNCHANGED vars
  <2>1. /\ time' = time /\ queue' = queue /\ pos' = pos /\ call' = call
        /\ pending' = pending /\ due' = due /\ older' = older
    BY <1>8 DEF vars
  <2>2. TypeOK'
    BY <2>1 DEF IInv, TypeOK
  <2>3. PassTimeAsserts'
    BY <2>1 DEF IInv, PassTimeAsserts
  <2>4. OnePlaceEach'
    BY <2>1 DEF IInv, OnePlaceEach, Queued
  <2>5. DeadlinesKept'
    BY <2>1 DEF IInv, DeadlinesKept, Due
  <2>6. FifoGroups'
    BY <2>1 DEF IInv, FifoGroups
  <2>7. QED
    BY <2>2, <2>3, <2>4, <2>5, <2>6 DEF IInv
<1>9. QED
  BY <1>1, <1>2, <1>3, <1>4, <1>5, <1>6, <1>7, <1>8 DEF Next

(***************************************************************************)
(* The invariants of the clock.                                            *)
(***************************************************************************)

(* Every reachable state satisfies the strengthened invariant: the delta    *)
(* list of clock.cc, the history of what was asked of it and the two loops  *)
(* of add_deferred_task and increment_time agree.                           *)
THEOREM IInvariant == Spec => []IInv
<1>1. Init => IInv
  BY InitIInv
<1>2. IInv /\ [Next]_vars => IInv'
  BY NextIInv
<1>3. QED
  BY <1>1, <1>2, PTL DEF Spec

(* Types, and the bounds of the two loops of clock.cc.                      *)
THEOREM TypeCorrect == Spec => []TypeOK
<1>1. IInv => TypeOK
  BY DEF IInv
<1>2. QED
  BY <1>1, IInvariant, PTL

(* The asserts of DeferredTasks::pass_time (clock.cc) never fail.           *)
THEOREM PassTimeSafe == Spec => []PassTimeAsserts
<1>1. IInv => PassTimeAsserts
  BY DEF IInv
<1>2. QED
  BY <1>1, IInvariant, PTL

(* The delta list of clock.cc keeps every caller's deadline.                *)
THEOREM DeadlinesCorrect == Spec => []DeadlinesKept
<1>1. IInv => DeadlinesKept
  BY DEF IInv
<1>2. QED
  BY <1>1, IInvariant, PTL

(* add_deferred_task neither loses nor duplicates a task, whatever list it  *)
(* finds, also when a running task calls it.                                *)
THEOREM NoTaskLost == Spec => []OnePlaceEach
<1>1. IInv => OnePlaceEach
  BY DEF IInv
<1>2. QED
  BY <1>1, IInvariant, PTL

(* Tasks due at the same instant stand in the order of their queueing.      *)
THEOREM GroupsFifo == Spec => []FifoGroups
<1>1. IInv => FifoGroups
  BY DEF IInv
<1>2. QED
  BY <1>1, IInvariant, PTL

(***************************************************************************)
(* Clock implements DeferredSchedule.                                      *)
(***************************************************************************)

(* Outside increment_time no pending task is due: each stands on the list   *)
(* behind a first group that has time left.                                 *)
LEMMA NothingDueWhenIdle ==
  ASSUME IInv, Idle, NEW t \in pending
  PROVE  due[t] > 0
<1>1. /\ TypeOK /\ PassTimeAsserts /\ OnePlaceEach /\ DeadlinesKept
      /\ pos = 0 /\ call = NoCall
  BY DEF IInv, Idle
<1>0. PICK i \in 1..Len(queue) : \E k \in 1..Len(queue[i].tasks) : queue[i].tasks[k] = t
  BY <1>1 DEF OnePlaceEach, Queued
<1>2. PICK k \in 1..Len(queue[i].tasks) : queue[i].tasks[k] = t
  BY <1>0
<1>3. i \in Nat /\ 1 <= i /\ Len(queue) \in Nat /\ 1 \in 1..Len(queue) /\ k \in Nat /\ 1 <= k
  BY <1>1, Elements
<1>4. queue[1].left \in Int /\ queue[1].left > 0 /\ Due(1) = queue[1].left
  BY <1>1, <1>3, Elements DEF PassTimeAsserts, Due
<1>5. due[t] = Due(i) /\ due[t] \in Int
  <2>1. ~(i = 1 /\ k < pos)
    BY <1>1, <1>3
  <2>2. due[t] = Due(i)
    BY <1>1, <1>2, <2>1 DEF DeadlinesKept
  <2>3. t \in Task
    BY <1>1 DEF TypeOK
  <2>4. QED
    BY <1>1, <2>2, <2>3 DEF TypeOK
<1>6. CASE i = 1
  BY <1>4, <1>5, <1>6
<1>7. CASE i # 1
  <2>1. 1 < i
    BY <1>3, <1>7
  <2>2. Due(1) < Due(i)
    BY <1>1, <1>3, <2>1 DEF DeadlinesKept
  <2>3. QED
    BY <1>4, <1>5, <2>2
<1>8. QED
  BY <1>6, <1>7

(* The task that increment_time runs next is due, and comes before every    *)
(* other pending task.                                                      *)
LEMMA RunTaskRuns ==
  ASSUME IInv, RunTask
  PROVE  Promise!Next
<1> DEFINE x == queue[1].tasks[pos]
<1>1. /\ TypeOK /\ PassTimeAsserts /\ OnePlaceEach /\ DeadlinesKept /\ FifoGroups
      /\ pos > 0 /\ call = NoCall /\ pos <= Len(queue[1].tasks)
      /\ pending' = pending \ {x}
      /\ due' = [due EXCEPT ![x] = 0]
      /\ older' = {p \in older : p[1] # x /\ p[2] # x}
  BY DEF IInv, RunTask
<1>2. /\ x \in Task /\ 1 \in 1..Len(queue) /\ pos \in 1..Len(queue[1].tasks)
      /\ Len(queue[1].tasks) \in Nat /\ Len(queue) \in Nat
  BY <1>1, Elements DEF TypeOK
<1>3. x \in pending /\ ~(1 = 1 /\ pos < pos)
  BY <1>1, <1>2 DEF OnePlaceEach
<1>4. due[x] = Due(1) /\ Due(1) = queue[1].left
  BY <1>1, <1>2, <1>3 DEF DeadlinesKept, Due
<1>5. due[x] <= 0
  <2>1. queue[1].left \in Int /\ ~(queue[1].left > 0)
    BY <1>1, <1>2, Elements DEF PassTimeAsserts
  <2>2. QED
    BY <1>4, <2>1
<1>6. ASSUME NEW u \in pending \ {x} PROVE Promise!Before(x, u)
  <2>0. PICK i \in 1..Len(queue) : \E k \in 1..Len(queue[i].tasks) : queue[i].tasks[k] = u
    BY <1>1 DEF OnePlaceEach, Queued
  <2>1. PICK k \in 1..Len(queue[i].tasks) : queue[i].tasks[k] = u
    BY <2>0
  <2>2. ~(i = 1 /\ k < pos)
    BY <1>1, <2>1 DEF OnePlaceEach
  <2>3. due[u] = Due(i)
    BY <1>1, <2>1, <2>2 DEF DeadlinesKept
  <2>4. CASE i = 1
    <3>1. pos < k
      BY <1>2, <2>1, <2>2, <2>4
    <3>2. <<x, u>> \in older
      BY <1>1, <1>2, <2>1, <2>4, <3>1 DEF FifoGroups
    <3>3. QED
      BY <1>4, <2>3, <2>4, <3>2 DEF Promise!Before
  <2>5. CASE i # 1
    <3>1. 1 < i
      BY <1>2, <2>5
    <3>2. Due(1) < Due(i)
      BY <1>1, <1>2, <3>1 DEF DeadlinesKept
    <3>3. QED
      BY <1>4, <2>3, <3>2 DEF Promise!Before
  <2>6. QED
    BY <2>4, <2>5
<1>7. Promise!Run(x)
  BY <1>1, <1>3, <1>5, <1>6 DEF Promise!Run
<1>8. QED
  BY <1>2, <1>7 DEF Promise!Next

LEMMA StepRefines ==
  ASSUME IInv, [Next]_vars
  PROVE  [Promise!Next]_(Promise!abstractVars)
<1>1. ASSUME NEW t \in Task, NEW n \in Delay, AddDeferredTask(t, n) PROVE Promise!Next
  BY <1>1 DEF AddDeferredTask, Promise!Next
<1>2. ASSUME NEW n \in Increment, IncrementTime(n) PROVE Promise!Next
  <2>1. \A t \in pending : due[t] > 0
    BY <1>2, NothingDueWhenIdle DEF IncrementTime
  <2>2. Promise!Advance(n)
    BY <1>2, <2>1 DEF IncrementTime, Promise!Advance
  <2>3. QED
    BY <2>2 DEF Promise!Next
<1>3. CASE RunTask
  BY <1>3, RunTaskRuns
<1>4. ASSUME \/ WalkStep \/ PushBack \/ EndGroup
             \/ \E s \in 0..SecWrap - 1, ns \in SetNsec : SetTime(s, ns)
             \/ UNCHANGED vars
      PROVE  UNCHANGED Promise!abstractVars
  BY <1>4 DEF WalkStep, PushBack, EndGroup, SetTime, vars, Promise!abstractVars
<1>5. QED
  BY <1>1, <1>2, <1>3, <1>4 DEF Next

(* The clock of clock.cc keeps what clock.h promises, for every set of      *)
(* tasks, every delay and every increment: each task runs once, at the      *)
(* first advance that reaches its time, in order of due time and then of    *)
(* queueing, and no advance ends with a task overdue.                       *)
THEOREM Refinement == Spec => KeepsPromise
<1>1. Init => Promise!Init
  BY DEF Init
<1>2. IInv /\ [Next]_vars => [Promise!Next]_(Promise!abstractVars)
  BY StepRefines
<1>3. QED
  BY <1>1, <1>2, IInvariant, PTL DEF Spec, KeepsPromise, Promise!Spec

-----------------------------------------------------------------------------
(* Real time.                                                               *)
Later(a, b) == Ns(a) <= Ns(b)

HostTime == [sec : Nat, nsec : 0..NsPerSec - 1]

LEMMA NsTyped == \A t \in HostTime : Ns(t) \in Nat
<1> SUFFICES ASSUME NEW t \in HostTime PROVE Ns(t) \in Nat
  OBVIOUS
<1>1. t.sec \in Nat /\ t.nsec \in Nat /\ NsPerSec \in Nat
  BY ClockAssumption DEF HostTime
<1>2. t.sec * NsPerSec \in Nat
  BY <1>1
<1>3. QED
  BY <1>1, <1>2 DEF Ns

LEMMA Subtracted ==
  ASSUME NEW then \in HostTime, NEW now \in HostTime, Later(then, now)
  PROVE  LET gone == TimespecSub(now, then)
         IN  /\ gone.sec \in Nat /\ gone.nsec \in 0..NsPerSec - 1
             /\ gone.sec * NsPerSec + gone.nsec = Ns(now) - Ns(then)
<1> DEFINE N == NsPerSec
           s == now.sec - then.sec
           n == now.nsec - then.nsec
<1>1. /\ N \in Nat \ {0} /\ now.sec \in Nat /\ then.sec \in Nat
      /\ now.nsec \in 0..N - 1 /\ then.nsec \in 0..N - 1
  BY ClockAssumption DEF HostTime
<1>2. now.sec * N + now.nsec >= then.sec * N + then.nsec
  BY DEF Later, Ns
<1>3. s \in Int /\ n \in 1 - N..N - 1 /\ now.sec * N - then.sec * N = s * N
  BY <1>1
<1>4. Ns(now) - Ns(then) = s * N + n /\ s * N + n >= 0
  BY <1>1, <1>2, <1>3 DEF Ns
<1>5. TimespecSub(now, then) = IF n < 0 THEN [sec |-> s - 1, nsec |-> n + N] ELSE [sec |-> s, nsec |-> n]
  BY DEF TimespecSub
<1> HIDE DEF N, s, n
<1>6. s >= 0 /\ (n < 0 => s >= 1)
  <2>1. s <= -1 => s * N <= -N
    BY <1>1, <1>3
  <2>2. s = 0 => s * N = 0
    BY <1>1
  <2>3. QED
    BY <1>1, <1>3, <1>4, <2>1, <2>2
<1>7. (s - 1) * N + (n + N) = s * N + n
  BY <1>1, <1>3
<1>8. QED
  BY <1>1, <1>3, <1>4, <1>5, <1>6, <1>7 DEF N

(* What one call of pass_realtime adds to what simulated time is behind.    *)
Slip(now, then, spill_ns, timeratio) ==
  LET r == PassRealtime(now, then, spill_ns, timeratio)
  IN  Ns(now) - Ns(then) + spill_ns - r.spill_ns - timeratio * r.passed

(* At any times, any ratio and whatever was left over by the call before:   *)
(* simulated time does not get ahead of the host's, and a call of           *)
(* increment_time falls behind by less than one nanosecond of simulated     *)
(* time (Clock::pass_realtime).                                             *)
THEOREM PassRealtimeSlips ==
  ASSUME NEW timeratio \in Nat \ {0},
         NEW then \in HostTime, NEW now \in HostTime, Later(then, now), NEW spill_ns \in Nat
  PROVE  LET r == PassRealtime(now, then, spill_ns, timeratio)
         IN  /\ r.passed \in Nat /\ r.increments \in Nat /\ r.spill_ns \in Nat
             /\ Slip(now, then, spill_ns, timeratio) \in 0..(timeratio - 1) * r.increments
<1> DEFINE gone == TimespecSub(now, then)
           s == gone.sec
           left == gone.nsec + spill_ns
           per == NsPerSec \div timeratio
           inc == left \div timeratio
           r == PassRealtime(now, then, spill_ns, timeratio)
<1>1. s \in Nat /\ gone.nsec \in Nat /\ s * NsPerSec + gone.nsec = Ns(now) - Ns(then)
  BY Subtracted, ClockAssumption
<1>2. left \in Nat /\ per \in Nat /\ inc \in Nat
  BY <1>1, ClockAssumption
<1>3. NsPerSec - timeratio * per \in 0..timeratio - 1 /\ left - timeratio * inc \in 0..timeratio - 1
  BY <1>1, <1>2, ClockAssumption
<1>4. /\ r.passed = s * per + inc
      /\ r.increments = s + (IF inc = 0 THEN 0 ELSE 1)
      /\ r.spill_ns = IF inc = 0 THEN left ELSE 0
  BY <1>1 DEF PassRealtime
<1> DEFINE d == NsPerSec - timeratio * per
           e == left - timeratio * inc
<1>5. s * NsPerSec - timeratio * (s * per) = s * d /\ timeratio * (s * per + inc) = timeratio * (s * per) + timeratio * inc
  BY <1>1, <1>2, ClockAssumption
<1>6. s * d \in 0..s * (timeratio - 1)
  BY <1>1, <1>3
<1>7. Ns(now) - Ns(then) + spill_ns = s * NsPerSec + left /\ s * NsPerSec \in Nat /\ timeratio * (s * per) \in Nat
         /\ timeratio * inc \in Nat /\ s * per \in Nat
  BY <1>1, <1>2, ClockAssumption
<1>8. Slip(now, then, spill_ns, timeratio)
         = Ns(now) - Ns(then) + spill_ns - r.spill_ns - timeratio * r.passed
  BY DEF Slip
<1> HIDE DEF gone, s, left, per, inc, d, e, r
<1>9. (timeratio - 1) * s = s * (timeratio - 1) /\ (timeratio - 1) * (s + 1) = s * (timeratio - 1) + (timeratio - 1)
  BY <1>1
<1>10. Slip(now, then, spill_ns, timeratio) = IF inc = 0 THEN s * d ELSE s * d + e
  <2> DEFINE a == s * NsPerSec
             b == timeratio * (s * per)
             c == timeratio * inc
  <2>1. /\ a \in Nat /\ b \in Nat /\ c \in Nat /\ s * d = a - b /\ e = left - c
        /\ timeratio * r.passed = b + c /\ (inc = 0 => c = 0)
    BY <1>4, <1>5, <1>7 DEF d, e
  <2>2. Ns(now) - Ns(then) + spill_ns = a + left
    BY <1>7
  <2>3. Ns(now) \in Int /\ Ns(then) \in Int
    BY NsTyped
  <2> HIDE DEF a, b, c
  <2>4. QED
    BY <1>2, <1>4, <1>8, <2>1, <2>2, <2>3
<1>11. QED
  BY <1>1, <1>2, <1>3, <1>4, <1>6, <1>9, <1>10 DEF r, e

LEMMA ThreeCalls == Tracks
<1> SUFFICES ASSUME NEW timeratio \in 1..NsPerSec, NEW t0 \in Timespec, NEW t1 \in Timespec,
                    NEW t2 \in Timespec, NEW t3 \in Timespec,
                    Later(t0, t1), Later(t1, t2), Later(t2, t3)
             PROVE  LET first == PassRealtime(t1, t0, 0, timeratio)
                        second == PassRealtime(t2, t1, first.spill_ns, timeratio)
                        third == PassRealtime(t3, t2, second.spill_ns, timeratio)
                        passed == first.passed + second.passed + third.passed
                        increments == first.increments + second.increments + third.increments
                        behind == Ns(t3) - Ns(t0) - third.spill_ns - timeratio * passed
                    IN  0 <= behind /\ behind <= (timeratio - 1) * increments
  BY DEF Tracks, Later
<1> DEFINE first == PassRealtime(t1, t0, 0, timeratio)
           second == PassRealtime(t2, t1, first.spill_ns, timeratio)
           third == PassRealtime(t3, t2, second.spill_ns, timeratio)
           r == timeratio
<1>1. /\ r \in Nat \ {0} /\ \A t \in {t0, t1, t2, t3} : t \in HostTime /\ Ns(t) \in Nat
  <2>1. r \in Nat \ {0} /\ \A t \in Timespec : t \in HostTime
    BY ClockAssumption DEF Timespec, HostTime
  <2>2. QED
    BY <2>1, NsTyped
<1>2. /\ first.passed \in Nat /\ first.increments \in Nat /\ first.spill_ns \in Nat
      /\ Slip(t1, t0, 0, r) \in 0..(r - 1) * first.increments
  BY <1>1, PassRealtimeSlips
<1>3. /\ second.passed \in Nat /\ second.increments \in Nat /\ second.spill_ns \in Nat
      /\ Slip(t2, t1, first.spill_ns, r) \in 0..(r - 1) * second.increments
  BY <1>1, <1>2, PassRealtimeSlips
<1>4. /\ third.passed \in Nat /\ third.increments \in Nat /\ third.spill_ns \in Nat
      /\ Slip(t3, t2, second.spill_ns, r) \in 0..(r - 1) * third.increments
  BY <1>1, <1>3, PassRealtimeSlips
<1>5. /\ Slip(t1, t0, 0, r) = Ns(t1) - Ns(t0) + 0 - first.spill_ns - r * first.passed
      /\ Slip(t2, t1, first.spill_ns, r)
           = Ns(t2) - Ns(t1) + first.spill_ns - second.spill_ns - r * second.passed
      /\ Slip(t3, t2, second.spill_ns, r)
           = Ns(t3) - Ns(t2) + second.spill_ns - third.spill_ns - r * third.passed
  BY DEF Slip
<1> HIDE DEF first, second, third
<1>6. /\ r * (first.passed + second.passed + third.passed)
           = r * first.passed + r * second.passed + r * third.passed
      /\ (r - 1) * (first.increments + second.increments + third.increments)
           = (r - 1) * first.increments + (r - 1) * second.increments + (r - 1) * third.increments
      /\ \A n \in Nat : r * n \in Nat /\ (r - 1) * n \in Nat
  BY <1>1, <1>2, <1>3, <1>4
<1> DEFINE behind == Ns(t3) - Ns(t0) - third.spill_ns - r * (first.passed + second.passed + third.passed)
<1>7. behind = Slip(t1, t0, 0, r) + Slip(t2, t1, first.spill_ns, r) + Slip(t3, t2, second.spill_ns, r)
  BY <1>1, <1>2, <1>3, <1>4, <1>5, <1>6
<1> HIDE DEF behind
<1>8. 0 <= behind /\ behind <= (r - 1) * (first.increments + second.increments + third.increments)
  BY <1>2, <1>3, <1>4, <1>6, <1>7
<1>9. QED
  BY <1>8 DEF behind, first, second, third

(* Over any three calls of pass_realtime, simulated time is not ahead of    *)
(* its ratio to the host's, and behind by less than a nanosecond for each   *)
(* increment; nothing is lost between the calls.                            *)
THEOREM RealtimeKept == Spec => []RealtimeTracks
<1>1. RealtimeTracks
  BY ThreeCalls DEF RealtimeTracks
<1>2. QED
  BY <1>1, PTL
=============================================================================
