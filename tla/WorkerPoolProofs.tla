-------------------------- MODULE WorkerPoolProofs --------------------------
(***************************************************************************)
(* Proofs about WorkerPool: PoolInv is an invariant of the pool for any set *)
(* of workers, jobs and answers, and with it the safety properties; and the *)
(* pool implements JobContract.                                             *)
(***************************************************************************)
EXTENDS WorkerPool, TLAPS, FiniteSetTheorems, SequenceTheorems

(***************************************************************************)
(* Counting the workers that live.                                          *)
(***************************************************************************)
AliveWorkers == {w \in Workers : worker[w] \in Alive}

\* The workers are finitely many, so any set of them has a cardinality.
LEMMA WorkersCount ==
  ASSUME NEW S \in SUBSET Workers
  PROVE  IsFiniteSet(S) /\ Cardinality(S) \in Nat
BY WorkersFinite, FS_Subset, FS_CardinalityType, Zenon

\* The capacity of the channel is a natural number.
LEMMA CapacityType == QueueCapacity \in Nat
<1>1. Cardinality(Workers) \in Nat
  BY WorkersCount, Zenon
<1>2. QED
  BY <1>1 DEF QueueCapacity

\* A worker that goes leaves one fewer: the counter of the pool's WaitGroup
\* stays right in GoDown and in Recover.
LEMMA OneWorkerGoes ==
  ASSUME NEW w \in Workers, worker \in [Workers -> Places],
         worker[w] \in Alive,
         worker' = [worker EXCEPT ![w] = "gone"]
  PROVE  /\ AliveWorkers' = AliveWorkers \ {w}
         /\ Cardinality(AliveWorkers') = Cardinality(AliveWorkers) - 1
         /\ Cardinality(AliveWorkers') \in Nat
<1>1. AliveWorkers' = AliveWorkers \ {w}
  BY Zenon DEF AliveWorkers, Alive, Busy
<1>2. w \in AliveWorkers
  BY Zenon DEF AliveWorkers
<1>3. AliveWorkers \in SUBSET Workers
  BY Zenon DEF AliveWorkers
<1>4. Cardinality(AliveWorkers \ {w}) = Cardinality(AliveWorkers) - 1
  BY <1>2, <1>3, WorkersCount, FS_RemoveElement, Zenon
<1>5. Cardinality(AliveWorkers \ {w}) \in Nat
  BY <1>3, WorkersCount, Zenon
<1>6. QED
  BY <1>1, <1>4, <1>5, Zenon

\* A worker that moves between two places of its life changes no count.
LEMMA WorkerMovesOn ==
  ASSUME NEW w \in Workers, worker \in [Workers -> Places],
         worker[w] \in Alive, NEW p \in Alive,
         worker' = [worker EXCEPT ![w] = p]
  PROVE  AliveWorkers' = AliveWorkers
BY Zenon DEF AliveWorkers

-----------------------------------------------------------------------------
(***************************************************************************)
(* Type correctness.                                                        *)
(***************************************************************************)

\* The types hold when the pool is created.
LEMMA InitTypeOK == Init => TypeOK
<1> SUFFICES ASSUME Init PROVE TypeOK
  BY Zenon
<1>1. queue \in Seq(Jobs) /\ results \in [Jobs -> Seq(Answers)]
  <2>1. <<>> \in Seq(Jobs) /\ <<>> \in Seq(Answers)
    BY EmptySeq, Zenon
  <2>2. QED
    BY <2>1, Zenon DEF Init
<1>2. QED
  BY <1>1, Zenon DEF Init, TypeOK, Places

\* Only the two counters can leave their type, and JobInOnePlace and
\* PoolBounds say that they do not.
LEMMA NextTypeOK ==
  ASSUME PoolInv, [Next]_poolVars
  PROVE  TypeOK'
<1> USE DEF TypeOK
<1>1. TypeOK /\ JobInOnePlace /\ HandsMatchPlaces /\ PoolBounds
  BY Zenon DEF PoolInv
<1>2. CASE Start
  BY <1>1, <1>2, WorkersCount DEF Start, Places, Alive, Busy
<1>3. CASE Stop
  BY <1>1, <1>3, Zenon DEF Stop
<1>4. CASE StopReturns
  BY <1>1, <1>4, Zenon DEF StopReturns
<1>5. ASSUME NEW w \in Workers, TakeJob(w)
      PROVE  TypeOK'
  BY <1>1, <1>5, HeadTailProperties, Zenon DEF TakeJob, Places, Alive, Busy
<1>6. ASSUME NEW w \in Workers, GoDown(w)
      PROVE  TypeOK'
  <2>1. worker[w] \in Alive
    BY <1>6, Zenon DEF GoDown, Alive
  <2>2. poolWg' \in Nat
    BY <1>1, <1>6, <2>1, OneWorkerGoes, Zenon DEF GoDown, PoolBounds, AliveWorkers
  <2>3. QED
    BY <1>1, <1>6, <2>2, Zenon DEF GoDown, Places
<1>7. ASSUME NEW w \in Workers, CheckShutdown(w)
      PROVE  TypeOK'
  BY <1>1, <1>7, Zenon DEF CheckShutdown, Places, Alive, Busy
<1>8. ASSUME NEW w \in Workers, NEW a \in Answers, Return(w, a)
      PROVE  TypeOK'
  BY <1>1, <1>8, Zenon DEF Return, Places, Alive, Busy
<1>9. ASSUME NEW w \in Workers, Panic(w)
      PROVE  TypeOK'
  BY <1>1, <1>9, Zenon DEF Panic, Places, Alive, Busy
<1>10. ASSUME NEW w \in Workers, Send(w)
       PROVE  TypeOK'
  <2>1. holds[w] \in Jobs /\ value[w] \in Answers
    BY <1>1, <1>10, Zenon DEF Send, HandsMatchPlaces, Busy
  <2>2. Append(results[holds[w]], value[w]) \in Seq(Answers)
    BY <1>1, <2>1, AppendProperties, Zenon
  <2>3. results' \in [Jobs -> Seq(Answers)]
    BY <1>1, <1>10, <2>1, <2>2, Zenon DEF Send
  <2>4. QED
    BY <1>1, <1>10, <2>1, <2>3, Zenon DEF Send, Places, Alive, Busy
<1>11. ASSUME NEW w \in Workers, Finish(w)
       PROVE  TypeOK'
  <2>1. holds[w] \in Jobs
    BY <1>1, <1>11, Zenon DEF Finish, HandsMatchPlaces, Busy
  <2>2. w \in Holders(holds[w])
    BY Zenon DEF Holders
  <2>3. jobWg[holds[w]] = 1
    BY <1>1, <2>1, <2>2, Zenon DEF JobInOnePlace
  <2>4. jobWg' \in [Jobs -> Nat]
    BY <1>1, <1>11, <2>1, <2>3 DEF Finish
  <2>5. QED
    BY <1>1, <1>11, <2>4, Zenon DEF Finish, Places, Alive, Busy
<1>12. ASSUME NEW w \in Workers, Recover(w)
       PROVE  TypeOK'
  <2>1. worker[w] \in Alive
    BY <1>12, Zenon DEF Recover, Alive
  <2>2. poolWg' \in Nat
    BY <1>1, <1>12, <2>1, OneWorkerGoes, Zenon DEF Recover, PoolBounds, AliveWorkers
  <2>3. QED
    BY <1>1, <1>12, <2>2, Zenon DEF Recover, Places
<1>13. ASSUME NEW j \in Jobs, Accept(j)
       PROVE  TypeOK'
  BY <1>1, <1>13, AppendProperties DEF Accept
<1>14. ASSUME NEW j \in Jobs, Refuse(j)
       PROVE  TypeOK'
  BY <1>1, <1>14, Zenon DEF Refuse
<1>15. ASSUME NEW j \in Jobs, Collect(j)
       PROVE  TypeOK'
  <2>1. results[j] # <<>> =>
          /\ Head(results[j]) \in Answers
          /\ Tail(results[j]) \in Seq(Answers)
    BY <1>1, HeadTailProperties, Zenon
  <2>2. received' \in [Jobs -> Answers \cup {NoAnswer}]
    BY <1>1, <1>15, <2>1, Zenon DEF Collect
  <2>3. results' \in [Jobs -> Seq(Answers)]
    BY <1>1, <1>15, <2>1, Zenon DEF Collect
  <2>4. QED
    BY <1>1, <1>15, <2>2, <2>3, Zenon DEF Collect
<1>16. CASE UNCHANGED poolVars
  BY <1>1, <1>16, Zenon DEF poolVars
<1>17. QED
  BY <1>2, <1>3, <1>4, <1>5, <1>6, <1>7, <1>8, <1>9, <1>10, <1>11, <1>12, <1>13, <1>14, <1>15,
     <1>16, Zenon DEF Next, WorkerStep, CallerStep

-----------------------------------------------------------------------------
(***************************************************************************)
(* The channel WorkerPool.jobs.                                             *)
(***************************************************************************)

\* Submit puts its job at the end of the channel.
LEMMA QueueAppend ==
  ASSUME NEW j \in Jobs, queue \in Seq(Jobs), queue' = Append(queue, j)
  PROVE  /\ Len(queue') = Len(queue) + 1
         /\ \A i \in 1..Len(queue) : queue'[i] = queue[i]
         /\ queue'[Len(queue) + 1] = j
         /\ \A k : InQueue(k)' <=> InQueue(k) \/ k = j
<1>1. /\ Len(queue') = Len(queue) + 1
      /\ \A i \in 1..Len(queue) : queue'[i] = queue[i]
      /\ queue'[Len(queue) + 1] = j
  BY AppendProperties
<1>2. Len(queue) \in Nat
  BY LenProperties, Zenon
<1>3. QED
  BY <1>1, <1>2 DEF InQueue

\* A worker takes the first job out of the channel.
LEMMA QueueTail ==
  ASSUME queue \in Seq(Jobs), queue # <<>>, queue' = Tail(queue)
  PROVE  /\ Len(queue) \in Nat \ {0}
         /\ Len(queue') = Len(queue) - 1
         /\ \A i \in 1..Len(queue') : queue'[i] = queue[i + 1]
         /\ Head(queue) = queue[1]
         /\ Head(queue) \in Jobs
         /\ \A k : InQueue(k) <=> InQueue(k)' \/ k = Head(queue)
<1>1. /\ Head(queue) \in Jobs
      /\ Len(queue') = Len(queue) - 1
      /\ \A i \in 1..Len(queue') : queue'[i] = queue[i + 1]
  BY HeadTailProperties, Zenon
<1>2. Len(queue) \in Nat \ {0}
  BY EmptySeq, LenProperties, Zenon
<1>3. Head(queue) = queue[1]
  OBVIOUS
<1>4. \A i \in 2..Len(queue) : (i - 1) \in 1..Len(queue') /\ queue'[i - 1] = queue[i]
  BY <1>1, <1>2
<1>5. ASSUME NEW k, InQueue(k)
      PROVE  InQueue(k)' \/ k = Head(queue)
  <2>1. PICK i \in 1..Len(queue) : queue[i] = k
    BY <1>5, Zenon DEF InQueue
  <2>2. CASE i = 1
    BY <2>1, <2>2, <1>3, Zenon
  <2>3. CASE i \in 2..Len(queue)
    BY <2>1, <2>3, <1>4, Zenon DEF InQueue
  <2>4. QED
    BY <2>1, <2>2, <2>3, <1>2
<1>6. ASSUME NEW k, InQueue(k)'
      PROVE  InQueue(k)
  BY <1>6, <1>1, <1>2 DEF InQueue
<1>7. InQueue(Head(queue))
  BY <1>2, <1>3 DEF InQueue
<1>8. QED
  BY <1>1, <1>2, <1>3, <1>5, <1>6, <1>7, Zenon

\* A job stays where it is when the channel, the hands of the workers and the
\* WaitGroups do not change.
LEMMA JobsStay ==
  ASSUME JobInOnePlace, UNCHANGED <<queue, holds, jobWg>>
  PROVE  JobInOnePlace'
BY DEF JobInOnePlace, InQueue, Holders

\* A job is never in two places.
LEMMA NextJobInOnePlace ==
  ASSUME PoolInv, [Next]_poolVars
  PROVE  JobInOnePlace'
<1>1. TypeOK /\ JobInOnePlace /\ HandsMatchPlaces
  BY Zenon DEF PoolInv
<1>2. CASE UNCHANGED <<queue, holds, jobWg>>
  BY <1>1, <1>2, JobsStay, Zenon
<1>3. ASSUME NEW w \in Workers, TakeJob(w)
      PROVE  JobInOnePlace'
  <2>0. PICK h \in Jobs : h = Head(queue)
    BY <1>1, <1>3, HeadTailProperties, Zenon DEF TakeJob, TypeOK
  <2>1. /\ queue \in Seq(Jobs) /\ queue # <<>> /\ queue' = Tail(queue)
        /\ holds \in [Workers -> Jobs \cup {NoJob}]
        /\ holds' = [holds EXCEPT ![w] = h]
        /\ jobWg' = jobWg
    BY <1>1, <1>3, <2>0, Zenon DEF TakeJob, TypeOK
  <2>2. /\ Len(queue) \in Nat \ {0}
        /\ Len(queue') = Len(queue) - 1
        /\ \A i \in 1..Len(queue') : queue'[i] = queue[i + 1]
        /\ h = queue[1]
        /\ h \in Jobs
        /\ \A k : InQueue(k) <=> InQueue(k)' \/ k = h
    BY <2>0, <2>1, QueueTail, Zenon
  <2>3. holds[w] = NoJob
    BY <1>1, <1>3, Zenon DEF TakeJob, HandsMatchPlaces, Busy
  <2>4. InQueue(h) /\ Holders(h) = {}
    BY <2>2, <1>1, Zenon DEF JobInOnePlace
  <2>5. ~InQueue(h)'
    <3>1. SUFFICES ASSUME NEW i \in 1..Len(queue'), queue'[i] = h
                   PROVE  FALSE
      BY Zenon DEF InQueue
    <3>2. /\ i + 1 \in 1..Len(queue) /\ queue[i + 1] = h
          /\ 1 \in 1..Len(queue) /\ queue[1] = h
      BY <2>2, <3>1
    <3>3. i + 1 = 1
      BY <3>2, <2>2, <1>1 DEF JobInOnePlace
    <3>4. QED
      BY <3>3
  <2>6. Holders(h)' = {w}
    BY <2>1, <2>4, Zenon DEF Holders
  <2>7. \A j \in Jobs : j # h => Holders(j)' = Holders(j)
    BY <2>1, <2>3, NoJobIsNotAJob, Zenon DEF Holders
  <2>8. ASSUME NEW j \in Jobs, NEW i \in 1..Len(queue'), NEW k \in 1..Len(queue'),
               queue'[i] = j, queue'[k] = j
        PROVE  i = k
    <3>1. /\ i + 1 \in 1..Len(queue) /\ k + 1 \in 1..Len(queue)
          /\ queue[i + 1] = j /\ queue[k + 1] = j
      BY <2>2, <2>8
    <3>2. i + 1 = k + 1
      BY <3>1, <1>1, Zenon DEF JobInOnePlace
    <3>3. QED
      BY <3>2
  <2>9. ASSUME NEW j \in Jobs
        PROVE  /\ \A v, x \in Holders(j)' : v = x
               /\ ~(InQueue(j)' /\ Holders(j)' # {})
               /\ jobWg'[j] = IF InQueue(j)' \/ Holders(j)' # {} THEN 1 ELSE 0
    <3>1. CASE j = h
      BY <3>1, <2>1, <2>2, <2>4, <2>5, <2>6, <1>1, Zenon DEF JobInOnePlace
    <3>2. CASE j # h
      BY <3>2, <2>1, <2>2, <2>7, <1>1 DEF JobInOnePlace
    <3>3. QED
      BY <3>1, <3>2, Zenon
  <2>10. QED
    BY <2>8, <2>9, Zenon DEF JobInOnePlace
<1>4. ASSUME NEW w \in Workers, Finish(w)
      PROVE  JobInOnePlace'
  <2>0. PICK h \in Jobs : h = holds[w]
    BY <1>1, <1>4, Zenon DEF Finish, TypeOK, HandsMatchPlaces, Busy
  <2>1. /\ h \in Jobs
        /\ holds \in [Workers -> Jobs \cup {NoJob}]
        /\ holds' = [holds EXCEPT ![w] = NoJob]
        /\ jobWg \in [Jobs -> Nat]
        /\ jobWg' = [jobWg EXCEPT ![h] = jobWg[h] - 1]
        /\ queue' = queue
    BY <1>1, <1>4, <2>0, Zenon DEF Finish, TypeOK
  <2>2. w \in Holders(h)
    BY <2>0, Zenon DEF Holders
  <2>3. Holders(h)' = {}
    <3>1. Holders(h) = {w}
      BY <2>1, <2>2, <1>1 DEF JobInOnePlace
    <3>2. QED
      BY <2>1, <3>1, NoJobIsNotAJob, Zenon DEF Holders
  <2>4. \A j \in Jobs : j # h => Holders(j)' = Holders(j)
    BY <2>0, <2>1, NoJobIsNotAJob, Zenon DEF Holders
  <2>5. \A j : InQueue(j)' <=> InQueue(j)
    BY <2>1, Zenon DEF InQueue
  <2>6. jobWg[h] = 1 /\ ~InQueue(h)
    BY <2>1, <2>2, <1>1, Zenon DEF JobInOnePlace
  <2>7. ASSUME NEW j \in Jobs
        PROVE  /\ \A v, x \in Holders(j)' : v = x
               /\ ~(InQueue(j)' /\ Holders(j)' # {})
               /\ jobWg'[j] = IF InQueue(j)' \/ Holders(j)' # {} THEN 1 ELSE 0
    <3>1. CASE j = h
      BY <3>1, <2>1, <2>3, <2>5, <2>6
    <3>2. CASE j # h
      BY <3>2, <2>1, <2>4, <2>5, <1>1 DEF JobInOnePlace
    <3>3. QED
      BY <3>1, <3>2, Zenon
  <2>8. \A j \in Jobs : \A i, k \in 1..Len(queue') : queue'[i] = j /\ queue'[k] = j => i = k
    BY <2>1, <1>1, ZenonT(30) DEF JobInOnePlace
  <2>9. QED
    BY <2>7, <2>8, Zenon DEF JobInOnePlace
<1>5. ASSUME NEW j \in Jobs, Accept(j)
      PROVE  JobInOnePlace'
  <2>1. /\ queue \in Seq(Jobs) /\ queue' = Append(queue, j)
        /\ jobWg \in [Jobs -> Nat]
        /\ jobWg' = [jobWg EXCEPT ![j] = jobWg[j] + 1]
        /\ holds' = holds
        /\ client[j] = "fresh"
    BY <1>1, <1>5, Zenon DEF Accept, TypeOK
  <2>2. /\ Len(queue') = Len(queue) + 1
        /\ \A i \in 1..Len(queue) : queue'[i] = queue[i]
        /\ queue'[Len(queue) + 1] = j
        /\ \A k : InQueue(k)' <=> InQueue(k) \/ k = j
        /\ Len(queue) \in Nat
    BY <2>1, QueueAppend, LenProperties, Zenon
  <2>3. ~InQueue(j) /\ Holders(j) = {}
    BY <1>1, <2>1, Zenon DEF HandsMatchPlaces
  <2>4. \A k : Holders(k)' = Holders(k)
    BY <2>1, Zenon DEF Holders
  <2>5. ASSUME NEW g \in Jobs, NEW i \in 1..Len(queue'), NEW k \in 1..Len(queue'),
               queue'[i] = g, queue'[k] = g
        PROVE  i = k
    <3>1. CASE i \in 1..Len(queue) /\ k \in 1..Len(queue)
      BY <3>1, <2>2, <2>5, <1>1 DEF JobInOnePlace
    <3>2. CASE i = Len(queue) + 1 /\ k \in 1..Len(queue)
      BY <3>2, <2>2, <2>3, <2>5, Zenon DEF InQueue
    <3>3. CASE i \in 1..Len(queue) /\ k = Len(queue) + 1
      BY <3>3, <2>2, <2>3, <2>5, Zenon DEF InQueue
    <3>4. CASE i = Len(queue) + 1 /\ k = Len(queue) + 1
      BY <3>4, Zenon
    <3>5. QED
      BY <3>1, <3>2, <3>3, <3>4, <2>2
  <2>6. ASSUME NEW g \in Jobs
        PROVE  /\ \A v, x \in Holders(g)' : v = x
               /\ ~(InQueue(g)' /\ Holders(g)' # {})
               /\ jobWg'[g] = IF InQueue(g)' \/ Holders(g)' # {} THEN 1 ELSE 0
    <3>1. CASE g = j
      BY <3>1, <2>1, <2>2, <2>3, <2>4, <1>1 DEF JobInOnePlace
    <3>2. CASE g # j
      BY <3>2, <2>1, <2>2, <2>4, <1>1, Zenon DEF JobInOnePlace
    <3>3. QED
      BY <3>1, <3>2, Zenon
  <2>7. QED
    BY <2>5, <2>6, Zenon DEF JobInOnePlace
<1>6. QED
  BY <1>2, <1>3, <1>4, <1>5, Zenon DEF Next, WorkerStep, CallerStep, poolVars, Start, Stop,
     StopReturns, GoDown, CheckShutdown, Return, Panic, Send, Recover, Refuse, Collect

-----------------------------------------------------------------------------
(***************************************************************************)
(* The hands of the workers, the result channels and the order of Stop.     *)
(***************************************************************************)

\* A worker holds the job that its place says.
LEMMA NextHandsMatchPlaces ==
  ASSUME PoolInv, [Next]_poolVars
  PROVE  HandsMatchPlaces'
<1>1. TypeOK /\ JobInOnePlace /\ HandsMatchPlaces
  BY Zenon DEF PoolInv
<1>2. ASSUME NEW w \in Workers, TakeJob(w)
      PROVE  HandsMatchPlaces'
  <2>1. PICK h \in Jobs : h = Head(queue)
    BY <1>1, <1>2, HeadTailProperties, Zenon DEF TakeJob, TypeOK
  <2>2. \A k : InQueue(k) <=> InQueue(k)' \/ k = h
    BY <1>1, <1>2, <2>1, QueueTail, Zenon DEF TakeJob, TypeOK
  <2>3. \A j \in Jobs : Holders(j)' # {} => Holders(j) # {} \/ j = h
    BY <1>1, <1>2, <2>1, Zenon DEF TakeJob, TypeOK, Holders
  <2>4. \A j \in Jobs : InQueue(j)' \/ Holders(j)' # {} => client'[j] = "submitted"
    BY <1>1, <1>2, <2>2, <2>3, Zenon DEF TakeJob, HandsMatchPlaces
  <2>5. QED
    BY <1>1, <1>2, <2>1, <2>4, NoJobIsNotAJob, Zenon DEF TakeJob, TypeOK, HandsMatchPlaces, Busy
<1>3. ASSUME NEW w \in Workers, Finish(w)
      PROVE  HandsMatchPlaces'
  <2>1. \A j \in Jobs : Holders(j)' \subseteq Holders(j)
    BY <1>1, <1>3, NoJobIsNotAJob, Zenon DEF Finish, TypeOK, Holders
  <2>2. \A j \in Jobs : InQueue(j)' <=> InQueue(j)
    BY <1>3, Zenon DEF Finish, InQueue
  <2>3. \A j \in Jobs : InQueue(j)' \/ Holders(j)' # {} => client'[j] = "submitted"
    BY <1>1, <1>3, <2>1, <2>2, Zenon DEF Finish, HandsMatchPlaces
  <2>4. QED
    BY <1>1, <1>3, <2>3, Zenon DEF Finish, TypeOK, HandsMatchPlaces, Busy
<1>4. ASSUME NEW j \in Jobs, Accept(j)
      PROVE  HandsMatchPlaces'
  <2>1. \A k : InQueue(k)' <=> InQueue(k) \/ k = j
    BY <1>1, <1>4, QueueAppend, Zenon DEF Accept, TypeOK
  <2>2. \A k \in Jobs : Holders(k)' = Holders(k)
    BY <1>4, Zenon DEF Accept, Holders
  <2>3. \A k \in Jobs : InQueue(k)' \/ Holders(k)' # {} => client'[k] = "submitted"
    BY <1>1, <1>4, <2>1, <2>2, Zenon DEF Accept, TypeOK, HandsMatchPlaces
  <2>4. QED
    BY <1>1, <1>4, <2>3, Zenon DEF Accept, HandsMatchPlaces
<1>5. ASSUME UNCHANGED <<queue, holds>>,
             \A j \in Jobs : client[j] = "submitted" =>
               client'[j] = "submitted" \/ jobWg[j] = 0
      PROVE  \A j \in Jobs : InQueue(j)' \/ Holders(j)' # {} => client'[j] = "submitted"
  <2>1. \A j \in Jobs : (InQueue(j)' <=> InQueue(j)) /\ Holders(j)' = Holders(j)
    BY <1>5, Zenon DEF InQueue, Holders
  <2>2. QED
    BY <1>1, <1>5, <2>1 DEF HandsMatchPlaces, JobInOnePlace
<1>6. CASE Start
  <2>1. \A w \in Workers : holds[w] = NoJob
    BY <1>1, <1>6, Zenon DEF Start, HandsMatchPlaces, Busy
  <2>2. QED
    BY <1>1, <1>5, <1>6, <2>1, Zenon DEF Start, TypeOK, HandsMatchPlaces, Busy
<1>7. CASE Stop
  BY <1>1, <1>5, <1>7, Zenon DEF Stop, HandsMatchPlaces
<1>8. CASE StopReturns
  BY <1>1, <1>5, <1>8, Zenon DEF StopReturns, HandsMatchPlaces
<1>9. ASSUME NEW w \in Workers, GoDown(w)
      PROVE  HandsMatchPlaces'
  BY <1>1, <1>5, <1>9, Zenon DEF GoDown, TypeOK, HandsMatchPlaces, Busy
<1>10. ASSUME NEW w \in Workers, CheckShutdown(w)
       PROVE  HandsMatchPlaces'
  BY <1>1, <1>5, <1>10, Zenon DEF CheckShutdown, TypeOK, HandsMatchPlaces, Busy
<1>11. ASSUME NEW w \in Workers, NEW a \in Answers, Return(w, a)
       PROVE  HandsMatchPlaces'
  BY <1>1, <1>5, <1>11, NoAnswerIsNotAnAnswer, Zenon DEF Return, TypeOK, HandsMatchPlaces, Busy
<1>12. ASSUME NEW w \in Workers, Panic(w)
       PROVE  HandsMatchPlaces'
  BY <1>1, <1>5, <1>12, Zenon DEF Panic, TypeOK, HandsMatchPlaces, Busy
<1>13. ASSUME NEW w \in Workers, Send(w)
       PROVE  HandsMatchPlaces'
  BY <1>1, <1>5, <1>13, ZenonT(30) DEF Send, TypeOK, HandsMatchPlaces, Busy
<1>14. ASSUME NEW w \in Workers, Recover(w)
       PROVE  HandsMatchPlaces'
  BY <1>1, <1>5, <1>14, Zenon DEF Recover, TypeOK, HandsMatchPlaces, Busy
<1>15. ASSUME NEW j \in Jobs, Refuse(j)
       PROVE  HandsMatchPlaces'
  BY <1>1, <1>5, <1>15, Zenon DEF Refuse, TypeOK, HandsMatchPlaces
<1>16. ASSUME NEW j \in Jobs, Collect(j)
       PROVE  HandsMatchPlaces'
  BY <1>1, <1>5, <1>16, Zenon DEF Collect, TypeOK, HandsMatchPlaces
<1>17. CASE UNCHANGED poolVars
  BY <1>1, <1>5, <1>17, Zenon DEF poolVars, HandsMatchPlaces
<1>18. QED
  BY <1>2, <1>3, <1>4, <1>6, <1>7, <1>8, <1>9, <1>10, <1>11, <1>12, <1>13, <1>14, <1>15, <1>16,
     <1>17, Zenon DEF Next, WorkerStep, CallerStep

\* The channels are written and closed in order.
LEMMA NextChannelsInOrder ==
  ASSUME PoolInv, [Next]_poolVars
  PROVE  ChannelsInOrder'
<1>1. TypeOK /\ JobInOnePlace /\ HandsMatchPlaces /\ ChannelsInOrder
  BY Zenon DEF PoolInv
<1>2. \A w \in Workers : worker[w] \in Busy =>
        holds[w] \in Jobs /\ client[holds[w]] = "submitted"
  BY <1>1, Zenon DEF TypeOK, HandsMatchPlaces, Holders
<1>3. ASSUME UNCHANGED queue
      PROVE  \A j \in Jobs : InQueue(j)' <=> InQueue(j)
  BY <1>3, Zenon DEF InQueue
<1>4. ASSUME NEW w \in Workers, TakeJob(w)
      PROVE  ChannelsInOrder'
  <2>1. PICK h \in Jobs : h = Head(queue)
    BY <1>1, <1>4, HeadTailProperties, Zenon DEF TakeJob, TypeOK
  <2>2. \A k : InQueue(k) <=> InQueue(k)' \/ k = h
    BY <1>1, <1>4, <2>1, QueueTail, Zenon DEF TakeJob, TypeOK
  <2>3. QED
    BY <1>1, <1>4, <2>1, <2>2, Zenon DEF TakeJob, TypeOK, ChannelsInOrder
<1>5. ASSUME NEW w \in Workers, Send(w)
      PROVE  ChannelsInOrder'
  <2>1. PICK h \in Jobs : h = holds[w] /\ client[h] = "submitted"
    BY <1>2, <1>5, Zenon DEF Send, Busy
  <2>2. ~closed[h]
    BY <1>1, <2>1, Zenon DEF ChannelsInOrder
  <2>3. /\ worker' = [worker EXCEPT ![w] = "finishing"]
        /\ results' = [results EXCEPT ![h] = Append(results[h], value[w])]
        /\ UNCHANGED <<queue, holds, client, closed>>
    BY <1>5, <2>1, <2>2, Zenon DEF Send
  <2>4. ~InQueue(h)
    BY <1>1, <2>1, Zenon DEF JobInOnePlace, Holders
  <2>5. \A x \in Workers : holds[x] = h => x = w
    BY <1>1, <2>1, ZenonT(30) DEF JobInOnePlace, Holders
  <2>6. \A j \in Jobs : j # h => results'[j] = results[j]
    BY <1>1, <2>3, Zenon DEF TypeOK
  <2>7. \A j \in Jobs : results'[j] # <<>> => client'[j] = "submitted"
    BY <1>1, <2>1, <2>3, <2>6, Zenon DEF ChannelsInOrder
  <2>8. \A j \in Jobs : InQueue(j)' => results'[j] = <<>>
    BY <1>1, <1>3, <2>3, <2>4, <2>6, Zenon DEF ChannelsInOrder
  <2>9. ASSUME NEW x \in Workers,
               worker'[x] \in {"picked", "running", "sending", "panicking"}
        PROVE  results'[holds'[x]] = <<>>
    <3>1. x # w /\ worker'[x] = worker[x]
      BY <1>1, <2>3, <2>9, Zenon DEF TypeOK
    <3>2. holds[x] \in Jobs /\ holds[x] # h
      BY <1>2, <2>5, <2>9, <3>1, Zenon DEF Busy
    <3>3. results[holds[x]] = <<>>
      BY <1>1, <2>9, <3>1, Zenon DEF ChannelsInOrder
    <3>4. QED
      BY <2>3, <2>6, <3>2, <3>3, Zenon
  <2>10. \A j \in Jobs : closed'[j] => client'[j] = "collected"
    BY <1>1, <2>3, Zenon DEF ChannelsInOrder
  <2>11. \A j \in Jobs : Len(results'[j]) <= 1
    <3>1. results[h] = <<>> /\ value[w] \in Answers
      BY <1>1, <1>5, <2>1, Zenon DEF Send, ChannelsInOrder, HandsMatchPlaces, TypeOK
    <3>2. results'[h] = Append(<<>>, value[w])
      BY <1>1, <2>1, <2>3, <3>1, Zenon DEF TypeOK
    <3>3. Len(results'[h]) <= 1
      BY <3>1, <3>2, EmptySeq, AppendProperties
    <3>4. \A j \in Jobs : j # h => Len(results'[j]) <= 1
      BY <1>1, <2>6, Zenon DEF ChannelsInOrder
    <3>5. QED
      BY <3>3, <3>4, Zenon
  <2>12. QED
    BY <2>7, <2>8, <2>9, <2>10, <2>11, Zenon DEF ChannelsInOrder
<1>6. ASSUME NEW j \in Jobs, Accept(j)
      PROVE  ChannelsInOrder'
  <2>1. \A k : InQueue(k)' <=> InQueue(k) \/ k = j
    BY <1>1, <1>6, QueueAppend, Zenon DEF Accept, TypeOK
  <2>2. results[j] = <<>>
    BY <1>1, <1>6, Zenon DEF Accept, ChannelsInOrder
  <2>3. QED
    BY <1>1, <1>6, <2>1, <2>2, Zenon DEF Accept, TypeOK, ChannelsInOrder
<1>7. ASSUME NEW j \in Jobs, Collect(j)
      PROVE  ChannelsInOrder'
  <2>1. ~InQueue(j) /\ Holders(j) = {}
    BY <1>1, <1>7 DEF Collect, JobInOnePlace
  <2>2. results'[j] = <<>>
    <3>1. Len(results[j]) <= 1
      BY <1>1, Zenon DEF ChannelsInOrder
    <3>2. QED
      BY <1>1, <1>7, <3>1 DEF Collect, TypeOK
  <2>3. QED
    BY <1>1, <1>2, <1>3, <1>7, <2>1, <2>2 DEF Collect, TypeOK, ChannelsInOrder, Busy, Holders
<1>8. ASSUME NEW j \in Jobs, Refuse(j)
      PROVE  ChannelsInOrder'
  BY <1>1, <1>3, <1>8, Zenon DEF Refuse, TypeOK, ChannelsInOrder
<1>9. CASE Start
  BY <1>1, <1>3, <1>9, Zenon DEF Start, TypeOK, ChannelsInOrder
<1>10. ASSUME NEW w \in Workers,
              GoDown(w) \/ CheckShutdown(w) \/ Panic(w) \/ Finish(w) \/ Recover(w)
       PROVE  ChannelsInOrder'
  BY <1>1, <1>3, <1>10, ZenonT(30) DEF GoDown, CheckShutdown, Panic, Finish, Recover, TypeOK,
     ChannelsInOrder
<1>11. ASSUME NEW w \in Workers, NEW a \in Answers, Return(w, a)
       PROVE  ChannelsInOrder'
  BY <1>1, <1>3, <1>11, Zenon DEF Return, TypeOK, ChannelsInOrder
<1>12. CASE Stop \/ StopReturns \/ UNCHANGED poolVars
  BY <1>1, <1>3, <1>12, Zenon DEF Stop, StopReturns, poolVars, ChannelsInOrder
<1>13. QED
  BY <1>4, <1>5, <1>6, <1>7, <1>8, <1>9, <1>10, <1>11, <1>12, Zenon DEF Next, WorkerStep, CallerStep

\* Stop goes through its steps in order.
LEMMA NextStopInOrder ==
  ASSUME PoolInv, [Next]_poolVars
  PROVE  StopInOrder'
<1>1. TypeOK /\ StopInOrder /\ PoolBounds
  BY Zenon DEF PoolInv
<1>2. CASE StopReturns
  <2>1. AliveWorkers = {}
    BY <1>1, <1>2, WorkersFinite, FS_Subset, FS_EmptySet, Zenon DEF StopReturns, PoolBounds,
       AliveWorkers
  <2>2. \A w \in Workers : worker[w] \in {"unborn", "gone"}
    BY <1>1, <2>1, Zenon DEF AliveWorkers, TypeOK, Places
  <2>3. QED
    BY <1>1, <1>2, <2>2, Zenon DEF StopReturns, StopInOrder
<1>3. CASE Start \/ Stop \/ UNCHANGED poolVars
  BY <1>1, <1>3 DEF Start, Stop, poolVars, StopInOrder, TypeOK
<1>4. ASSUME NEW w \in Workers, WorkerStep(w)
      PROVE  StopInOrder'
  <2>1. UNCHANGED <<shutdown, stopper>>
    BY <1>4, Zenon DEF WorkerStep, TakeJob, GoDown, CheckShutdown, Return, Panic, Send, Finish,
       Recover
  <2>2. ASSUME stopper = "returned"
        PROVE  \E p \in {"picked", "finishing", "select", "gone"} :
                 worker' = [worker EXCEPT ![w] = p]
    <3>1. shutdown /\ worker[w] \in {"unborn", "select", "picked", "finishing", "gone"}
      BY <1>1, <2>2, Zenon DEF StopInOrder
    <3>2. CASE TakeJob(w)
      BY <3>2, Zenon DEF TakeJob
    <3>3. CASE GoDown(w)
      BY <3>3, Zenon DEF GoDown
    <3>4. CASE CheckShutdown(w)
      <4>1. worker' = [worker EXCEPT ![w] = "finishing"]
        BY <3>1, <3>4, Zenon DEF CheckShutdown
      <4>2. QED
        BY <4>1, Zenon
    <3>5. CASE Finish(w)
      <4>1. worker[w] = "finishing"
        BY <3>1, <3>5, Zenon DEF Finish
      <4>2. worker' = [worker EXCEPT ![w] = "select"]
        BY <3>5, <4>1, Zenon DEF Finish
      <4>3. QED
        BY <4>2, Zenon
    <3>6. CASE Panic(w) \/ Send(w) \/ Recover(w) \/ \E a \in Answers : Return(w, a)
      <4>1. worker[w] \in {"running", "sending", "recovering"}
        BY <3>6, Zenon DEF Panic, Send, Recover, Return
      <4>2. QED
        BY <3>1, <4>1, Zenon
    <3>7. QED
      BY <1>4, <3>2, <3>3, <3>4, <3>5, <3>6, Zenon DEF WorkerStep
  <2>3. ASSUME stopper = "returned", NEW x \in Workers
        PROVE  worker'[x] \in {"unborn", "select", "picked", "finishing", "gone"}
    BY <1>1, <2>2, <2>3, Zenon DEF StopInOrder, TypeOK
  <2>4. QED
    BY <1>1, <2>1, <2>3, Zenon DEF StopInOrder
<1>5. ASSUME NEW j \in Jobs, CallerStep(j)
      PROVE  StopInOrder'
  BY <1>1, <1>5 DEF CallerStep, Accept, Refuse, Collect, StopInOrder
<1>6. QED
  BY <1>2, <1>3, <1>4, <1>5, Zenon DEF Next

\* The queue and the wait groups keep their bounds.
LEMMA NextPoolBounds ==
  ASSUME PoolInv, [Next]_poolVars
  PROVE  PoolBounds'
<1>1. TypeOK /\ PoolBounds
  BY Zenon DEF PoolInv
<1>2. poolWg = Cardinality(AliveWorkers) /\ Len(queue) \in Nat /\ QueueCapacity \in Nat
  BY <1>1, LenProperties, CapacityType, Zenon DEF PoolBounds, AliveWorkers, TypeOK
<1>3. SUFFICES /\ Len(queue') <= QueueCapacity
               /\ poolWg' = Cardinality(AliveWorkers')
  BY Zenon DEF PoolBounds, AliveWorkers, QueueCapacity
<1>4. ASSUME UNCHANGED queue
      PROVE  Len(queue') <= QueueCapacity
  BY <1>1, <1>4, Zenon DEF PoolBounds
<1>5. ASSUME UNCHANGED <<poolWg, worker>>
      PROVE  poolWg' = Cardinality(AliveWorkers')
  BY <1>2, <1>5, Zenon DEF AliveWorkers
<1>6. ASSUME UNCHANGED <<poolWg, queue>>,
             NEW w \in Workers, NEW p \in Alive,
             worker[w] \in Alive,
             worker' = [worker EXCEPT ![w] = p]
      PROVE  /\ Len(queue') <= QueueCapacity
             /\ poolWg' = Cardinality(AliveWorkers')
  <2>1. worker \in [Workers -> Places]
    BY <1>1, Zenon DEF TypeOK
  <2>2. AliveWorkers' = AliveWorkers
    BY <1>6, <2>1, WorkerMovesOn, Zenon
  <2>3. QED
    BY <1>2, <1>4, <1>6, <2>2, Zenon
<1>7. CASE Start
  <2>1. AliveWorkers = {} /\ AliveWorkers' = Workers
    BY <1>1, <1>7, Zenon DEF Start, AliveWorkers, Alive, Busy
  <2>2. poolWg = 0 /\ Cardinality(Workers) \in Nat
    BY <1>2, <2>1, FS_EmptySet, WorkersCount, Zenon
  <2>3. QED
    BY <1>4, <1>7, <2>1, <2>2 DEF Start
<1>8. ASSUME NEW w \in Workers, TakeJob(w)
      PROVE  /\ Len(queue') <= QueueCapacity
             /\ poolWg' = Cardinality(AliveWorkers')
  <2>1. Len(queue') = Len(queue) - 1
    BY <1>1, <1>8, HeadTailProperties, Zenon DEF TakeJob, TypeOK
  <2>2. Len(queue') <= QueueCapacity
    BY <1>1, <1>2, <2>1 DEF PoolBounds
  <2>3. /\ worker \in [Workers -> Places]
        /\ worker[w] \in Alive /\ "picked" \in Alive
        /\ worker' = [worker EXCEPT ![w] = "picked"]
    BY <1>1, <1>8, Zenon DEF TakeJob, TypeOK, Alive, Busy
  <2>4. AliveWorkers' = AliveWorkers
    BY <2>3, WorkerMovesOn, Zenon
  <2>5. QED
    BY <1>2, <1>8, <2>2, <2>4, Zenon DEF TakeJob
<1>9. ASSUME NEW w \in Workers, GoDown(w) \/ Recover(w)
      PROVE  /\ Len(queue') <= QueueCapacity
             /\ poolWg' = Cardinality(AliveWorkers')
  <2>1. /\ worker \in [Workers -> Places]
        /\ worker[w] \in Alive
        /\ worker' = [worker EXCEPT ![w] = "gone"]
    BY <1>1, <1>9, Zenon DEF GoDown, Recover, TypeOK, Alive
  <2>2. Cardinality(AliveWorkers') = Cardinality(AliveWorkers) - 1
    BY <2>1, OneWorkerGoes, Zenon
  <2>3. QED
    BY <1>2, <1>4, <1>9, <2>2, Zenon DEF GoDown, Recover
<1>10. ASSUME NEW w \in Workers,
              CheckShutdown(w) \/ Panic(w) \/ Send(w) \/ Finish(w)
                \/ \E a \in Answers : Return(w, a)
       PROVE  /\ Len(queue') <= QueueCapacity
              /\ poolWg' = Cardinality(AliveWorkers')
  <2>1. worker[w] \in Alive /\ UNCHANGED <<poolWg, queue>>
    BY <1>10, Zenon DEF CheckShutdown, Panic, Send, Finish, Return, Alive, Busy
  <2>2. \E p \in Alive : worker' = [worker EXCEPT ![w] = p]
    BY <1>10, Zenon DEF CheckShutdown, Panic, Send, Finish, Return, Alive, Busy
  <2>3. QED
    BY <1>6, <2>1, <2>2, Zenon
<1>11. ASSUME NEW j \in Jobs, Accept(j)
       PROVE  Len(queue') <= QueueCapacity
  <2>1. Len(queue') = Len(queue) + 1
    BY <1>1, <1>11, AppendProperties DEF Accept, TypeOK
  <2>2. QED
    BY <1>2, <1>11, <2>1 DEF Accept, HasRoom
<1>12. ASSUME NEW j \in Jobs, CallerStep(j)
       PROVE  /\ Len(queue') <= QueueCapacity
              /\ poolWg' = Cardinality(AliveWorkers')
  BY <1>4, <1>5, <1>11, <1>12, Zenon DEF CallerStep, Accept, Refuse, Collect
<1>13. CASE Stop \/ StopReturns \/ UNCHANGED poolVars
  BY <1>4, <1>5, <1>13, Zenon DEF Stop, StopReturns, poolVars
<1>14. QED
  BY <1>7, <1>8, <1>9, <1>10, <1>12, <1>13, Zenon DEF Next, WorkerStep

-----------------------------------------------------------------------------
(***************************************************************************)
(* The invariant, and the properties it gives.                              *)
(***************************************************************************)

\* The invariant holds when the pool is created.
LEMMA InitPoolInv == Init => PoolInv
<1> SUFFICES ASSUME Init PROVE PoolInv
  BY Zenon
<1>1. TypeOK
  BY InitTypeOK, Zenon
<1>2. \A j \in Jobs : ~InQueue(j) /\ Holders(j) = {}
  BY NoJobIsNotAJob DEF Init, InQueue, Holders
<1>3. JobInOnePlace
  BY <1>2 DEF Init, JobInOnePlace
<1>4. HandsMatchPlaces
  BY <1>2, Zenon DEF Init, HandsMatchPlaces, Busy
<1>5. ChannelsInOrder
  BY <1>2 DEF Init, ChannelsInOrder
<1>6. StopInOrder
  BY Zenon DEF Init, StopInOrder
<1>7. PoolBounds
  <2>1. AliveWorkers = {}
    BY Zenon DEF Init, AliveWorkers, Alive, Busy
  <2>2. Cardinality(AliveWorkers) = 0
    BY <2>1, FS_EmptySet, Zenon
  <2>3. Len(queue) <= QueueCapacity
    BY CapacityType DEF Init
  <2>4. QED
    BY <2>2, <2>3, Zenon DEF Init, PoolBounds, AliveWorkers
<1>8. QED
  BY <1>1, <1>3, <1>4, <1>5, <1>6, <1>7, Zenon DEF PoolInv

\* Every step of the pool or of a caller preserves PoolInv.
LEMMA NextPoolInv ==
  ASSUME PoolInv, [Next]_poolVars
  PROVE  PoolInv'
BY NextTypeOK, NextJobInOnePlace, NextHandsMatchPlaces, NextChannelsInOrder, NextStopInOrder,
   NextPoolBounds, Zenon DEF PoolInv

\* PoolInv holds in every state of the pool, for any finite set of workers and
\* any set of jobs and of answers.
THEOREM PoolInvariant == Spec => []PoolInv
BY InitPoolInv, NextPoolInv, PTL DEF Spec

\* The state of the pool is well typed: the counters of WorkerPool.wg and of
\* the jobs' WaitGroups never go below zero, which would panic.
THEOREM TypeCorrect == Spec => []TypeOK
<1>1. PoolInv => TypeOK
  BY Zenon DEF PoolInv
<1>2. QED
  BY PoolInvariant, <1>1, PTL

\* A job is in the channel once, or in the hands of one worker, or nowhere, and
\* its WaitGroup counts exactly that: Wait returns when execute is through.
THEOREM JobsRunOnce == Spec => []JobInOnePlace
<1>1. PoolInv => JobInOnePlace
  BY Zenon DEF PoolInv
<1>2. QED
  BY PoolInvariant, <1>1, PTL

\* The channel stays within its capacity and WorkerPool.wg counts the workers
\* that live.
THEOREM PoolBounded == Spec => []PoolBounds
<1>1. PoolInv => PoolBounds
  BY Zenon DEF PoolInv
<1>2. QED
  BY PoolInvariant, <1>1, PTL

\* The send at the end of execute neither blocks nor panics: its channel is
\* open and empty.
THEOREM SendNeverBlocks == Spec => []ResultChannelReady
<1>1. PoolInv => ResultChannelReady
  <2> SUFFICES ASSUME PoolInv, NEW w \in Workers, worker[w] = "sending"
               PROVE  ~closed[holds[w]] /\ results[holds[w]] = <<>>
    BY Zenon DEF ResultChannelReady
  <2>1. TypeOK /\ HandsMatchPlaces /\ ChannelsInOrder
    BY Zenon DEF PoolInv
  <2>2. holds[w] \in Jobs
    BY <2>1, Zenon DEF TypeOK, HandsMatchPlaces, Busy
  <2>3. client[holds[w]] = "submitted"
    BY <2>1, <2>2, Zenon DEF HandsMatchPlaces, Holders
  <2>4. QED
    BY <2>1, <2>2, <2>3, Zenon DEF ChannelsInOrder
<1>2. QED
  BY PoolInvariant, <1>1, PTL

\* No function of a job runs once Stop has returned, whatever was in the
\* channel then and whenever the workers are spawned.
THEOREM StopIsFinal == Spec => []NoWorkAfterStop
<1>1. PoolInv => NoWorkAfterStop
  BY Zenon DEF PoolInv, StopInOrder, NoWorkAfterStop
<1>2. QED
  BY PoolInvariant, <1>1, PTL

-----------------------------------------------------------------------------
(***************************************************************************)
(* The worker pool implements JobContract, for any finite set of workers and *)
(* any jobs and answers. The fate of a job is read off the places where the  *)
(* job, its worker and its result are (FateOf); every step of the pool       *)
(* leaves the fate of all jobs but one alone.                                *)
(***************************************************************************)

\* Worker w has job j in its hands, at one of the places P.
At(j, w, P) == w \in Workers /\ holds[w] = j /\ worker[w] \in P

\* Job j has not been answered yet and may still be.
Open(j) == InQueue(j) \/ \E w \in Workers : At(j, w, {"picked", "running"})

\* The fate and the answer of a job, case by case.
FateOf(j) ==
  /\ client[j] = "fresh" => JobFate(j) = "fresh" /\ JobAnswer(j) = NoAnswer
  /\ client[j] = "rejected" => JobFate(j) = "refused" /\ JobAnswer(j) = NoAnswer
  /\ client[j] = "collected" => JobFate(j) = "over" /\ JobAnswer(j) = received[j]
  /\ client[j] = "submitted" =>
       /\ results[j] # <<>> => JobFate(j) = "answered" /\ JobAnswer(j) = Head(results[j])
       /\ results[j] = <<>> =>
            /\ \A w \in Workers :
                 At(j, w, {"sending"}) => JobFate(j) = "answered" /\ JobAnswer(j) = value[w]
            /\ Open(j) => JobFate(j) = "pending" /\ JobAnswer(j) = NoAnswer
            /\ ~Open(j) /\ (\A w \in Workers : ~At(j, w, {"sending"})) =>
                 JobFate(j) = "lost" /\ JobAnswer(j) = NoAnswer

Fates == \A j \in Jobs : FateOf(j)

\* In the states of the pool the cases are right: no two workers have the same
\* job, and none has a job that is in the channel.
LEMMA FatesRight == PoolInv => Fates
<1> SUFFICES ASSUME PoolInv, NEW j \in Jobs PROVE FateOf(j)
  BY Zenon DEF Fates
<1>1. /\ client[j] \in {"fresh", "submitted", "rejected", "collected"}
      /\ results[j] # <<>> => client[j] = "submitted"
      /\ client[j] # "submitted" => ~InQueue(j) /\ Holders(j) = {}
  BY Zenon DEF PoolInv, TypeOK, ChannelsInOrder, HandsMatchPlaces
<1>2. \A w, x \in Holders(j) : w = x
  BY Zenon DEF PoolInv, JobInOnePlace
<1>3. InQueue(j) => Holders(j) = {}
  BY Zenon DEF PoolInv, JobInOnePlace
<1>4. \A w, P : At(j, w, P) <=> w \in Holders(j) /\ worker[w] \in P
  BY Zenon DEF At, Holders
<1>5. CASE client[j] # "submitted"
  BY <1>1, <1>5, Zenon DEF FateOf, JobFate, JobAnswer
<1>6. CASE client[j] = "submitted" /\ results[j] # <<>>
  BY <1>6, Zenon DEF FateOf, JobFate, JobAnswer
<1>7. CASE client[j] = "submitted" /\ results[j] = <<>>
  <2>1. ASSUME NEW w \in Workers, At(j, w, {"sending"})
        PROVE  JobFate(j) = "answered" /\ JobAnswer(j) = value[w] /\ ~Open(j)
    <3>1. w \in Holders(j) /\ worker[w] = "sending"
      BY <2>1, <1>4
    <3>2. (CHOOSE x \in Holders(j) : worker[x] = "sending") = w
      BY <3>1, <1>2, Zenon
    <3>3. ~Open(j)
      BY <3>1, <1>2, <1>3, <1>4, Zenon DEF Open
    <3> QED BY <1>7, <3>1, <3>2, <3>3, Zenon DEF JobFate, JobAnswer
  <2>2. ASSUME \A w \in Workers : ~At(j, w, {"sending"})
        PROVE  /\ JobAnswer(j) = NoAnswer
               /\ JobFate(j) = IF Open(j) THEN "pending" ELSE "lost"
    <3>1. ~\E w \in Holders(j) : worker[w] = "sending"
      BY <2>2, <1>4, Zenon DEF Holders
    <3>2. Open(j) <=> InQueue(j) \/ \E w \in Holders(j) : worker[w] \in {"picked", "running"}
      BY <1>4, Zenon DEF Open, Holders
    <3> QED BY <1>7, <3>1, <3>2, Zenon DEF JobFate, JobAnswer
  <2> QED BY <1>7, <2>1, <2>2, Zenon DEF FateOf
<1> QED BY <1>5, <1>6, <1>7, Zenon

-----------------------------------------------------------------------------
(***************************************************************************)
(* How a step changes the state of the contract.                            *)
(***************************************************************************)

\* The step moves neither job k nor a worker that has it.
Untouched(k) ==
  /\ client'[k] = client[k] /\ results'[k] = results[k] /\ received'[k] = received[k]
  /\ InQueue(k)' <=> InQueue(k)
  /\ \A w \in Workers :
       /\ holds'[w] = k <=> holds[w] = k
       /\ holds[w] = k => worker'[w] = worker[w] /\ value'[w] = value[w]

Same(k) == JobFate(k)' = JobFate(k) /\ JobAnswer(k)' = JobAnswer(k)

\* The facts that the steps below start from.
LEMMA FatesOfStep ==
  PoolInv /\ [Next]_poolVars => PoolInv /\ PoolInv' /\ Fates /\ Fates'
<1>1. PoolInv /\ [Next]_poolVars => PoolInv'
  BY NextTypeOK, NextJobInOnePlace, NextHandsMatchPlaces, NextChannelsInOrder, NextStopInOrder,
     NextPoolBounds, Zenon DEF PoolInv
<1>2. PoolInv' => Fates'
  BY FatesRight, PTL
<1> QED BY <1>1, <1>2, FatesRight, Zenon

\* A job that a step does not touch keeps its fate.
LEMMA UntouchedIsSame ==
  ASSUME PoolInv, Fates, Fates', NEW k \in Jobs, Untouched(k)
  PROVE  Same(k)
<1>1. client[k] \in {"fresh", "submitted", "rejected", "collected"}
  BY Zenon DEF PoolInv, TypeOK
<1>2. \A w \in Workers : \A P : At(k, w, P)' <=> At(k, w, P)
  BY Zenon DEF Untouched, At
<1>3. Open(k)' <=> Open(k)
  BY <1>2, Zenon DEF Untouched, Open
<1>4. FateOf(k) /\ FateOf(k)'
  BY Zenon DEF Fates
<1>5. CASE client[k] # "submitted" \/ results[k] # <<>>
  BY <1>1, <1>4, <1>5, Zenon DEF FateOf, Untouched, Same
<1>6. CASE client[k] = "submitted" /\ results[k] = <<>>
  <2>1. client'[k] = "submitted" /\ results'[k] = <<>>
    BY <1>6, Zenon DEF Untouched
  <2>2. ASSUME NEW w \in Workers, At(k, w, {"sending"}) PROVE Same(k)
    <3>1. At(k, w, {"sending"})' /\ value'[w] = value[w]
      BY <1>2, <2>2, Zenon DEF Untouched, At
    <3> QED BY <1>4, <1>6, <2>1, <2>2, <3>1, ZenonT(30) DEF FateOf, Same
  <2>3. CASE Open(k)
    BY <1>3, <1>4, <1>6, <2>1, <2>3, ZenonT(30) DEF FateOf, Same
  <2>4. CASE ~Open(k) /\ \A w \in Workers : ~At(k, w, {"sending"})
    BY <1>2, <1>3, <1>4, <1>6, <2>1, <2>4, Zenon DEF FateOf, Same
  <2> QED BY <2>2, <2>3, <2>4, Zenon
<1> QED BY <1>5, <1>6, Zenon

\* When no job changes, the contract does not see the step.
LEMMA AllSame ==
  ASSUME \A k \in Jobs : Same(k), UNCHANGED received,
         (stopper = "returned")' <=> stopper = "returned"
  PROVE  UNCHANGED Contract!contractVars
<1>1. [k \in Jobs |-> JobFate(k)'] = [k \in Jobs |-> JobFate(k)]
  BY Zenon DEF Same
<1>2. [k \in Jobs |-> JobAnswer(k)'] = [k \in Jobs |-> JobAnswer(k)]
  BY Zenon DEF Same
<1> QED BY <1>1, <1>2, Zenon DEF Contract!contractVars

\* When one job changes, its fate and its answer are replaced.
LEMMA OneChanges ==
  ASSUME NEW j \in Jobs, \A k \in Jobs \ {j} : Same(k)
  PROVE  /\ [k \in Jobs |-> JobFate(k)]' =
              [[k \in Jobs |-> JobFate(k)] EXCEPT ![j] = JobFate(j)']
         /\ [k \in Jobs |-> JobAnswer(k)]' =
              [[k \in Jobs |-> JobAnswer(k)] EXCEPT ![j] = JobAnswer(j)']
<1>1. \A k \in Jobs : k # j => JobFate(k)' = JobFate(k) /\ JobAnswer(k)' = JobAnswer(k)
  BY Zenon DEF Same
<1> QED BY <1>1, Zenon

-----------------------------------------------------------------------------
(***************************************************************************)
(* Steps of the pool that the contract does not see.                        *)
(***************************************************************************)

\* A step of a worker that has no job, or of the pool as a whole.
LEMMA IdleStep ==
  ASSUME PoolInv, Fates, Fates', UNCHANGED <<queue, holds, value, client, results, received>>,
         \A w \in Workers : holds[w] # NoJob => worker'[w] = worker[w]
  PROVE  \A k \in Jobs : Same(k)
<1> SUFFICES ASSUME NEW k \in Jobs PROVE Untouched(k)
  BY UntouchedIsSame, Zenon
<1> QED BY NoJobIsNotAJob, Zenon DEF Untouched, InQueue

\* A step of a worker w that has job j touches no other job.
LEMMA OtherJobsSame ==
  ASSUME PoolInv, Fates, Fates', NEW w \in Workers, NEW j \in Jobs,
         holds[w] = j, holds'[w] \in {j, NoJob},
         UNCHANGED <<queue, client, received>>,
         \A k \in Jobs \ {j} : results'[k] = results[k],
         \A x \in Workers \ {w} :
           holds'[x] = holds[x] /\ worker'[x] = worker[x] /\ value'[x] = value[x]
  PROVE  \A k \in Jobs \ {j} : Same(k)
<1> SUFFICES ASSUME NEW k \in Jobs \ {j} PROVE Untouched(k)
  BY UntouchedIsSame, Zenon
<1>1. holds[w] # k /\ holds'[w] # k
  BY NoJobIsNotAJob, Zenon
<1> QED BY <1>1, Zenon DEF Untouched, InQueue

\* What is known of a worker that executes a job.
LEMMA BusyWorker ==
  ASSUME PoolInv, NEW w \in Workers, worker[w] \in Busy
  PROVE  /\ holds[w] \in Jobs
         /\ client[holds[w]] = "submitted" /\ ~closed[holds[w]]
         /\ ~InQueue(holds[w])
         /\ \A x \in Workers : holds[x] = holds[w] => x = w
         /\ worker[w] # "finishing" => results[holds[w]] = <<>>
<1>1. holds[w] \in Jobs
  BY Zenon DEF PoolInv, TypeOK, HandsMatchPlaces
<1>2. w \in Holders(holds[w])
  BY Zenon DEF Holders
<1>3. client[holds[w]] = "submitted" /\ ~closed[holds[w]]
  BY <1>1, <1>2, Zenon DEF PoolInv, HandsMatchPlaces, ChannelsInOrder
<1>4. ~InQueue(holds[w])
  BY <1>1, <1>2, Zenon DEF PoolInv, JobInOnePlace
<1>5. \A x \in Workers : holds[x] = holds[w] => x = w
  BY <1>1, <1>2, ZenonT(30) DEF PoolInv, JobInOnePlace, Holders
<1>6. worker[w] # "finishing" => results[holds[w]] = <<>>
  BY Zenon DEF PoolInv, ChannelsInOrder, Busy
<1> QED BY <1>1, <1>3, <1>4, <1>5, <1>6, Zenon

\* A job that a worker takes out of the channel is still open.
LEMMA TakeJobSame ==
  ASSUME PoolInv, PoolInv', Fates, Fates', NEW w \in Workers, TakeJob(w)
  PROVE  \A k \in Jobs : Same(k)
<1>1. /\ queue \in Seq(Jobs) /\ queue # <<>> /\ queue' = Tail(queue)
      /\ holds \in [Workers -> Jobs \cup {NoJob}]
      /\ worker \in [Workers -> Places]
  BY Zenon DEF TakeJob, PoolInv, TypeOK
<1>2. PICK j \in Jobs : j = Head(queue)
  BY <1>1, QueueTail, Zenon
<1>3. \A k : InQueue(k) <=> InQueue(k)' \/ k = j
  BY <1>1, <1>2, QueueTail, Zenon
<1>4. holds[w] = NoJob
  BY Zenon DEF TakeJob, PoolInv, HandsMatchPlaces, Busy
<1>5. /\ holds'[w] = j /\ worker'[w] = "picked"
      /\ \A x \in Workers \ {w} : holds'[x] = holds[x] /\ worker'[x] = worker[x]
      /\ UNCHANGED <<client, results, received, value>>
  BY <1>1, <1>2, Zenon DEF TakeJob
<1>6. ASSUME NEW k \in Jobs \ {j} PROVE Untouched(k)
  BY <1>3, <1>4, <1>5, NoJobIsNotAJob, Zenon DEF Untouched
<1>7. client[j] = "submitted" /\ results[j] = <<>> /\ Open(j)
  BY <1>3, Zenon DEF PoolInv, HandsMatchPlaces, ChannelsInOrder, Open
<1>8. Open(j)'
  BY <1>5, Zenon DEF Open, At
<1>9. Same(j)
  BY <1>5, <1>7, <1>8, Zenon DEF Fates, FateOf, Same
<1> QED BY <1>6, <1>9, UntouchedIsSame, Zenon

\* The result moves from the worker into the channel of the job.
LEMMA SendSame ==
  ASSUME PoolInv, Fates, Fates', NEW w \in Workers, Send(w)
  PROVE  \A k \in Jobs : Same(k)
<1>1. PICK j \in Jobs : j = holds[w]
  BY BusyWorker, Zenon DEF Send, Busy
<1>2. client[j] = "submitted" /\ ~closed[j] /\ results[j] = <<>> /\ At(j, w, {"sending"})
  BY <1>1, BusyWorker, Zenon DEF Send, Busy, At
<1>3. /\ UNCHANGED <<queue, holds, client, received>>
      /\ results' = [results EXCEPT ![j] = Append(@, value[w])]
      /\ \A x \in Workers \ {w} : worker'[x] = worker[x] /\ value'[x] = value[x]
  BY <1>1, <1>2, Zenon DEF Send, PoolInv, TypeOK
<1>4. value[w] \in Answers
  BY <1>1, Zenon DEF Send, PoolInv, TypeOK, HandsMatchPlaces
<1>5. results'[j] # <<>> /\ Head(results'[j]) = value[w]
  BY <1>2, <1>3, <1>4 DEF PoolInv, TypeOK
<1>6. Same(j)
  BY <1>2, <1>3, <1>5, Zenon DEF Fates, FateOf, Same
<1>7. \A k \in Jobs \ {j} : Same(k)
  BY <1>1, <1>3, OtherJobsSame, ZenonT(30) DEF PoolInv, TypeOK
<1> QED BY <1>6, <1>7, Zenon

\* The end of execute: the answer is in the channel, or the job is lost already.
LEMMA FinishSame ==
  ASSUME PoolInv, Fates, Fates', NEW w \in Workers, Finish(w)
  PROVE  \A k \in Jobs : Same(k)
<1>1. PICK j \in Jobs : j = holds[w]
  BY BusyWorker, Zenon DEF Finish, Busy
<1>2. /\ client[j] = "submitted" /\ ~InQueue(j)
      /\ \A x \in Workers : holds[x] = j => x = w
  BY <1>1, BusyWorker, Zenon DEF Finish, Busy
<1>3. /\ UNCHANGED <<queue, client, results, received, value>>
      /\ holds'[w] = NoJob /\ worker'[w] \in {"select", "recovering"}
      /\ \A x \in Workers \ {w} : holds'[x] = holds[x] /\ worker'[x] = worker[x]
  BY Zenon DEF Finish, PoolInv, TypeOK
<1>4. ~Open(j) /\ \A x \in Workers : ~At(j, x, {"sending"})
  BY <1>1, <1>2, Zenon DEF Open, At, Finish
<1>5. ~Open(j)' /\ \A x \in Workers : ~At(j, x, {"sending"})'
  BY <1>2, <1>3, NoJobIsNotAJob, Zenon DEF Open, At, InQueue
<1>6. Same(j)
  BY <1>2, <1>3, <1>4, <1>5, Zenon DEF Fates, FateOf, Same
<1>7. \A k \in Jobs \ {j} : Same(k)
  BY <1>1, <1>3, OtherJobsSame, Zenon
<1> QED BY <1>6, <1>7, Zenon

-----------------------------------------------------------------------------
(***************************************************************************)
(* Steps of the pool that are steps of the contract.                        *)
(***************************************************************************)

\* A job that is picked after the shutdown, or whose function panics, is lost;
\* one that is picked before stays open.
LEMMA LoseStep ==
  ASSUME PoolInv, Fates, Fates', NEW w \in Workers, CheckShutdown(w) \/ Panic(w)
  PROVE  (\A k \in Jobs : Same(k)) \/ \E j \in Jobs : Contract!Lose(j)
<1>1. worker[w] \in {"picked", "running"}
  BY Zenon DEF CheckShutdown, Panic
<1>2. PICK j \in Jobs : j = holds[w]
  BY <1>1, BusyWorker, Zenon DEF Busy
<1>3. /\ client[j] = "submitted" /\ ~InQueue(j) /\ results[j] = <<>>
      /\ \A x \in Workers : holds[x] = j => x = w
  BY <1>1, <1>2, BusyWorker, Zenon DEF Busy
<1>4. /\ UNCHANGED <<queue, holds, client, results, received, value, stopper>>
      /\ worker'[w] \in {"running", "finishing", "panicking"}
      /\ \A x \in Workers \ {w} : worker'[x] = worker[x]
  BY Zenon DEF CheckShutdown, Panic, PoolInv, TypeOK
<1>5. JobFate(j) = "pending" /\ JobAnswer(j) = NoAnswer
  BY <1>1, <1>2, <1>3, Zenon DEF Fates, FateOf, Open, At
<1>6. \A k \in Jobs \ {j} : Same(k)
  BY <1>2, <1>4, OtherJobsSame, Zenon
<1>7. CASE worker'[w] = "running"
  <2>1. Open(j)'
    BY <1>2, <1>4, <1>7, Zenon DEF Open, At
  <2>2. Same(j)
    BY <1>3, <1>4, <1>5, <2>1, Zenon DEF Fates, FateOf, Same
  <2> QED BY <1>6, <2>2, Zenon
<1>8. CASE worker'[w] # "running"
  <2>1. ~Open(j)' /\ \A x \in Workers : ~At(j, x, {"sending"})'
    BY <1>2, <1>3, <1>4, <1>8, Zenon DEF Open, At, InQueue
  <2>2. JobFate(j)' = "lost" /\ JobAnswer(j)' = JobAnswer(j)
    BY <1>3, <1>4, <1>5, <2>1, Zenon DEF Fates, FateOf
  <2>3. \A k \in Jobs : JobAnswer(k)' = JobAnswer(k)
    BY <1>6, <2>2, Zenon DEF Same
  <2>4. [k \in Jobs |-> JobAnswer(k)]' = [k \in Jobs |-> JobAnswer(k)]
    BY <2>3, Zenon
  <2>5. Contract!Lose(j)
    BY <1>4, <1>5, <1>6, <2>2, <2>4, OneChanges, ZenonT(30) DEF Contract!Lose
  <2> QED BY <2>5, Zenon
<1> QED BY <1>7, <1>8, Zenon

\* A function that returns answers its job, and does so before Stop returns.
LEMMA RunStep ==
  ASSUME PoolInv, Fates, Fates', NEW w \in Workers, NEW a \in Answers, Return(w, a)
  PROVE  \E j \in Jobs : Contract!Run(j)
<1>1. PICK j \in Jobs : j = holds[w]
  BY BusyWorker, Zenon DEF Return, Busy
<1>2. client[j] = "submitted" /\ results[j] = <<>>
  BY <1>1, BusyWorker, Zenon DEF Return, Busy
<1>3. /\ UNCHANGED <<queue, holds, client, results, received, stopper>>
      /\ worker'[w] = "sending" /\ value'[w] = a
      /\ \A x \in Workers \ {w} : worker'[x] = worker[x] /\ value'[x] = value[x]
  BY Zenon DEF Return, PoolInv, TypeOK
<1>4. JobFate(j) = "pending"
  BY <1>1, <1>2, Zenon DEF Fates, FateOf, Open, At, Return
<1>5. At(j, w, {"sending"})'
  BY <1>1, <1>3, Zenon DEF At
<1>6. JobFate(j)' = "answered" /\ JobAnswer(j)' = a
  BY <1>2, <1>3, <1>5, ZenonT(30) DEF Fates, FateOf
<1>7. \A k \in Jobs \ {j} : Same(k)
  BY <1>1, <1>3, OtherJobsSame, Zenon
<1>8. stopper # "returned"
  BY Zenon DEF Return, PoolInv, StopInOrder
<1>9. Contract!Run(j)
  BY <1>3, <1>4, <1>6, <1>7, <1>8, OneChanges, Zenon DEF Contract!Run
<1> QED BY <1>9, Zenon

\* Submit puts a job into the channel or refuses it.
LEMMA SubmitStep ==
  ASSUME PoolInv, Fates, Fates', NEW j \in Jobs, Accept(j) \/ Refuse(j)
  PROVE  Contract!Submit(j)
<1>1. /\ UNCHANGED <<worker, holds, value, results, received, stopper>>
      /\ client[j] = "fresh" /\ client'[j] \in {"submitted", "rejected"}
      /\ \A k \in Jobs \ {j} : client'[k] = client[k]
  BY Zenon DEF Accept, Refuse, PoolInv, TypeOK
<1>2. \A k \in Jobs \ {j} : InQueue(k)' <=> InQueue(k)
  <2>1. CASE Accept(j)
    BY <2>1, QueueAppend, Zenon DEF Accept, PoolInv, TypeOK
  <2>2. CASE Refuse(j)
    BY <2>2, Zenon DEF Refuse, InQueue
  <2> QED BY <2>1, <2>2, Zenon
<1>3. \A k \in Jobs \ {j} : Same(k)
  <2> SUFFICES ASSUME NEW k \in Jobs \ {j} PROVE Untouched(k)
    BY UntouchedIsSame, Zenon
  <2> QED BY <1>1, <1>2, Zenon DEF Untouched
<1>4. results[j] = <<>>
  BY <1>1, Zenon DEF PoolInv, ChannelsInOrder
<1>5. JobFate(j) = "fresh" /\ JobAnswer(j) = NoAnswer
  BY <1>1, Zenon DEF Fates, FateOf
<1>6. JobFate(j)' \in {"pending", "refused"} /\ JobAnswer(j)' = NoAnswer
  <2>1. CASE Accept(j)
    <3>1. InQueue(j)' /\ client'[j] = "submitted"
      BY <2>1, QueueAppend, ZenonT(30) DEF Accept, PoolInv, TypeOK
    <3> QED BY <1>1, <1>4, <3>1, ZenonT(30) DEF Fates, FateOf, Open
  <2>2. CASE Refuse(j)
    <3>1. client'[j] = "rejected"
      BY <2>2, Zenon DEF Refuse, PoolInv, TypeOK
    <3> QED BY <3>1, Zenon DEF Fates, FateOf
  <2> QED BY <2>1, <2>2, Zenon
<1>7. \A k \in Jobs : JobAnswer(k)' = JobAnswer(k)
  BY <1>3, <1>5, <1>6, Zenon DEF Same
<1>8. [k \in Jobs |-> JobAnswer(k)]' = [k \in Jobs |-> JobAnswer(k)]
  BY <1>7, Zenon
<1> QED BY <1>1, <1>3, <1>5, <1>6, <1>8, OneChanges, ZenonT(30) DEF Contract!Submit

\* The caller is given what its own job answered, or nothing.
LEMMA GiveStep ==
  ASSUME PoolInv, Fates, Fates', NEW j \in Jobs, Collect(j)
  PROVE  Contract!Give(j)
<1>1. /\ UNCHANGED <<queue, worker, holds, value, stopper>>
      /\ client[j] = "submitted" /\ client'[j] = "collected"
      /\ received' = [received EXCEPT ![j] =
                        IF results[j] = <<>> THEN NoAnswer ELSE Head(results[j])]
      /\ \A k \in Jobs \ {j} : client'[k] = client[k] /\ results'[k] = results[k]
  BY Zenon DEF Collect, PoolInv, TypeOK
<1>2. received \in [Jobs -> Answers \cup {NoAnswer}]
  BY Zenon DEF PoolInv, TypeOK
<1>3. ~InQueue(j) /\ Holders(j) = {}
  BY DEF Collect, PoolInv, JobInOnePlace
<1>4. ~Open(j) /\ \A w \in Workers : ~At(j, w, {"sending"})
  BY <1>3, Zenon DEF Open, At, Holders
<1>5. /\ JobFate(j) \in {"answered", "lost"}
      /\ JobAnswer(j) = IF results[j] = <<>> THEN NoAnswer ELSE Head(results[j])
  BY <1>1, <1>4, ZenonT(30) DEF Fates, FateOf
<1>6. received' = [received EXCEPT ![j] = JobAnswer(j)]
  BY <1>1, <1>5, ZenonT(30)
<1>7. JobFate(j)' = "over" /\ JobAnswer(j)' = JobAnswer(j)
  BY <1>1, <1>2, <1>6, ZenonT(30) DEF Fates, FateOf
<1>8. \A k \in Jobs \ {j} : Same(k)
  <2> SUFFICES ASSUME NEW k \in Jobs \ {j} PROVE Untouched(k)
    BY UntouchedIsSame, Zenon
  <2>1. received'[k] = received[k]
    BY <1>2, <1>6, Zenon
  <2> QED BY <1>1, <2>1, Zenon DEF Untouched, InQueue
<1>9. \A k \in Jobs : JobAnswer(k)' = JobAnswer(k)
  BY <1>7, <1>8, Zenon DEF Same
<1>10. [k \in Jobs |-> JobAnswer(k)]' = [k \in Jobs |-> JobAnswer(k)]
  BY <1>9, Zenon
<1> QED BY <1>1, <1>5, <1>6, <1>7, <1>8, <1>10, OneChanges, ZenonT(30) DEF Contract!Give

-----------------------------------------------------------------------------
\* No job has been submitted.
LEMMA InitContract == Init => Contract!Init
<1> SUFFICES ASSUME Init PROVE Contract!Init
  BY Zenon
<1>1. Fates
  BY InitPoolInv, FatesRight, Zenon
<1>2. \A j \in Jobs : JobFate(j) = "fresh" /\ JobAnswer(j) = NoAnswer
  BY <1>1, Zenon DEF Init, Fates, FateOf
<1>3. received = [j \in Jobs |-> NoAnswer] /\ stopper # "returned"
  BY Zenon DEF Init
<1>4. [j \in Jobs |-> JobFate(j)] = [j \in Jobs |-> "fresh"]
  BY <1>2, Zenon
<1>5. [j \in Jobs |-> JobAnswer(j)] = [j \in Jobs |-> NoAnswer]
  BY <1>2, Zenon
<1> QED BY <1>3, <1>4, <1>5, Zenon DEF Contract!Init

\* Every step of the pool is a step of the contract or none.
LEMMA NextContract ==
  ASSUME PoolInv, [Next]_poolVars
  PROVE  [Contract!Next]_Contract!contractVars
<1>1. PoolInv' /\ Fates /\ Fates'
  BY FatesOfStep, Zenon
<1>2. CASE Start \/ Stop \/ UNCHANGED poolVars
  <2>1. /\ UNCHANGED <<queue, holds, value, client, results, received>>
        /\ \A w \in Workers : holds[w] # NoJob => worker'[w] = worker[w]
        /\ (stopper = "returned")' <=> stopper = "returned"
    BY <1>2, Zenon DEF Start, Stop, poolVars, PoolInv, HandsMatchPlaces, Busy
  <2>2. \A k \in Jobs : Same(k)
    BY <1>1, <2>1, IdleStep, Zenon
  <2> QED BY <2>1, <2>2, AllSame, Zenon
<1>3. CASE StopReturns
  <2>1. /\ UNCHANGED <<queue, worker, holds, value, client, results, received>>
        /\ stopper # "returned" /\ stopper' = "returned"
    BY <1>3, Zenon DEF StopReturns
  <2>2. \A k \in Jobs : Same(k)
    BY <1>1, <2>1, IdleStep, Zenon
  <2>3. [k \in Jobs |-> JobFate(k)]' = [k \in Jobs |-> JobFate(k)]
    BY <2>2, Zenon DEF Same
  <2>4. [k \in Jobs |-> JobAnswer(k)]' = [k \in Jobs |-> JobAnswer(k)]
    BY <2>2, Zenon DEF Same
  <2> QED BY <2>1, <2>3, <2>4, Zenon DEF Contract!Next, Contract!StopReturned
<1>4. ASSUME NEW w \in Workers, WorkerStep(w)
      PROVE  [Contract!Next]_Contract!contractVars
  <2>1. CASE GoDown(w) \/ Recover(w)
    <3>1. /\ UNCHANGED <<queue, holds, value, client, results, received, stopper>>
          /\ \A x \in Workers : holds[x] # NoJob => worker'[x] = worker[x]
      BY <2>1, ZenonT(30) DEF GoDown, Recover, PoolInv, TypeOK, HandsMatchPlaces, Busy
    <3> QED BY <1>1, <3>1, IdleStep, AllSame, Zenon
  <2>2. CASE TakeJob(w) \/ Send(w) \/ Finish(w)
    <3>1. UNCHANGED <<received, stopper>>
      BY <2>2, Zenon DEF TakeJob, Send, Finish
    <3> QED BY <1>1, <2>2, <3>1, TakeJobSame, SendSame, FinishSame, AllSame, Zenon
  <2>3. CASE CheckShutdown(w) \/ Panic(w)
    <3>1. UNCHANGED <<received, stopper>>
      BY <2>3, Zenon DEF CheckShutdown, Panic
    <3> QED BY <1>1, <2>3, <3>1, LoseStep, AllSame, Zenon DEF Contract!Next
  <2>4. CASE \E a \in Answers : Return(w, a)
    BY <1>1, <2>4, RunStep, Zenon DEF Contract!Next
  <2> QED BY <1>4, <2>1, <2>2, <2>3, <2>4, Zenon DEF WorkerStep
<1>5. ASSUME NEW j \in Jobs, CallerStep(j)
      PROVE  [Contract!Next]_Contract!contractVars
  BY <1>1, <1>5, SubmitStep, GiveStep, Zenon DEF CallerStep, Contract!Next
<1> QED BY <1>2, <1>3, <1>4, <1>5, Zenon DEF Next

\* The pool keeps its contract, with any finite set of workers and any jobs: a
\* job is refused at once or its function runs at most once, the caller is given
\* the answer of its own job or nothing, and nothing is answered once Stop has
\* returned (Submit, consume, execute, Stop).
THEOREM PoolKeepsContract == Spec => KeepsContract
<1>1. PoolInv /\ [Next]_poolVars => [Contract!Next]_Contract!contractVars
  BY NextContract, Zenon
<1> QED BY <1>1, InitContract, PoolInvariant, PTL DEF Spec, KeepsContract, Contract!Spec
=============================================================================
