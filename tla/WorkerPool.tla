----------------------------- MODULE WorkerPool -----------------------------
(***************************************************************************)
(* The worker pool of internal/pool/pool.go, together with the protocol    *)
(* its callers follow around Submit (pkg/hooks/service.go): every job has a *)
(* result channel of capacity one and a WaitGroup of its own; the caller    *)
(* adds one to the WaitGroup before Submit, takes it back when Submit       *)
(* refuses the job, and otherwise waits for the WaitGroup, closes the       *)
(* channel and reads what is in it.                                         *)
(***************************************************************************)
EXTENDS Integers, Sequences, FiniteSets

CONSTANTS
  Workers,    \* the goroutines that start() spawns
  Jobs,       \* the jobs that callers may submit, each at most once
  Answers,    \* what the function of a job may return
  NoJob,      \* no job
  NoAnswer    \* a receive from a closed, empty channel

ASSUME WorkersFinite == IsFiniteSet(Workers)

ASSUME NoJobIsNotAJob == NoJob \notin Jobs

ASSUME NoAnswerIsNotAnAnswer == NoAnswer \notin Answers

(***************************************************************************)
(* WorkerPool.jobs is made with capacity 2*workers.                         *)
(***************************************************************************)
QueueCapacity == 2 * Cardinality(Workers)

VARIABLES
  queue,     \* the buffered channel WorkerPool.jobs
  shutdown,  \* shutdownCtx is done
  stopper,   \* where the caller of Stop is
  poolWg,    \* the counter of WorkerPool.wg
  worker,    \* where each worker is in consume and execute
  holds,     \* the job in a worker's hands
  value,     \* what the function returned, before it is sent
  client,    \* where the caller of Submit is, for each job
  jobWg,     \* the counter of the job's WaitGroup
  results,   \* the content of the job's result channel
  closed,    \* whether the job's result channel is closed
  received   \* what the caller read from the job's result channel

poolVars == <<queue, shutdown, stopper, poolWg, worker, holds, value,
              client, jobWg, results, closed, received>>

(***************************************************************************)
(* The places of a worker:                                                  *)
(*   unborn      start() has not run yet                                    *)
(*   select      in the select of consume                                   *)
(*   picked      execute was called, its shutdown check is next             *)
(*   running     inside the function of the job                             *)
(*   sending     the function has returned, the send on results is next     *)
(*   finishing   the deferred wg.Done of execute is next                    *)
(*   panicking   the same, with a panic unwinding                           *)
(*   recovering  in the deferred recover of consume                         *)
(*   gone        the goroutine has returned                                 *)
(***************************************************************************)
Busy == {"picked", "running", "sending", "finishing", "panicking"}

Alive == Busy \cup {"select", "recovering"}

Places == Alive \cup {"unborn", "gone"}

TypeOK ==
  /\ queue \in Seq(Jobs)
  /\ shutdown \in BOOLEAN
  /\ stopper \in {"idle", "waiting", "returned"}
  /\ poolWg \in Nat
  /\ worker \in [Workers -> Places]
  /\ holds \in [Workers -> Jobs \cup {NoJob}]
  /\ value \in [Workers -> Answers \cup {NoAnswer}]
  /\ client \in [Jobs -> {"fresh", "submitted", "rejected", "collected"}]
  /\ jobWg \in [Jobs -> Nat]
  /\ results \in [Jobs -> Seq(Answers)]
  /\ closed \in [Jobs -> BOOLEAN]
  /\ received \in [Jobs -> Answers \cup {NoAnswer}]

Init ==
  /\ queue = <<>>
  /\ shutdown = FALSE
  /\ stopper = "idle"
  /\ poolWg = 0
  /\ worker = [w \in Workers |-> "unborn"]
  /\ holds = [w \in Workers |-> NoJob]
  /\ value = [w \in Workers |-> NoAnswer]
  /\ client = [j \in Jobs |-> "fresh"]
  /\ jobWg = [j \in Jobs |-> 0]
  /\ results = [j \in Jobs |-> <<>>]
  /\ closed = [j \in Jobs |-> FALSE]
  /\ received = [j \in Jobs |-> NoAnswer]

-----------------------------------------------------------------------------
(***************************************************************************)
(* The pool's own steps.                                                    *)
(***************************************************************************)

\* start runs in a goroutine of its own: it may run after Submit, or even
\* after Stop, has been called.
Start ==
  /\ \A w \in Workers : worker[w] = "unborn"
  /\ poolWg' = poolWg + Cardinality(Workers)
  /\ worker' = [w \in Workers |-> "select"]
  /\ UNCHANGED <<queue, shutdown, stopper, holds, value, client, jobWg,
                 results, closed, received>>

\* The select of consume takes a job, whether or not shutdownCtx is done:
\* Go picks any ready case.
TakeJob(w) ==
  /\ worker[w] = "select"
  /\ queue # <<>>
  /\ queue' = Tail(queue)
  /\ holds' = [holds EXCEPT ![w] = Head(queue)]
  /\ worker' = [worker EXCEPT ![w] = "picked"]
  /\ UNCHANGED <<shutdown, stopper, poolWg, value, client, jobWg, results,
                 closed, received>>

\* The select of consume takes its shutdown case.
GoDown(w) ==
  /\ worker[w] = "select"
  /\ shutdown
  /\ poolWg' = poolWg - 1
  /\ worker' = [worker EXCEPT ![w] = "gone"]
  /\ UNCHANGED <<queue, shutdown, stopper, holds, value, client, jobWg,
                 results, closed, received>>

\* Variant of CheckShutdown: execute does not look at shutdownCtx.
RunUnchecked(w) ==
  /\ worker[w] = "picked"
  /\ worker' = [worker EXCEPT ![w] = "running"]
  /\ UNCHANGED <<queue, shutdown, stopper, poolWg, holds, value, client,
                 jobWg, results, closed, received>>

\* The check at the head of execute: a job picked after the shutdown is
\* aborted, and leaves no result behind.
CheckShutdown(w) ==
  /\ worker[w] = "picked"
  /\ worker' = [worker EXCEPT ![w] = IF shutdown THEN "finishing" ELSE "running"]
  /\ UNCHANGED <<queue, shutdown, stopper, poolWg, holds, value, client,
                 jobWg, results, closed, received>>

\* The function of the job returns a.
Return(w, a) ==
  /\ worker[w] = "running"
  /\ value' = [value EXCEPT ![w] = a]
  /\ worker' = [worker EXCEPT ![w] = "sending"]
  /\ UNCHANGED <<queue, shutdown, stopper, poolWg, holds, client, jobWg,
                 results, closed, received>>

\* The function of the job panics.
Panic(w) ==
  /\ worker[w] = "running"
  /\ worker' = [worker EXCEPT ![w] = "panicking"]
  /\ UNCHANGED <<queue, shutdown, stopper, poolWg, holds, value, client,
                 jobWg, results, closed, received>>

\* Variant of Send: a send that drops the result.
SendDropped(w) ==
  /\ worker[w] = "sending"
  /\ value' = [value EXCEPT ![w] = NoAnswer]
  /\ worker' = [worker EXCEPT ![w] = "finishing"]
  /\ UNCHANGED <<queue, shutdown, stopper, poolWg, holds, client, jobWg,
                 results, closed, received>>

\* results <- NewResult(...): blocks while the buffer of one is full, panics
\* when the channel is closed.
Send(w) ==
  LET j == holds[w] IN
  /\ worker[w] = "sending"
  /\ closed[j] \/ Len(results[j]) < 1
  /\ value' = [value EXCEPT ![w] = NoAnswer]
  /\ IF closed[j]
     THEN /\ worker' = [worker EXCEPT ![w] = "panicking"]
          /\ UNCHANGED results
     ELSE /\ worker' = [worker EXCEPT ![w] = "finishing"]
          /\ results' = [results EXCEPT ![j] = Append(@, value[w])]
  /\ UNCHANGED <<queue, shutdown, stopper, poolWg, holds, client, jobWg,
                 closed, received>>

\* Variant of Finish: wg.Done is not deferred, so a panic skips it.
FinishNotDeferred(w) ==
  /\ worker[w] \in {"finishing", "panicking"}
  /\ jobWg' = IF worker[w] = "finishing" THEN [jobWg EXCEPT ![holds[w]] = @ - 1]
                                         ELSE jobWg
  /\ holds' = [holds EXCEPT ![w] = NoJob]
  /\ worker' = [worker EXCEPT ![w] =
                  IF worker[w] = "finishing" THEN "select" ELSE "recovering"]
  /\ UNCHANGED <<queue, shutdown, stopper, poolWg, value, client, results,
                 closed, received>>

\* The deferred wg.Done of execute; a worker that is not panicking goes back
\* to its select.
Finish(w) ==
  LET j == holds[w] IN
  /\ worker[w] \in {"finishing", "panicking"}
  /\ jobWg' = [jobWg EXCEPT ![j] = @ - 1]
  /\ holds' = [holds EXCEPT ![w] = NoJob]
  /\ worker' = [worker EXCEPT ![w] =
                  IF worker[w] = "finishing" THEN "select" ELSE "recovering"]
  /\ UNCHANGED <<queue, shutdown, stopper, poolWg, value, client, results,
                 closed, received>>

\* The deferred recover of consume: the worker is not replaced.
Recover(w) ==
  /\ worker[w] = "recovering"
  /\ poolWg' = poolWg - 1
  /\ worker' = [worker EXCEPT ![w] = "gone"]
  /\ UNCHANGED <<queue, shutdown, stopper, holds, value, client, jobWg,
                 results, closed, received>>

\* Variant of Stop: Stop only waits, and does not cancel shutdownCtx.
StopWithoutCancel ==
  /\ stopper = "idle"
  /\ stopper' = "waiting"
  /\ UNCHANGED <<queue, shutdown, poolWg, worker, holds, value, client, jobWg,
                 results, closed, received>>

\* Stop cancels shutdownCtx, then waits for the workers.
Stop ==
  /\ stopper = "idle"
  /\ shutdown' = TRUE
  /\ stopper' = "waiting"
  /\ UNCHANGED <<queue, poolWg, worker, holds, value, client, jobWg, results,
                 closed, received>>

StopReturns ==
  /\ stopper = "waiting"
  /\ poolWg = 0
  /\ stopper' = "returned"
  /\ UNCHANGED <<queue, shutdown, poolWg, worker, holds, value, client,
                 jobWg, results, closed, received>>

-----------------------------------------------------------------------------
(***************************************************************************)
(* The steps of a caller. The WaitGroup and the channel of a job are known  *)
(* to its caller and to the worker that executes the job only, so wg.Add    *)
(* and Submit, or wg.Done after a refusal, are one step.                    *)
(***************************************************************************)

\* Variant of HasRoom: the channel takes one job too many.
HasRoomOffByOne == Len(queue) <= QueueCapacity

HasRoom == Len(queue) < QueueCapacity

\* wg.Add(1); Submit puts the job into the channel.
Accept(j) ==
  /\ client[j] = "fresh"
  /\ HasRoom
  /\ queue' = Append(queue, j)
  /\ jobWg' = [jobWg EXCEPT ![j] = @ + 1]
  /\ client' = [client EXCEPT ![j] = "submitted"]
  /\ UNCHANGED <<shutdown, stopper, poolWg, worker, holds, value, results,
                 closed, received>>

\* Variant of Refuse: wg.Done without the wg.Add.
RefuseWithoutAdd(j) ==
  /\ client[j] = "fresh"
  /\ ~HasRoom
  /\ jobWg' = [jobWg EXCEPT ![j] = @ - 1]
  /\ client' = [client EXCEPT ![j] = "rejected"]
  /\ UNCHANGED <<queue, shutdown, stopper, poolWg, worker, holds, value,
                 results, closed, received>>

\* wg.Add(1); Submit takes its default case, "queue is full"; wg.Done().
Refuse(j) ==
  /\ client[j] = "fresh"
  /\ ~HasRoom
  /\ client' = [client EXCEPT ![j] = "rejected"]
  /\ UNCHANGED <<queue, shutdown, stopper, poolWg, worker, holds, value,
                 jobWg, results, closed, received>>

\* Variant of Collect: the caller does not wait before it closes the channel.
CollectWithoutWait(j) ==
  /\ client[j] = "submitted"
  /\ closed' = [closed EXCEPT ![j] = TRUE]
  /\ received' = [received EXCEPT ![j] =
                    IF results[j] = <<>> THEN NoAnswer ELSE Head(results[j])]
  /\ results' = [results EXCEPT ![j] = IF @ = <<>> THEN @ ELSE Tail(@)]
  /\ client' = [client EXCEPT ![j] = "collected"]
  /\ UNCHANGED <<queue, shutdown, stopper, poolWg, worker, holds, value,
                 jobWg>>

\* wg.Wait() returns; close(ch); one receive from ch.
Collect(j) ==
  /\ client[j] = "submitted"
  /\ jobWg[j] = 0
  /\ closed' = [closed EXCEPT ![j] = TRUE]
  /\ received' = [received EXCEPT ![j] =
                    IF results[j] = <<>> THEN NoAnswer ELSE Head(results[j])]
  /\ results' = [results EXCEPT ![j] = IF @ = <<>> THEN @ ELSE Tail(@)]
  /\ client' = [client EXCEPT ![j] = "collected"]
  /\ UNCHANGED <<queue, shutdown, stopper, poolWg, worker, holds, value,
                 jobWg>>

-----------------------------------------------------------------------------
WorkerStep(w) ==
  \/ TakeJob(w)
  \/ GoDown(w)
  \/ CheckShutdown(w)
  \/ \E a \in Answers : Return(w, a)
  \/ Panic(w)
  \/ Send(w)
  \/ Finish(w)
  \/ Recover(w)

CallerStep(j) == Accept(j) \/ Refuse(j) \/ Collect(j)

Next ==
  \/ Start
  \/ Stop
  \/ StopReturns
  \/ \E w \in Workers : WorkerStep(w)
  \/ \E j \in Jobs : CallerStep(j)

Spec == Init /\ [][Next]_poolVars

-----------------------------------------------------------------------------
InQueue(j) == \E i \in 1..Len(queue) : queue[i] = j

Holders(j) == {w \in Workers : holds[w] = j}

\* A worker that is about to send its result can: the channel is not closed
\* under it, which would panic and cost the pool a worker, and its buffer is
\* empty, so the worker does not block.
ResultChannelReady ==
  \A w \in Workers :
    worker[w] = "sending" => ~closed[holds[w]] /\ results[holds[w]] = <<>>

\* A job is in one place only, in the channel once or in the hands of one
\* worker, and its WaitGroup is positive exactly as long: Wait never returns
\* while the job may still run, and wg.Done is never called once too often.
JobInOnePlace ==
  \A j \in Jobs :
    /\ \A i, k \in 1..Len(queue) : queue[i] = j /\ queue[k] = j => i = k
    /\ \A w, x \in Holders(j) : w = x
    /\ ~(InQueue(j) /\ Holders(j) # {})
    /\ jobWg[j] = IF InQueue(j) \/ Holders(j) # {} THEN 1 ELSE 0

\* The channel never holds more than its capacity, and the counter of the
\* pool's WaitGroup is the number of the workers that live.
PoolBounds ==
  /\ Len(queue) <= QueueCapacity
  /\ poolWg = Cardinality({w \in Workers : worker[w] \in Alive})

\* Once Stop has returned, no function of a job is running and none will,
\* even when the workers are spawned only after that: serve closes the
\* database next.
NoWorkAfterStop ==
  stopper = "returned" =>
    \A w \in Workers : worker[w] \notin {"running", "sending", "panicking"}

\* The pool keeps the promise of JobContract. A job that ended without a
\* result (aborted, or its function panicked) is a lost one.
JobFate(j) ==
  CASE client[j] = "fresh" -> "fresh"
    [] client[j] = "rejected" -> "refused"
    [] client[j] = "collected" -> "over"
    [] OTHER ->
         IF results[j] # <<>> \/ \E w \in Holders(j) : worker[w] = "sending"
         THEN "answered"
         ELSE IF InQueue(j) \/ \E w \in Holders(j) : worker[w] \in {"picked", "running"}
         THEN "pending"
         ELSE "lost"

JobAnswer(j) ==
  IF client[j] = "collected" THEN received[j]
  ELSE IF results[j] # <<>> THEN Head(results[j])
  ELSE IF \E w \in Holders(j) : worker[w] = "sending"
  THEN value[CHOOSE w \in Holders(j) : worker[w] = "sending"]
  ELSE NoAnswer

Contract ==
  INSTANCE JobContract WITH
    fate <- [j \in Jobs |-> JobFate(j)],
    answer <- [j \in Jobs |-> JobAnswer(j)],
    given <- received,
    stopped <- (stopper = "returned")

\* The pool implements its contract: jobs run once, the caller is given the
\* answer of its own job, and nothing is answered after Stop.
KeepsContract == Contract!Spec

-----------------------------------------------------------------------------
(***************************************************************************)
(* The inductive invariant of the pool.                                     *)
(***************************************************************************)

\* A worker has a job in its hands exactly while it executes one, and only
\* submitted jobs are anywhere in the pool.
HandsMatchPlaces ==
  /\ \A w \in Workers : worker[w] \in Busy <=> holds[w] # NoJob
  /\ \A w \in Workers : worker[w] = "sending" => value[w] # NoAnswer
  /\ \A j \in Jobs : InQueue(j) \/ Holders(j) # {} => client[j] = "submitted"

\* A channel is closed by its caller only, and stays empty until the worker
\* that executes the job has sent its one result.
ChannelsInOrder ==
  /\ \A j \in Jobs : Len(results[j]) <= 1
  /\ \A j \in Jobs : closed[j] => client[j] = "collected"
  /\ \A j \in Jobs : results[j] # <<>> => client[j] = "submitted"
  /\ \A j \in Jobs : InQueue(j) => results[j] = <<>>
  /\ \A w \in Workers :
       worker[w] \in {"picked", "running", "sending", "panicking"} =>
         results[holds[w]] = <<>>

\* Stop cancels before it waits; when it has returned, the workers that were
\* born by then have gone, and the others will find the pool cancelled.
StopInOrder ==
  /\ shutdown <=> stopper # "idle"
  /\ stopper = "returned" =>
       \A w \in Workers :
         worker[w] \in {"unborn", "select", "picked", "finishing", "gone"}

\* Everything that the safety properties of the pool rest on.
PoolInv ==
  /\ TypeOK
  /\ JobInOnePlace
  /\ HandsMatchPlaces
  /\ ChannelsInOrder
  /\ StopInOrder
  /\ PoolBounds
=============================================================================
