--------------------------- MODULE InferenceQueue ---------------------------
(***************************************************************************)
(* The bounded request queue in front of the single GPU worker             *)
(* (app/queue.py): submit(), the worker coroutine _run(), stop(), and what *)
(* they use of asyncio and of the one-thread executor.                     *)
(*                                                                         *)
(* One action is one uninterrupted run of a coroutine, from the point      *)
(* where it is resumed to the await where it is suspended next; nothing    *)
(* else runs on the event loop in between.  The executor thread is the     *)
(* only other actor, and it changes `pool` alone.  asyncio.wait_for is     *)
(* that of Python 3.12, the version the Docker image runs.                 *)
(***************************************************************************)
EXTENDS Naturals, Sequences, FiniteSets

CONSTANTS Jobs,      \* the requests; each is submitted at most once
          MaxDepth,  \* COSMOS_MAX_QUEUE_DEPTH
          None       \* Python's None: stop()'s sentinel, and "no current job"

ASSUME QueueAssumption == /\ MaxDepth \in Nat \ {0}
                          /\ None \notin Jobs

VARIABLES
  caller,      \* per job, the coroutine inside submit() and how it ended
  future,      \* per job, job.future
  expired,     \* per job, the timer of wait_for has fired
  puts,        \* everything ever put into the asyncio.Queue, in order
  gets,        \* how many entries the worker has taken out of it
  depthGauge,  \* the cosmos_queue_depth gauge
  worker,      \* the worker task: suspended in get(), awaiting the executor,
               \* returned, or ended by an exception
  current,     \* the job the worker is awaiting the executor for
  pool,        \* per job, its work item in the ThreadPoolExecutor
  stopper      \* the coroutine inside stop()

vars == <<caller, future, expired, puts, gets, depthGauge, worker, current,
          pool, stopper>>

loopVars == <<caller, future, expired, puts, gets, depthGauge, worker, current,
              stopper>>

Entry == Jobs \cup {None}

Answers == {"ok", "error", "full", "timeout"}

(* One type invariant for the module's ten variables. *)
TypeOK ==
  /\ caller \in [Jobs -> {"idle", "waiting"} \cup Answers]
  /\ future \in [Jobs -> {"none", "pending", "result", "exception", "cancelled"}]
  /\ expired \in [Jobs -> BOOLEAN]
  /\ puts \in Seq(Entry)
  /\ gets \in 0 .. Len(puts)
  /\ Len(puts) - gets <= MaxDepth
  /\ depthGauge \in 0 .. MaxDepth
  /\ worker \in {"idle", "serving", "stopped", "dead"}
  /\ current \in Entry
  /\ pool \in [Jobs -> {"out", "submitted", "running", "returned", "raised"}]
  /\ stopper \in {"none", "putting", "joining", "done"}

-----------------------------------------------------------------------------
(* asyncio.Queue: qsize(), full(), and the entries not taken yet. *)

Depth == Len(puts) - gets

\* Mutant: one entry too few.
FullEarly == Depth + 1 >= MaxDepth

Full == Depth >= MaxDepth

Unread == gets + 1 .. Len(puts)

Queued(j) == \E i \in Unread : puts[i] = j

(* The state in which start() has created the worker task. *)
Init ==
  /\ caller = [j \in Jobs |-> "idle"]
  /\ future = [j \in Jobs |-> "none"]
  /\ expired = [j \in Jobs |-> FALSE]
  /\ puts = <<>>
  /\ gets = 0
  /\ depthGauge = 0
  /\ worker = "idle"
  /\ current = None
  /\ pool = [j \in Jobs |-> "out"]
  /\ stopper = "none"

-----------------------------------------------------------------------------
(* submit() *)

(* put_nowait succeeds: submit() updates the gauge and awaits the future. *)
Accept(j) ==
  /\ caller[j] = "idle"
  /\ ~Full
  /\ caller' = [caller EXCEPT ![j] = "waiting"]
  /\ future' = [future EXCEPT ![j] = "pending"]
  /\ puts' = Append(puts, j)
  /\ depthGauge' = Depth + 1
  /\ UNCHANGED <<expired, gets, worker, current, pool, stopper>>

(* put_nowait raises QueueFull. *)
Refuse(j) ==
  /\ caller[j] = "idle"
  /\ Full
  /\ caller' = [caller EXCEPT ![j] = "full"]
  /\ UNCHANGED <<future, expired, puts, gets, depthGauge, worker, current, pool,
                 stopper>>

\* Mutant: the timeout covers the wait in the queue only.
ExpireQueued(j) ==
  /\ caller[j] = "waiting"
  /\ ~expired[j]
  /\ pool[j] = "out"
  /\ expired' = [expired EXCEPT ![j] = TRUE]
  /\ future' = [future EXCEPT ![j] = IF @ = "pending" THEN "cancelled" ELSE @]
  /\ UNCHANGED <<caller, puts, gets, depthGauge, worker, current, pool, stopper>>

(* The timer of wait_for fires: it cancels the awaiting task, which cancels *)
(* the future the task is suspended on.  If that future is already done the *)
(* cancellation stays pending in the task.                                  *)
Expire(j) ==
  /\ caller[j] = "waiting"
  /\ ~expired[j]
  /\ expired' = [expired EXCEPT ![j] = TRUE]
  /\ future' = [future EXCEPT ![j] = IF @ = "pending" THEN "cancelled" ELSE @]
  /\ UNCHANGED <<caller, puts, gets, depthGauge, worker, current, pool, stopper>>

\* Mutant: the TimeoutError is not told from a failure of the run.
AnswerOfFuture(j) == IF future[j] = "result" THEN "ok" ELSE "error"

(* What the await ends with.  An expired timer turns even a delivered result *)
(* into RequestTimeoutError.                                                 *)
Answer(j) ==
  IF expired[j] THEN "timeout" ELSE IF future[j] = "result" THEN "ok" ELSE "error"

(* The task of submit() is resumed after its future is done.                 *)
Resume(j) ==
  /\ caller[j] = "waiting"
  /\ future[j] # "pending"
  /\ caller' = [caller EXCEPT ![j] = Answer(j)]
  /\ UNCHANGED <<future, expired, puts, gets, depthGauge, worker, current, pool,
                 stopper>>

-----------------------------------------------------------------------------
(* _run(): the worker coroutine *)

\* Mutants: either test of job.future.cancelled() is dropped.
NeverAbandoned(j) == FALSE
AlwaysDeliver(j) == TRUE

(* `job.future.cancelled()`, tested before a job is started ...              *)
Abandoned(j) == future'[j] = "cancelled"

(* ... and before a result or an exception is delivered to it.               *)
MayDeliver(j) == future[j] # "cancelled"

\* Mutant: the loop goes round on the sentinel as well.
SkipsSentinel(e) == e # None => Abandoned(e)

(* The entries on which the loop goes round at once.                         *)
Skips(e) == e # None /\ Abandoned(e)

\* Mutant: the gauge is set behind the test for cancelled jobs.
GaugeAfterDispatch == IF worker' = "serving" THEN Len(puts) - gets' ELSE depthGauge

(* The gauge is set after each get().                                        *)
GaugeAfterGet == IF gets' # gets THEN Len(puts) - gets' ELSE depthGauge

(* The top of the worker's loop.  get() does not suspend while the queue has *)
(* entries, so one step skips every abandoned job at the head of the queue   *)
(* and then suspends on an empty queue, returns on the sentinel, or hands    *)
(* the first live job to the executor.                                       *)
TakeNext ==
  \E n \in gets .. Len(puts) :
    /\ \A i \in gets + 1 .. n : Skips(puts[i])
    /\ \/ /\ n = Len(puts)
          /\ gets' = n
          /\ worker' = "idle"
          /\ current' = None
          /\ UNCHANGED pool
       \/ /\ n < Len(puts)
          /\ puts[n + 1] = None
          /\ gets' = n + 1
          /\ worker' = "stopped"
          /\ current' = None
          /\ UNCHANGED pool
       \/ /\ n < Len(puts)
          /\ puts[n + 1] # None
          /\ ~Abandoned(puts[n + 1])
          /\ gets' = n + 1
          /\ worker' = "serving"
          /\ current' = puts[n + 1]
          /\ pool' = [pool EXCEPT ![puts[n + 1]] = "submitted"]
    /\ depthGauge' = GaugeAfterGet

\* Mutant: the worker does not wait for the executor.
WakeWhileServing ==
  /\ worker \in {"idle", "serving"}
  /\ gets < Len(puts)
  /\ UNCHANGED future
  /\ TakeNext
  /\ UNCHANGED <<caller, expired, puts, stopper>>

(* The worker task, suspended in get(), is woken by a put. *)
Wake ==
  /\ worker = "idle"
  /\ gets < Len(puts)
  /\ UNCHANGED future
  /\ TakeNext
  /\ UNCHANGED <<caller, expired, puts, stopper>>

\* Mutant: the except branch logs and goes round.
ErrorSwallowed(j) == IF pool[j] = "returned" THEN "result" ELSE future[j]

(* set_result, or set_exception in the except branch.                        *)
Delivery(j) == IF pool[j] = "returned" THEN "result" ELSE "exception"

(* The executor's future is done: deliver the outcome and go round the loop. *)
(* Setting a future that is already done raises InvalidStateError, which     *)
(* nothing catches: it would end the worker task.                            *)
Settle ==
  /\ worker = "serving"
  /\ pool[current] \in {"returned", "raised"}
  /\ IF MayDeliver(current) /\ future[current] # "pending"
     THEN /\ worker' = "dead"
          /\ UNCHANGED <<future, gets, depthGauge, current, pool>>
     ELSE /\ future' = IF MayDeliver(current)
                       THEN [future EXCEPT ![current] = Delivery(current)]
                       ELSE future
          /\ TakeNext
  /\ UNCHANGED <<caller, expired, puts, stopper>>

-----------------------------------------------------------------------------
(* The executor: ThreadPoolExecutor(max_workers=1) running run_inference() *)

ThreadFree == \A j \in Jobs : pool[j] # "running"

Start(j) ==
  /\ pool[j] = "submitted"
  /\ ThreadFree
  /\ pool' = [pool EXCEPT ![j] = "running"]
  /\ UNCHANGED loopVars

Return(j) ==
  /\ pool[j] = "running"
  /\ pool' = [pool EXCEPT ![j] = "returned"]
  /\ UNCHANGED loopVars

Raise(j) ==
  /\ pool[j] = "running"
  /\ pool' = [pool EXCEPT ![j] = "raised"]
  /\ UNCHANGED loopVars

-----------------------------------------------------------------------------
(* stop() *)

\* Mutants: stop() may be entered twice; a put that blocked is not resumed.
PutAgain ==
  /\ ~Full
  /\ puts' = Append(puts, None)
  /\ stopper' = "joining"
  /\ stopper # "done"
  /\ UNCHANGED <<caller, future, expired, gets, depthGauge, worker, current, pool>>

PutOnce ==
  /\ stopper = "none"
  /\ ~Full
  /\ puts' = Append(puts, None)
  /\ stopper' = "joining"
  /\ UNCHANGED <<caller, future, expired, gets, depthGauge, worker, current, pool>>

\* Mutant: put_nowait, and a full queue is ignored.
PutOrDrop ==
  /\ stopper \in {"none", "putting"}
  /\ puts' = IF Full THEN puts ELSE Append(puts, None)
  /\ stopper' = "joining"
  /\ UNCHANGED <<caller, future, expired, gets, depthGauge, worker, current, pool>>

(* `await self._queue.put(None)`: at once, or when a blocked put is resumed  *)
(* and finds room.  A submit() that runs first may have taken that room.     *)
PutSentinel ==
  /\ stopper \in {"none", "putting"}
  /\ ~Full
  /\ puts' = Append(puts, None)
  /\ stopper' = "joining"
  /\ UNCHANGED <<caller, future, expired, gets, depthGauge, worker, current, pool>>

BlockOnPut ==
  /\ stopper = "none"
  /\ Full
  /\ stopper' = "putting"
  /\ UNCHANGED <<caller, future, expired, puts, gets, depthGauge, worker, current,
                 pool>>

\* Mutant: the worker is not awaited.
JoinAtOnce ==
  /\ stopper = "joining"
  /\ stopper' = "done"
  /\ UNCHANGED <<caller, future, expired, puts, gets, depthGauge, worker, current,
                 pool>>

(* `await self._worker`, then the executor is shut down. *)
Join ==
  /\ stopper = "joining"
  /\ worker = "stopped"
  /\ stopper' = "done"
  /\ UNCHANGED <<caller, future, expired, puts, gets, depthGauge, worker, current,
                 pool>>

-----------------------------------------------------------------------------
(* The queue has been stopped and every caller has its answer: the process   *)
(* may exit here.                                                            *)
Exited ==
  /\ stopper = "done"
  /\ \A j \in Jobs : caller[j] \in Answers
  /\ UNCHANGED vars

Next ==
  \/ \E j \in Jobs :
       \/ Accept(j)
       \/ Refuse(j)
       \/ Expire(j)
       \/ Resume(j)
       \/ Start(j)
       \/ Return(j)
       \/ Raise(j)
  \/ Wake
  \/ Settle
  \/ PutSentinel
  \/ BlockOnPut
  \/ Join
  \/ Exited

(* The event loop runs every ready callback and every due timer. *)
CallerFairness(j) == WF_vars(Expire(j)) /\ WF_vars(Resume(j))

CallersFairness == \A j \in Jobs : CallerFairness(j)

LoopFairness ==
  /\ CallersFairness
  /\ WF_vars(Wake)
  /\ WF_vars(Settle)
  /\ WF_vars(stopper = "putting" /\ PutSentinel)
  /\ WF_vars(Join)

Spec == Init /\ [][Next]_vars /\ LoopFairness

-----------------------------------------------------------------------------
(* Safety *)

InFlight(j) == pool[j] \in {"submitted", "running"}

Finished(j) == pool[j] \in {"returned", "raised"}

(* The worker task never ends with an exception: no timeout, however it      *)
(* interleaves with a result, makes _run() set a future that is done.        *)
WorkerSurvives == worker # "dead"

(* The executor never holds more than the job the worker awaits, so nothing  *)
(* ever waits inside the executor and latency is queue wait plus compute.    *)
SerialGpu == \A j \in Jobs : InFlight(j) => worker = "serving" /\ current = j

(* A caller's unresolved future is always held by the queue or the worker:   *)
(* no failure or skip in _run() drops a job and leaves its caller hanging.   *)
NoHungFuture ==
  \A j \in Jobs : future[j] = "pending" => Queued(j) \/ (worker = "serving" /\ current = j)

(* Jobs start in the order of admission: when a job has been given to the    *)
(* executor, every earlier entry is a job that has finished or that its      *)
(* caller abandoned first.  In particular nothing behind stop()'s sentinel   *)
(* is ever started.                                                          *)
NoOvertaking ==
  \A k \in 1 .. Len(puts) : puts[k] # None /\ pool[puts[k]] # "out" =>
    \A i \in 1 .. k - 1 :
      /\ puts[i] # None
      /\ Finished(puts[i]) \/ (pool[puts[i]] = "out" /\ future[puts[i]] = "cancelled")

(* What submit() hands its caller is what happened to that very job: a       *)
(* result only after its own run returned, an error only after it raised, a  *)
(* timeout only after its timer, and "full" only if it was never admitted.   *)
AnswerAgrees ==
  \A j \in Jobs :
    /\ caller[j] = "ok" => pool[j] = "returned"
    /\ caller[j] = "error" => pool[j] = "raised"
    /\ caller[j] = "timeout" => expired[j] /\ future[j] # "pending"
    /\ caller[j] = "full" => pool[j] = "out" /\ ~Queued(j)

(* Whenever no sentinel is unread, the gauge equals the queue's size: the    *)
(* updates in submit() and _run() leave no window where it is stale.         *)
GaugeTracksDepth == (\A i \in Unread : puts[i] # None) => depthGauge = Depth

(* Once stop() has returned, the executor is empty and every job admitted    *)
(* ahead of the sentinel has been settled, whatever was queued at the time.  *)
StopDrains ==
  stopper = "done" =>
    /\ \A j \in Jobs : ~InFlight(j)
    /\ \A k \in 1 .. Len(puts) : puts[k] = None =>
         \A i \in 1 .. k - 1 : puts[i] # None /\ future[puts[i]] # "pending"

(* The worker has a next step: it can be woken, its run has ended, or the    *)
(* executor's thread has the run or is free to start it.                     *)
WorkerCanMove ==
  \/ worker = "idle" /\ Unread # {}
  \/ worker = "serving" /\ (Finished(current) \/ pool[current] = "running" \/ ThreadFree)

(* Nobody waits for something that nobody will do: a caller whose future is  *)
(* pending, a stop() blocked on a full queue and a stop() awaiting the       *)
(* worker each wait for a worker that can move.  Only a job put behind the   *)
(* sentinel, which the worker never reaches, is left to its timer.           *)
NobodyStuck ==
  /\ \A j \in Jobs : future[j] = "pending" =>
       \/ WorkerCanMove
       \/ \E i \in 1 .. gets : puts[i] = None
  /\ stopper = "putting" => ~Full \/ WorkerCanMove
  /\ stopper = "joining" => worker = "stopped" \/ WorkerCanMove

(* A job whose caller gave up while it was queued never reaches the GPU,     *)
(* even if the timer fires just before the worker takes it.                  *)
AbandonedNeverStarts ==
  [][\A j \in Jobs : future[j] = "cancelled" /\ pool[j] = "out" => pool'[j] = "out"]_vars

(* The help text of the gauge (app/metrics.py): "Requests currently waiting  *)
(* for the GPU worker."  While a job is being served, a queued request whose *)
(* caller has its timeout is not waiting any more.                           *)
GaugeCountsWaiting ==
  worker = "serving" /\ stopper = "none" =>
    depthGauge <= Cardinality({j \in Jobs : Queued(j) /\ caller[j] = "waiting"})

-----------------------------------------------------------------------------
(* The inductive invariant: what holds of each part of the state between two *)
(* steps, strong enough to imply every safety invariant above.               *)

(* submit(): the coroutine, its future and its timer agree.                  *)
CallerInv ==
  \A j \in Jobs :
    /\ future[j] = "none" <=> caller[j] \in {"idle", "full"}
    /\ expired[j] => future[j] # "none"
    /\ future[j] = "pending" => caller[j] = "waiting" /\ ~expired[j]
    /\ future[j] = "cancelled" => expired[j]
    /\ caller[j] = "ok" => future[j] = "result"
    /\ caller[j] = "error" => future[j] = "exception"
    /\ caller[j] = "timeout" => expired[j]

(* Every admitted job was put exactly once; at most one sentinel was put.    *)
PutsInv ==
  /\ \A i, k \in 1 .. Len(puts) : puts[i] = puts[k] => i = k
  /\ \A i \in 1 .. Len(puts) : puts[i] # None => future[puts[i]] # "none"
  /\ \A j \in Jobs : future[j] # "none" => \E i \in 1 .. Len(puts) : puts[i] = j

(* A job still in the queue has not been started, nor has one never put.     *)
UnstartedInv ==
  /\ \A j \in Jobs : future[j] = "none" => pool[j] = "out"
  /\ \A i \in Unread : puts[i] # None =>
       pool[puts[i]] = "out" /\ future[puts[i]] \in {"pending", "cancelled"}

(* An entry taken before the latest one is finished with.                    *)
DealtWith(j) ==
  \/ pool[j] = "returned" /\ future[j] \in {"result", "cancelled"}
  \/ pool[j] = "raised" /\ future[j] \in {"exception", "cancelled"}
  \/ pool[j] = "out" /\ future[j] = "cancelled"

TakenInv ==
  \A i \in 1 .. gets :
    \/ worker = "serving" /\ i = gets
    \/ worker = "stopped" /\ i = gets
    \/ puts[i] # None /\ DealtWith(puts[i])

(* The worker's program counter and the entry it took last.                  *)
WorkerInv ==
  /\ worker # "dead"
  /\ worker = "idle" => current = None
  /\ worker = "serving" =>
       /\ gets > 0 /\ current = puts[gets] /\ current # None
       /\ pool[current] # "out"
       /\ future[current] \in {"pending", "cancelled"}
  /\ worker = "stopped" => gets > 0 /\ puts[gets] = None /\ current = None

(* stop() and its sentinel.                                                  *)
StopInv ==
  /\ stopper \in {"none", "putting"} => \A i \in 1 .. Len(puts) : puts[i] # None
  /\ stopper \in {"joining", "done"} => \E i \in 1 .. Len(puts) : puts[i] = None
  /\ stopper = "done" => worker = "stopped"

IInv ==
  /\ TypeOK
  /\ CallerInv
  /\ PutsInv
  /\ UnstartedInv
  /\ TakenInv
  /\ WorkerInv
  /\ StopInv
  /\ GaugeTracksDepth

-----------------------------------------------------------------------------
(* The abstract view *)

(* A caller has given up when its timer fires, not when it is told so.       *)
Told(j) ==
  CASE caller[j] = "idle" -> "none"
    [] caller[j] = "waiting" -> IF expired[j] THEN "timeout" ELSE "awaited"
    [] OTHER -> caller[j]

RunOutcome(j) ==
  CASE pool[j] = "returned" -> "ok"
    [] pool[j] = "raised" -> "error"
    [] OTHER -> "none"

Server == INSTANCE SerialServer WITH
  Customers <- Jobs,
  Capacity <- MaxDepth,
  Closing <- None,
  line <- puts,
  taken <- gets,
  serving <- IF worker = "serving" THEN {current} ELSE {},
  outcome <- [j \in Jobs |-> RunOutcome(j)],
  answer <- [j \in Jobs |-> Told(j)]

(* The queue is a serial server: through every race of timers with results,  *)
(* callers are called up one at a time and in order, only those who gave up  *)
(* are passed over, only a full line turns callers away, and nobody is told  *)
(* anything but what happened to its own job.                                *)
ServerBehaviour == Server!Spec

-----------------------------------------------------------------------------
(* Liveness *)

(* Nothing makes a run end: generate() is bounded by max_new_tokens, but a   *)
(* wedged driver keeps the executor's thread for ever.                       *)
GpuHangs == \E j \in Jobs : <>[]InFlight(j)

(* Every caller is answered, even when the GPU hangs for ever, and even when *)
(* its job was put behind the sentinel of a stopping queue.                  *)
EveryCallerAnswered == \A j \in Jobs : caller[j] = "waiting" ~> caller[j] \in Answers

(* No run that ends, failed or abandoned, stops the worker: every entry      *)
(* ahead of the sentinel is eventually taken.                                *)
EveryEntryTaken ==
  \/ GpuHangs
  \/ \A i \in 1 .. Cardinality(Jobs) + 1 :
       Len(puts) >= i /\ (\A k \in 1 .. i - 1 : puts[k] # None) ~> gets >= i

(* stop() returns, although its put may find the queue full of jobs, unless  *)
(* it waits for a run that hangs.                                            *)
StopReturns == GpuHangs \/ (stopper # "none" ~> stopper = "done")

=============================================================================
