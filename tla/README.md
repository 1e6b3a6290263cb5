# cosmos-edge-serve: a TLA+ model of the service

The repository is one inference service: a FastAPI process that loads
Cosmos-Reason2-2B once, takes an image or a short video and a prompt on `POST
/infer`, and runs one `generate()` at a time on one GPU behind a bounded queue.
What is hard about it is not the code of any one function but the order in
which handlers, timers, the worker coroutine, the GPU thread and the shutdown
run.  This directory models that, checks it with TLC on small instances and
proves the central results with TLAPS for every number of requests and every
queue depth.

## The system

| Part | State it keeps | Operations | Talks to |
|---|---|---|---|
| Request queue, `app/queue.py` | an `asyncio.Queue`, one future per job, the worker task, a one-thread executor | `submit`, `_run` (get, skip, dispatch, deliver), `stop` | handlers await its futures; `run_in_executor` for the GPU thread; gauges and histograms |
| HTTP service, `app/main.py` | `app.state.loaded/queue/settings`, one temporary file per request | `lifespan`, `/infer`, `/health`, `/metrics`, `/` | the queue; uvicorn calls it; the disk |
| Inference, `app/inference.py` | none between calls | `run_inference` on the GPU thread | the temporary file, the model |
| Metrics, `app/metrics.py` | process-wide counters, gauges, histograms | set, inc, observe | queue and handlers write, Prometheus reads |
| Model loading, `app/model.py` | none after the load; the `LoadReport` | `load_model` and its guards | lifespan; torch, transformers, peft |
| Settings, schemas, logging | constants and formatting | - | - |
| Container, `docker-compose.yml`, `Dockerfile` | Docker's restart count | `restart: on-failure:3`, `HEALTHCHECK` | the process's exit code, `/health` |
| Load generator and renderer, `loadtest/` | k6 counters, summary files | `fire`, `setup`, `handleSummary`, `render` | the service over HTTP |
| Scripts, `scripts/` | a report file | Kaggle check, smoke test, sample assets | `load_model`, `run_inference`, HTTP |

How they interact.  uvicorn runs `lifespan` up to its `yield`, then accepts
requests.  A handler reads its upload (an await per chunk), puts a job into the
queue and awaits the job's future under `asyncio.wait_for`.  The worker task
takes entries in order, hands one at a time to the executor's only thread, and
sets the future.  On SIGTERM uvicorn takes no new request, waits for the running
handlers, and resumes `lifespan`, which puts a sentinel into the same queue and
awaits the worker.

What is hard, with the properties that make each part correct:

* **The timer against the result.**  `wait_for` cancels a pending future; if the
  result has been delivered and the caller's task not yet resumed, the
  cancellation stays pending in the task and the caller still gets 504.  The
  worker must never set a cancelled future (it would die), never start an
  abandoned job, never leave a future nobody holds: `WorkerSurvives`,
  `AbandonedNeverStarts`, `NoHungFuture`, `AnswerAgrees`; and the status must be the
  true account of what became of the request: `StatusTellsTruth`.
* **One run at a time, in order**: `SerialGpu`, `NoOvertaking`.
* **Failures**: a run that raises reaches its caller and nobody else, and the
  worker goes on: `AnswerAgrees`, `EveryEntryTaken`.
* **Shutdown**: the sentinel shares a bounded queue with the jobs, so `stop()` may
  have to wait for room, and a `submit()` can take the room it was woken for:
  `NobodyStuck`, `StopReturns`, `StopDrains`; a job behind the sentinel is never run, so the
  service must not put one there: `ShutdownStrandsNobody`, `DrainEndsTheContainer`.
* **The temporary file** is written by the handler, read by another thread and
  removed by the handler, possibly first: `NoOrphanMedia`, `CleanUpUnseen`.
* **The counters** are bumped at five places in two files: `GaugeTracksDepth`,
  `CountersReconcile`, `RunsReconcile`.
* **A hung GPU**: nobody may be left without an answer: `EveryCallerAnswered`,
  `AnsweredOrLost`.
* **Kills** come between any two steps and leave the disk as it is:
  `FilesOfTheUnfinished`, `AnsweredOrLost`.
* **What all this amounts to** for a caller is a serial first-come first-served
  server with a bounded line: `ServerBehaviour`.
* **An answer cut short**, anywhere in its reasoning block, must not pass for a
  whole one: `SplitsAsHeard`, `NothingTakenBack`, `TruncationIsTold`.
* **Loading** distrusts its libraries: what passes the guards must have the class, the
  size, the devices and the adapter asked for, and nothing healthy may be rejected
  because it was measured wrongly: `LoadedAsAsked`, `NoFalseAlarm`.
* **Restarts**: whatever fails, the container comes to rest, and what serves has
  been verified in its own process: `Settles`, `ServesWhatWasAsked`, `DeployInv`.
* **The benchmark** publishes counts of its own: they must agree with the
  service's, a 503 and a queue wait must mean what their reader takes them for, and
  the sweep must end: `SummaryReconciles`, `FullOnlyOfAbandoned`, `WaitsForOthers`,
  `SweepEnds`; its report must say what was lost: `CaveatsTellTheRun`.

`PROJECT.json` lists every component and every hazard at its line.

## The modules

### `InferenceQueue` (app/queue.py)

One action is one uninterrupted run of a coroutine from the point where it is
resumed to its next await: the event loop runs nothing else in between.  So
`TakeNext`, the top of the worker's loop, skips *all* cancelled jobs at the head
of the queue and dispatches the first live one in a single step, because
`get()` does not suspend while the queue has entries, and `Settle` delivers an
outcome and runs on into `TakeNext`.  The GPU thread is the only actor outside
the loop.

| Variable | In the code |
|---|---|
| `caller[j]` | the coroutine inside `submit()`: not called, waiting, or how it ended |
| `future[j]`, `expired[j]` | `job.future`, and whether the timer of its `wait_for` has fired |
| `puts`, `gets` | all entries ever put into `_queue`, and how many were taken; the queue's content is the rest.  Keeping the taken ones lets the ordering properties speak of the past |
| `depthGauge` | `cosmos_queue_depth` |
| `worker`, `current`, `pool[j]` | the worker task, the job it awaits the executor for, each job's work item |
| `stopper` | the coroutine inside `stop()`: blocked in `put(None)`, awaiting the worker, returned |

| Action | In the code |
|---|---|
| `Accept`, `Refuse` | `put_nowait` succeeds or raises `QueueFull` |
| `Expire`, `Resume` | the timer; the end of the await with what `Answer` says |
| `Wake`, `Settle` (with `TakeNext`) | `_run()` resumed in `get()`, resumed by the executor's future |
| `Start`, `Return`, `Raise` | the executor's thread and `run_inference()` |
| `PutSentinel`, `BlockOnPut`, `Join` | `stop()` |
| `Exited` | everything is over; it stands for the end of the process, so that TLC's deadlock check finds real deadlocks only |

The module lets `stop()` be called at any time, also under waiting callers:
`InferenceQueue` by itself makes no promise about who calls it when.

### `SerialServer` (what app/queue.py promises)

The abstract specification: a `line` of customers, how many of them were `taken`,
whom the server is `serving`, how each service ended (`outcome`) and what each
customer was told (`answer`).  There are no futures, timers, tasks or threads in it.
`InferenceQueue` implements it under the mapping `Server`: `line` is `puts`,
`taken` is `gets`, `serving` is the job the worker has dispatched, `outcome` is what
the thread returned, and `answer` is the caller's state with an expired timer read as
"timeout" already (`Told`), since nothing can change that answer any more.  A
turn of the worker's loop, skips and all, is one `NextPlease`.

### `Service` (app/main.py, and the file access of app/inference.py)

Extends `InferenceQueue` by the handler of each request (`handler`, `written`),
the temporary files (`disk`), what the GPU thread saw of them (`media`), the
counters (`counted`, `observed`) and the lifespan (`accepting`, `loaded`).  Each
action conjoins the queue's action with the handler's own change of state:
`Submit` is the last read of the upload together with `Accept`, because there is
no await between them; `Respond` is `Resume` with the counter, the status and the
`finally` clause that removes the file.  `RunReturns` needs the media file to have
been opened, `MediaMissing` is the run that finds it gone.  `EnterStop` is guarded
by what uvicorn does: it resumes `lifespan` only when every handler has finished.

External, modelled from how the code uses it: asyncio's queue, `wait_for` and
event loop (Python 3.12, the Docker image's version), uvicorn's shutdown order,
FastAPI having parsed the form before it calls `infer()`.

### `Lifetimes` (the service over the lives of its process)

Extends `Service` by the state of the `process`, Docker's restart count and what
earlier lives left behind: the requests they had begun (`gone`), those under way at a
kill (`lost`), and the files (`orphans`).  `Live` is a step of the service; `Kill` may
come between any two, and leaves a new process's memory (`Reborn`) and the old one's
files; `Restart` is Docker's; `Finish` is the end of `lifespan`.  A process under
restart has no enabled action of the service, and no request is begun in two lives,
since the client of a lost one is not part of the system.

### `Inference` (app/inference.py, `run_inference` and `split_reasoning`)

One run on the GPU thread: the `asked` budget becomes `Budget` (`max_new_tokens or
settings.max_new_tokens`), `Emit` adds a token to `output` until generate() ends or
the budget is used up, `Return` builds the result.  Text is a sequence of tags, white
space and words, so `split_reasoning` is written with positions where the code has two
regular expressions; `Heard`, which takes the text part by part, is the reference
definition it is compared with.

### `ModelLoad` (app/model.py)

| Variable | In the code |
|---|---|
| `settings`, `machine`, `checkpoint` | what is given: the `Settings` that matter here, what `torch.cuda` says, what the configured source holds.  Never changed |
| `phase` | the next step of `load_model()`, or how it ended: "loaded"; "refused" by a `ModelLoadError` before `_verify()`; "rejected" by `_verify()`; "raised", another exception |
| `placement` | the `Placement` that `resolve_placement()` returns |
| `model` | what the guards can see of the model object: its class and that of its base (the model inside a peft wrapper, or the backbone that transformers calls `base_model`), what its tensors' `numel()` add up to, whether it has a `peft_config`, the devices of its first parameter and of all |

One action is one call that can fail, with an action for its failure.  The guards
exist because torch, transformers, bitsandbytes and peft may not do what they
were asked, so they are modelled as untrusted: `LoadWeights` may return a
model of any class, packed or not whatever the setting says, with its parameters on
any devices of the machine; `AttachAdapter` may put the adapter on any of them, or
return the model without one, which only the guard `HasPeftConfig` finds out.
`AdapterFails` is a missing path, a missing peft or a load that raises.  `CallRaises`
is an exception of one of the calls outside every `try`: `model.to("cpu")`,
`_apply_vision_budget()`, `_warmup()` and the queries that fill the report.

`LoadedAsAsked` claims what the guards establish and no more.  It says nothing of the
dtype, which is not in the model, and nothing of packing, because `_verify()`
(`app/model.py:487`-`519`) asks for neither.

### `Deployment` (lifespan before its yield, docker-compose.yml)

Extends `ModelLoad` by the container's `process`, Docker's restart count and the
number of `loads`.  `Load` is a step of `load_model()` inside `lifespan`; `Yield`
and `Exit` are the two ways on; `Crash` and `Stop` may come at any time; `Restart`
and `StayDown` are Docker's `on-failure:3`.  Docker and uvicorn's exit code are external.

### `LoadTest` (loadtest/load.js)

Extends `Service` by k6: `stage` of the test, the `warm`-up request of `setup()`,
the iterations `fired`, what each virtual user (`vu`) awaits, the counters (`tally`),
the requests whose iterations gracefulStop `cut` off, and those whose 200 came
`garbled`.  `Fire` conjoins the user's step with `BeginUpload`; `ReadAnswer` is the
body of the default function after `fire()` has returned, `ReadGarbled` its branch for
a 200 without a usable body.  A connection may fail before its request is
sent (`ConnectionFails`), or while the body of a 200 is read.  The sample file is small and well-formed, so the steps of
`Service` for other uploads, and its shutdown, have no counterpart here.
`Summary` is the counts that handleSummary() writes; the settings and the load report,
which it copies into the same file, are left out.

`WaitsForOthers` is about the column the benchmark exists for, the queue wait: `Ahead` is
what the worker deals with before it comes to a queued request, and it is fewer than
the users and the timeouts so far together.  So a row of one user has no queue wait
but what a timeout has caused, and the throwaway request of `setup()` has no part in it.

### `Report` (loadtest/render_results.py)

The `Caveats` that render_warnings() draws from the counts of a summary.  `LoadTest`
extends it, so what the report says is compared with what happened.

### `KaggleCheck` (scripts/kaggle_t4_check.py)

Extends `ModelLoad` by the script's `main()`: the test of the GPU and of the
sample image, the load, the comparison of the report, the legs, the exit code.
The report's two strings are modelled as `load_model()` writes them, since a
comparison is about them.

### Model checking and proofs

The `MC...` modules add a symmetry set, the specification without fairness, the
budgets, or the parameter counts of checkpoints in units of 10^8; `LoadTest` needs none.
The `...Proofs` modules hold the theorems.  Definitions commented "Mutant" are variants of a definition of the
model with one plausible bug (a dropped test, a missing `await`, a clean-up in the
wrong place); no specification uses them.  Substituting one for the definition it
varies shows that a property notices that bug.

## What is checked

| Run | Instance | States | Shows |
|---|---|---|---|
| `QueueSafety` | 4 jobs, depth 2 | 476,581 | the invariants (with the types, part of `IInv`) and the action property of the queue, over every interleaving; nobody waits for a step that cannot come; the queue implements `SerialServer` |
| `QueueLiveness` | 3 jobs, depth 1 | 166,945 | every caller is answered, every entry taken and `stop()` returns, the first even if the GPU hangs |
| `ServiceSafety` | 3 requests, depth 1, 1 chunk | 468,532 | files, counters, histograms, `/health` and shutdown agree with what happened to each request, and each status tells it; the service implements the queue's specification |
| `ServiceLiveness` | 2 requests, depth 1, 1 chunk, 1 restart | 52,299 | `Lifetimes`, with `ServiceInv` in every life: every request of every life is answered unless a kill takes it, even if the GPU hangs; files are left by kills only; SIGTERM brings the container down if runs end |
| `Deployment` | 3 checkpoints, 2 adapters, 2 classes, 3 restarts | 1,911,864 | what passes the guards has the class, size, devices and adapter asked for and no healthy load is rejected, through failures, crashes and restarts; the container comes to rest |
| `LoadTest` | 4 requests, 1 user, depth 1 | 683,652 | k6's counters agree with the service's, the report's caveats with both; 503s below the depth come of timeouts, and a queue wait of other users' requests and of timeouts; the sweep ends |
| `Inference` | 5 token kinds and the end of sequence, budgets -1, 0, 1, 4, 6 and none, default 5 | 61,892 | every answer cut at every point is split as its reader would, and `truncated` can be relied on |
| `GaugeHelp`, `RunningJobComment`, `LoadDocstring`, `ThreeAttempts`, `KaggleVerdict` | small | - | what the repository says and the code does not do, see below |

Bounds.  Each request is one member of `Jobs`; the code keeps nothing of a
finished request, so more requests only mean more jobs.  Four jobs at depth 2
allow one job on the GPU, a full queue behind it and a refused fourth, with a
blocked sentinel; with depth 1, three jobs allow a `submit()` to take the place
that a blocked `put(None)` was woken for.  `MaxUpload` counts chunks; with 1 an
upload can be within the cap, at it and over it.  The checkpoints of `Deployment` are
the real one, whose packed form alone would fall below the floor, one exactly at
the floor and one just below it, the last with an adapter that lifts it to the
floor.  `MaxRestarts` is the real 3 there; in `Lifetimes` one restart gives a life
before and a life after a kill, and the second one ends in "down".  Six tokens are enough for a
block closed twice, opened again in the answer, or preceded by a word, with white
space; the budgets lie below, at and above the default.  `Enough` stands
for the 20 samples below which a p95 is called unstable, and is 2, so that it can be
reached and missed.  `LoadTest`: the warm-up and three iterations
of one user at depth 1 are the least in which an abandoned run on the GPU and an
abandoned job in the queue bring about a 503; the same invariants were run through
once with two users at depth 2 (12 million states).  The safety runs of queue and
service use symmetry in the jobs; runs with liveness properties use none.
Deadlock is checked in every run.

Fairness.  `LoopFairness`/`ServerFairness` (of each caller `CallerFairness`/`HandlerFairness`, and the worker's and
`stop()`'s): the event loop runs every ready task
and every due timer, so each loop step that stays enabled is taken (weak
fairness; `COSMOS_REQUEST_TIMEOUT_S` is positive and finite).  It includes the
resumption of a *blocked* `put(None)` but not the call of `stop()`.  A blocked
put is only re-enabled, not kept enabled, when the room is taken by someone
else; weak fairness is enough because only finitely many requests exist, and no
request is accepted during a drain.  There is no fairness for the GPU: what needs
runs to end is stated as "unless a run hangs" (`GpuHangs`), and the properties about
answers, and `SweepEnds`, hold even then.  A client is not assumed to send anything.
`DeployFairness`: a step of `load_model()` ends, lifespan goes on, the Docker daemon
restarts or gives up; nothing has to crash, and nobody has to stop the container.
`FairLives` adds to `ServerFairness` that uvicorn exits once `lifespan` has finished;
a kill may come at any time and never has to, and Docker need not restart in time.
`TestFairness`: event loop and k6 each do something while there is something to do; one
weak fairness condition each is enough, since every request takes finitely many steps.

Where the repository says something else:

* `GaugeHelp`: the help text of `cosmos_queue_depth` is "Requests currently
  waiting for the GPU worker." (`app/metrics.py:56`).  The gauge is `qsize()`, and
  a job whose caller already has its 504 stays in the queue until the worker
  reaches it, so the gauge, and the 503s, count requests nobody waits for.
* `RunningJobComment`: "A job already running will finish and its result is
  discarded." (`app/queue.py:98`).  A job that has been dispatched when its caller
  times out may also fail: the handler's `finally` removes the media file, perhaps
  before the thread has opened it.  `CleanUpUnseen` shows that the only trace is a
  `worker.failed` line in the log.
* `LoadDocstring`: `load_model()` "Raises ModelLoadError on any problem."
  (`app/model.py:370`).  An exception of `model.to("cpu")` (line 411), of the vision
  budget (418) or of the warm-up (428) leaves it as it is, past lifespan's
  `except ModelLoadError`; the process ends all the same, without the printed reason.
* `ThreeAttempts`: "Three attempts, then stay down." (`docker-compose.yml:67`).
  `on-failure:3` restarts three times, so there are four.
* `KaggleVerdict`: "The script exits non-zero and lists problems if any of these
  are wrong" (`docs/KAGGLE.md:143`).  It always does: the report says
  "torch.float16" and "none (full precision weights)" where the script expects
  "float16" and "none".  With these spellings put right the property holds.

Smaller disagreements, which the properties are worded around:

* `truncated` is "True if generation stopped at max_new_tokens rather than at an
  end-of-sequence token" (`app/schemas.py:42`); an answer whose end-of-sequence token
  is the very last one allowed is called truncated too.  `TruncationIsTold` says what
  can be relied on.  The renderer calls all truncated answers cut "mid-reasoning"
  (`render_results.py:200`), also those cut in the answer.
* A `<think>` block with other text before it counts as no block at all
  (`app/inference.py:106` names three cases, and this is a fourth); the text is
  returned whole.
* "no silent fallback to a smaller model, a different device, or a different dtype than
  the one that was asked for" (`app/model.py:4`).  Model and device have guards; the
  dtype has none, nor has packing: `_verify()` reads neither, and the load report prints the
  settings.  That part of the sentence rests on transformers and bitsandbytes alone.
* "the tables cannot be assembled out of mismatched runs" (`render_results.py:13`):
  they can.  `render_hardware()` compares GPU, dtype and quantization
  (`render_results.py:137`), and prints model class, device, attention and parameters
  of the first report uncompared (lines 144-150), so rows that differ in these only stand
  under the first row's values without a warning; so does a summary without a load
  report beside one that has it.  The settings above a table are compared in three
  fields, with a warning.  No property is stated of this: of the fields that are
  compared, the warning is its own definition, and of the others nothing holds.
* An iteration that k6 interrupted has no caveat; `CaveatsTellTheRun` leaves those out.
* The form field `max_new_tokens` is not held to the setting's bound of 8192
  (`app/config.py:59`).

## What is proved

Those about queue and service are for an arbitrary set `Jobs`, finite or not, and any `MaxDepth`
in `Nat \ {0}` (the setting is declared `ge=1`) with `None` not a job; `Service`
adds `MaxUpload \in Nat`.

### `InferenceQueueProofs`

None of the safety properties is inductive alone:
`WorkerSurvives` needs to know that the future of the job being served is pending
or cancelled, which needs that no job is put twice (`PutsInv`), that a job in the
queue has not been started (`UnstartedInv`), and that caller, timer and future
agree (`CallerInv`).  `NoOvertaking` and `StopDrains` speak of entries taken long
ago, so `TakenInv` records that every entry before the latest one is finished with.
Their conjunction with `TypeOK`, `WorkerInv`, `StopInv` and `GaugeTracksDepth` is
`IInv`.  The proof has one lemma per action; the two worker actions share
`TakeNextStep`, which says what one turn of the loop does to each part of `IInv`.

| Theorem | States |
|---|---|
| `Invariance` | `Spec => []IInv` |
| `TypeCorrect` | `TypeOK`: types, and that queue and gauge stay within the depth |
| `WorkerNeverDies`, `OneRunAtATime`, `FuturesAreHeld`, `FirstInFirstServed`, `AnswersAreTrue`, `GaugeIsExact`, `StopIsClean` | each invariant of `QueueSafety` |
| `NoDeadlock` | `NobodyStuck` |
| `AbandonedJobsAreSkipped` | the action property |
| `QueueIsSerialServer` | `Spec => ServerBehaviour` |
| `CallersAreAnswered` | `EveryCallerAnswered`, from `Spec` and what is enabled |
| `RunsAreDelivered`, `WorkerWakesUp` | the two steps of `EveryEntryTaken`, from `Spec` and what is enabled |

`NobodyStuck` is the absence of deadlock as a state predicate: whoever waits in
`submit()` or `stop()` waits for a worker or a thread that can take its next step.
It follows from `IInv` (`WaitsEnd`): a job that is not settled is ahead in the queue
or on the worker, the worker is idle only over an empty queue or before it is
resumed, and a `stop()` that awaits the worker has put a sentinel that the worker
has not taken.  That last fact is a conjunct of `StopInv`.

The refinement: under `IInv`, every step of the queue is a step of `SerialServer`
or a stutter.  The one step with a real argument is a turn of the worker's loop: the
jobs it skips are those whose callers were told "timeout" (`QueuedTold`), the
one it dispatches still waits.

`CallersAreAnswered` is a liveness property.  Each caller needs only the fairness of
its own timer and its own task (`CallerFairness`): while it waits, an expired
timer stays expired, and an expired timer has cancelled or found done the future
(`CallerInv`), so the task is ready.  The prover has no rules for ENABLED, so the one
thing it cannot show is a hypothesis, `DueIsEnabled`: that `Expire` and `Resume` are
enabled when their guards hold.  They are, because their other conjuncts are of the
form `x' = e` or UNCHANGED and give each variable one value, and the step changes
`expired` or `caller`.  TLC has found `DueIsEnabled` true in all reachable states of
an instance, too.  Nothing is assumed of the worker or the GPU.

`RunsAreDelivered` says that a run which does not hang for ever is delivered or found abandoned, and
`WorkerWakesUp` that an idle worker takes the next entry.  Their hypothesis,
`TurnsAreEnabled`, is about `Wake` and `Settle`, in which `TakeNext` chooses how many
abandoned entries it skips; that there always is such a number is proved (`SomeTurn`), and
TLC has found `TurnsAreEnabled` true in all reachable states of an instance.

### `ServiceProofs`

`ServiceImplementsQueue` shows that every step of the service is
a step of `InferenceQueue` or leaves its variables alone; so `IInv` holds inside
the service without being proved again, and by the same step lemma the service is a
`SerialServer`.  `ServiceInv` adds how handler and
caller, lifespan and worker, and handler and file belong together.

| Theorem | States |
|---|---|
| `ServiceImplementsQueue`, `ServiceIsSerialServer` | `ServiceSpec => QueueBehaviour`, `ServiceSpec => ServerBehaviour` |
| `ServiceInvariance` | `ServiceSpec => []ServiceInv` |
| `MediaIsCleanedUp`, `CleanUpIsUnseen`, `HealthIsHonest`, `NobodyIsStranded` | the invariants `NoOrphanMedia`, `CleanUpUnseen`, `HealthHonest`, `ShutdownStrandsNobody` |
| `StatusIsTrue` | `StatusTellsTruth` |
| `NoRequestIsStuck` | `NobodyStuck`, without its exception: no handler's job is behind the sentinel |
| `ServiceTypeCorrect` | `ServiceTypeOK` |
| `CountersAgree`, `RunsAgree` | the counting invariants `CountersReconcile`, `RunsReconcile`: an action adds one request to the counted set exactly when it adds one to the counter, and the set is finite because the counter says so |

`StatusTellsTruth` spans handler, caller, future, thread and file, and is shown by
an invariant of its own, `AnswerInv`, on top of `ServiceInv`: a run that returned had its file
open, a job answered with an error raised, a finished handler's timer is the reason of its 504
and of no other status, and a request never put has left no trace in the queue.

### `LifetimesProofs`

For any number of restarts: a kill establishes `ServiceInv` anew
(`RebornKeepsServiceInv`), everything else is a step of the service.

| Theorem | States |
|---|---|
| `LifeInvariance` | `LifeSpec => []LifeInv` |
| `OnlyTheUnfinishedHaveFiles` | `FilesOfTheUnfinished` |
| `StatusIsTrueInEveryLife` | `LifeSpec => []StatusTellsTruth` |
| `EachLifeIsSerialServer` | a kill opens a new `SerialServer`, every other step is one of its steps or changes nothing it shows |
| `SubmittedAreAnswered` | the part of `AnsweredOrLost` behind `submit()`, from `FairLives` and `AnswerIsEnabled` |

`AnswerIsEnabled` is the hypothesis of `SubmittedAreAnswered`, as `DueIsEnabled` is
above and with the same reason; TLC has found it true in all reachable states of
an instance, too.

### `ModelLoadProofs` and `KaggleProofs`

For any set of checkpoints with an even number of linear
parameters (bitsandbytes packs two to a byte), any adapters, floor and classes, the
wrapper's class not being one of the models' own.  `LoadInv` says what each step of
the pipeline leaves behind.  The guards are right because a set of at most one device
that has the first parameter's is that device alone (`OneDevice`), and because
the corrected count of a packed model is the checkpoint's own (`Halves`, `TrueCount`).
Packing enters through that count only: no theorem says that it is as asked.

| Theorem | States |
|---|---|
| `LoadInvariance` | `LoadSpec => []LoadInv` |
| `LoadedModelIsAsAsked`, `GuardsRaiseNoFalseAlarm` | `LoadedAsAsked`, `NoFalseAlarm` |
| `CheckNeverPasses` | the finding of `KaggleVerdict` for every machine and checkpoint: a check that ends ends with exit code 1 |

`CheckNeverPasses` rests on `LoadInv`: a loaded model's placement has a dtype, so the
report has a spelling of it, and that is never the one the script expects
(`ReportNeverMatches`).

### `DeploymentProofs`

For any number of restarts, reuses the lemmas of the pipeline: a
step of the deployment is a step of `load_model()`, leaves it alone, or begins it anew.

| Theorem | States |
|---|---|
| `DeployInvariance`, `RestartsAreBounded` | `DeployInv`, and that restarts and loads stay within the policy |
| `NoCrashLoop` | each step uses up one of at most 9 * (`MaxRestarts` + 1) |
| `WhatServesWasAskedFor` | `ServesWhatWasAsked` |

`NoCrashLoop` is the safety half of `Settles`: a measure (`StepsLeft`, made of the
restarts, the process and the phase of `load_model()`) is a number and falls with every
step, so no behaviour goes on for ever without coming to rest.  That it rests
in "serving" or "down", and not in between, is left to fairness and to TLC.

### `LoadTestProofs`

For any finite number of users and any number of iterations ("ready"
and "sleeping" being no requests).  `LoadTestUsesService` makes every theorem about the service a
theorem about the service under load.

| Theorem | States |
|---|---|
| `LoadTestUsesService` | `TestSpec => ServiceBehaviour` |
| `TestInvariance` | `TestInv`: which request is whose |
| `SummaryAgrees`, `CaveatsAreTrue` | `SummaryReconciles`, `CaveatsTellTheRun`: each counter is the number of iterations that went to it and are nobody's any more (`SweepInv`), and when the summary is written nobody holds one |
| `RefusalsComeOfTimeouts` | `FullOnlyOfAbandoned`: the requests under way are at most as many as the users (`CrowdInv`), so a queue with a place for each user is full only if it holds one whose caller has been told "timeout" |
| `QueueWaitIsOthers` | `WaitsForOthers`: whatever queue or worker holds is a request under way or one that timed out (`HeldIsOwed`), the request itself among them |

### `InferenceProofs`

For texts of any length, any words and budgets, the default being positive.

| Theorem | States |
|---|---|
| `SplitIsHeard` | for every text, what the regular expressions return is what the reader hears |
| `SplittingIsRight` | `SplitsAsHeard`, for every text a run can produce |
| `AnswersOnlyGrow` | `NothingTakenBack` |
| `TruncationIsHonest` | `TruncationIsTold` |

`Heard` is a recursive function of the text, and the library's induction theorems take an
operator as a parameter, which the provers cannot instantiate.  So each induction is
spelled out once with sets of numbers: a set of numbers that is not empty has a least
one (`LeastNumber`), hence a set that has 0 and with each number the next one has all
(`CountUp`).  `SomebodyListens` shows by it that a function with `Heard`'s recursion
exists, and `HeardUnderstood` that after each part of the text the reader is in
one of four situations (`Understood`): only white space so far, no block, inside a
block, behind one, each with the positions where block and answer begin and end.  The
same positions are what the regular expressions find (`SplitOfUnderstood`), and
they only move to the right as the text grows.

### Only model-checked

The liveness properties `EveryEntryTaken`, `StopReturns`, `DrainEndsTheContainer`, `Settles`
and `SweepEnds`, and the part of `AnsweredOrLost` before `submit()`.  Each needs an
unbounded chain of leads-to steps (one per entry, chunk, restart or iteration), which
is an induction over temporal formulas, and the enabledness of actions with
existentially chosen values; both are beyond the provers.  What such an argument rests
on is proved: for the first two `NoDeadlock`, `RunsAreDelivered` and `WorkerWakesUp`, for
`Settles` `NoCrashLoop`.

## What is not modelled

* Durations: which timer fires first is nondeterministic, so every property holds
  for every timeout and every speed of the GPU.  Bucket contents are left out.
* `/health`, `/metrics` and `/`: they read only; `HealthHonest` is about what
  `/health` would read.  The VRAM gauge mirrors an external value.
* A `TimeoutError` raised by a run itself: `submit()` could not tell it from its
  own timer.  The model assumes there is none.
* Clients that disconnect: Starlette does not cancel the handler of a plain
  request, so they change nothing the model has.
* Settings that pydantic refuses: the process ends before `load_model()`.
* In the benchmark, a disk that fills up or a connection that dies while a request is
  sent or a status other than 200 is read; latencies and percentiles; settings and
  hardware of a summary, and with them the grouping of rows in the report.
* The dtype of a model's tensors, and whatever else of a model no guard reads.
* Requests without end: a blocked `put(None)` could be overtaken by one `submit()` after
  another for ever if requests never ceased.  Runs have finitely many, and the
  service admits none during a drain.
* The text as characters: a tag is one part of it.  A word that contains a tag would
  be split by the code as well, at the tag; a budget that cuts a tag in two (the
  tokenizer has both as single tokens) would leave half of it in the text.
* The count of visual tokens, which reads the processor's output; `vision_pixel_bounds`
  (a minimum, a maximum and a factor); `_resolve_media_kind` (two table lookups), whose
  415 is `Reject`; the layout of the load report and of the rendered tables.
* The components with status `not_modelled` in `PROJECT.json`, each with its reason.

## Plan

The order is that of importance to the running service.

1. `InferenceQueue`, its runs and proofs: done.
2. `Service`, its refinement of the queue and proofs: done.
3. `ModelLoad` and `Deployment`, their runs and proofs: done.
4. `LoadTest` around `Service`, its refinement proof and `TestInvariance`: done.
5. `KaggleCheck`: done.
6. `SerialServer`, and the refinement: done.
7. `Lifetimes` and its proofs; `CountersReconcile` and `RunsReconcile` proved: done.
8. `Report` with `LoadTest`, and `Inference`, with their proofs: done.
9. `SummaryReconciles`, `CaveatsTellTheRun`, `FullOnlyOfAbandoned` and `WaitsForOthers`
   proved: done.
10. Every invariant and action property of the runs proved; `NobodyStuck` and
    `StatusTellsTruth` stated, checked and proved, the latter in every life of a process;
    `EveryCallerAnswered` and the steps of `EveryEntryTaken` from what is
    enabled; the measure of `NoCrashLoop`: done.
11. Next: the steps of the drain (`StopReturns`, `DrainEndsTheContainer`) and of an upload, chunk
    by chunk, as leads-to theorems; a measure for the sweep of `LoadTest`.

What remains of the code is durations, layout and declarations; the reasons are
above.
