------------------------------- MODULE Service -------------------------------
(***************************************************************************)
(* The HTTP service around the queue (app/main.py): the /infer handler     *)
(* with its temporary media file and its counters, the run's access to     *)
(* that file on the GPU thread (app/inference.py), and the lifespan that   *)
(* starts and stops the queue.  Every step is a step of InferenceQueue, or *)
(* leaves the queue alone.                                                 *)
(*                                                                         *)
(* External: uvicorn, which calls the handlers while it accepts requests,  *)
(* lets all of them finish after SIGTERM, and only then resumes lifespan.  *)
(* FastAPI has parsed the whole form before it calls infer(), so reading   *)
(* the upload waits for the local disk and not for the client.             *)
(***************************************************************************)
EXTENDS InferenceQueue

CONSTANT MaxUpload  \* COSMOS_MAX_UPLOAD_MB, in chunks of _UPLOAD_CHUNK bytes

ASSUME UploadAssumption == MaxUpload \in Nat

VARIABLES
  handler,    \* per request, where infer() is, or the status it answered
  written,    \* per request, chunks read from the upload
  disk,       \* the requests whose temporary file exists
  media,      \* per request, what the GPU thread saw of that file
  counted,    \* cosmos_requests_total by terminal status
  observed,   \* the count of the histogram cosmos_generate_seconds
  accepting,  \* uvicorn takes new requests
  loaded      \* app.state.loaded (and app.state.queue) is not None

handlerVars == <<handler, written, disk, counted>>

serviceVars == <<vars, handlerVars, media, observed, accepting, loaded>>

Statuses == {"200", "413", "415", "422", "500", "503", "504"}

(* The status infer() turns each outcome of submit() into. *)
StatusOf(a) ==
  CASE a = "ok" -> "200"
    [] a = "error" -> "500"
    [] a = "full" -> "503"
    [] a = "timeout" -> "504"

(* One type invariant for the module's eight variables. *)
ServiceTypeOK ==
  /\ handler \in [Jobs -> {"new", "reading", "submitted"} \cup Statuses]
  /\ written \in [Jobs -> 0 .. MaxUpload + 1]
  /\ disk \subseteq Jobs
  /\ media \in [Jobs -> {"unread", "open", "missing"}]
  /\ counted \in [Answers -> Nat]
  /\ observed \in Nat
  /\ accepting \in BOOLEAN
  /\ loaded \in BOOLEAN

(* lifespan has loaded the model, started the queue and yielded. *)
ServiceInit ==
  /\ Init
  /\ handler = [r \in Jobs |-> "new"]
  /\ written = [r \in Jobs |-> 0]
  /\ disk = {}
  /\ media = [r \in Jobs |-> "unread"]
  /\ counted = [a \in Answers |-> 0]
  /\ observed = 0
  /\ accepting = TRUE
  /\ loaded = TRUE

Active(r) == handler[r] \in {"reading", "submitted"}

-----------------------------------------------------------------------------
(* infer(), up to submit() *)

(* An empty prompt, or a media kind _resolve_media_kind() does not know. *)
Reject(r) ==
  /\ accepting
  /\ handler[r] = "new"
  /\ \E s \in {"422", "415"} : handler' = [handler EXCEPT ![r] = s]
  /\ UNCHANGED <<vars, written, disk, counted, media, observed, accepting, loaded>>

(* mkstemp(), then suspended in the first read. *)
BeginUpload(r) ==
  /\ accepting
  /\ handler[r] = "new"
  /\ handler' = [handler EXCEPT ![r] = "reading"]
  /\ disk' = disk \cup {r}
  /\ UNCHANGED <<vars, written, counted, media, observed, accepting, loaded>>

\* Mutant: the file of an oversized upload is left behind.
KeepOversized(r) ==
  /\ handler[r] = "reading"
  /\ written' = [written EXCEPT ![r] = @ + 1]
  /\ handler' = IF written'[r] > MaxUpload THEN [handler EXCEPT ![r] = "413"] ELSE handler
  /\ UNCHANGED <<vars, disk, counted, media, observed, accepting, loaded>>

(* A read returns a chunk: it is written, or it is one too many. *)
ReadChunk(r) ==
  /\ handler[r] = "reading"
  /\ written' = [written EXCEPT ![r] = @ + 1]
  /\ IF written'[r] > MaxUpload
     THEN /\ handler' = [handler EXCEPT ![r] = "413"]
          /\ disk' = disk \ {r}
     ELSE UNCHANGED <<handler, disk>>
  /\ UNCHANGED <<vars, counted, media, observed, accepting, loaded>>

(* Reading or writing fails (a full disk): the file is removed, and the     *)
(* exception leaves infer() as a 500 that no counter sees.                  *)
UploadFails(r) ==
  /\ handler[r] = "reading"
  /\ handler' = [handler EXCEPT ![r] = "500"]
  /\ disk' = disk \ {r}
  /\ UNCHANGED <<vars, written, counted, media, observed, accepting, loaded>>

\* Mutant: the file is removed once the job is queued.
SubmitAndUnlink(r) ==
  /\ handler[r] = "reading"
  /\ Accept(r)
  /\ handler' = [handler EXCEPT ![r] = "submitted"]
  /\ disk' = disk \ {r}
  /\ UNCHANGED <<written, counted, media, observed, accepting, loaded>>

(* The read returns nothing more: infer() runs on into submit(), which      *)
(* awaits the future ...                                                    *)
Submit(r) ==
  /\ handler[r] = "reading"
  /\ Accept(r)
  /\ handler' = [handler EXCEPT ![r] = "submitted"]
  /\ UNCHANGED <<written, disk, counted, media, observed, accepting, loaded>>

\* Mutant: the except branch for QueueFullError forgets its counter.
NotCounted(r, a) ==
  /\ handler' = [handler EXCEPT ![r] = StatusOf(a)]
  /\ counted' = IF a = "full" THEN counted ELSE [counted EXCEPT ![a] = @ + 1]
  /\ disk' = disk \ {r}

(* The rest of infer() once submit() has ended with `a`: the counter, the   *)
(* response, and the finally clause that removes the file.                  *)
Reply(r, a) ==
  /\ handler' = [handler EXCEPT ![r] = StatusOf(a)]
  /\ counted' = [counted EXCEPT ![a] = @ + 1]
  /\ disk' = disk \ {r}

(* ... or raises QueueFullError, and infer() runs to its end.               *)
SubmitRefused(r) ==
  /\ handler[r] = "reading"
  /\ Refuse(r)
  /\ Reply(r, "full")
  /\ UNCHANGED <<written, media, observed, accepting, loaded>>

\* Mutant: the handler gives up without cancelling the future.
GiveUp(r) ==
  /\ handler[r] = "submitted"
  /\ caller' = [caller EXCEPT ![r] = "timeout"]
  /\ Reply(r, "timeout")
  /\ UNCHANGED <<future, expired, puts, gets, depthGauge, worker, current, pool, stopper>>
  /\ UNCHANGED <<written, media, observed, accepting, loaded>>

(* submit() returns or raises in the resumed task.                          *)
Respond(r) ==
  /\ handler[r] = "submitted"
  /\ Resume(r)
  /\ Reply(r, Answer(r))
  /\ UNCHANGED <<written, media, observed, accepting, loaded>>

\* Mutant: the timeout covers the wait in the queue only.
TimerFiresQueued(r) ==
  /\ pool[r] = "out"
  /\ Expire(r)
  /\ UNCHANGED <<handlerVars, media, observed, accepting, loaded>>

TimerFires(r) ==
  /\ Expire(r)
  /\ UNCHANGED <<handlerVars, media, observed, accepting, loaded>>

-----------------------------------------------------------------------------
(* The worker, and run_inference() on the GPU thread *)

WorkerWakes ==
  /\ Wake
  /\ UNCHANGED <<handlerVars, media, observed, accepting, loaded>>

\* Mutant: a result nobody waits for is not observed.
SettleDelivered ==
  /\ Settle
  /\ observed' = IF pool[current] = "returned" /\ MayDeliver(current) THEN observed + 1 ELSE observed
  /\ UNCHANGED <<handlerVars, media, accepting, loaded>>

\* Mutant: the worker goes on after a run that returned only.
SettleReturned ==
  /\ Settle
  /\ pool[current] = "returned"
  /\ observed' = observed + 1
  /\ UNCHANGED <<handlerVars, media, accepting, loaded>>

(* _observe() counts every run that returned, delivered or not.             *)
WorkerSettles ==
  /\ Settle
  /\ observed' = IF pool[current] = "returned" THEN observed + 1 ELSE observed
  /\ UNCHANGED <<handlerVars, media, accepting, loaded>>

ThreadStarts(r) ==
  /\ Start(r)
  /\ UNCHANGED <<handlerVars, media, observed, accepting, loaded>>

(* Image.open(), or the video decoder in apply_chat_template().  An open    *)
(* file outlives the removal of its name.                                   *)
OpenMedia(r) ==
  /\ pool[r] = "running"
  /\ media[r] = "unread"
  /\ r \in disk
  /\ media' = [media EXCEPT ![r] = "open"]
  /\ UNCHANGED <<vars, handlerVars, observed, accepting, loaded>>

(* FileNotFoundError, raised out of run_inference().                        *)
MediaMissing(r) ==
  /\ media[r] = "unread"
  /\ r \notin disk
  /\ Raise(r)
  /\ media' = [media EXCEPT ![r] = "missing"]
  /\ UNCHANGED <<handlerVars, observed, accepting, loaded>>

\* Mutant: a file that cannot be opened is left out of the prompt.
ReturnsBlind(r) ==
  /\ Return(r)
  /\ UNCHANGED <<handlerVars, media, observed, accepting, loaded>>

RunReturns(r) ==
  /\ media[r] = "open"
  /\ Return(r)
  /\ UNCHANGED <<handlerVars, media, observed, accepting, loaded>>

(* A file that cannot be decoded, CUDA out of memory, ...                   *)
RunFails(r) ==
  /\ r \in disk \/ media[r] = "open"
  /\ Raise(r)
  /\ UNCHANGED <<handlerVars, media, observed, accepting, loaded>>

-----------------------------------------------------------------------------
(* The end of lifespan *)

(* SIGTERM: uvicorn takes no new request and lets the running ones finish.  *)
BeginDrain ==
  /\ accepting
  /\ accepting' = FALSE
  /\ UNCHANGED <<vars, handlerVars, media, observed, loaded>>

\* Mutant: lifespan stops the queue under the handlers.
EnterStopAtOnce ==
  /\ ~accepting
  /\ stopper = "none"
  /\ PutSentinel \/ BlockOnPut
  /\ UNCHANGED <<handlerVars, media, observed, accepting, loaded>>

(* lifespan resumes behind its yield and runs into stop().                  *)
EnterStop ==
  /\ ~accepting
  /\ \A r \in Jobs : ~Active(r)
  /\ stopper = "none"
  /\ PutSentinel \/ BlockOnPut
  /\ UNCHANGED <<handlerVars, media, observed, accepting, loaded>>

PutResumes ==
  /\ stopper = "putting"
  /\ PutSentinel
  /\ UNCHANGED <<handlerVars, media, observed, accepting, loaded>>

\* Mutant: app.state is left as it was.
LeaveUncleared ==
  /\ Join
  /\ UNCHANGED <<handlerVars, media, observed, accepting, loaded>>

(* stop() returns and app.state is cleared.                                 *)
Leave ==
  /\ Join
  /\ loaded' = FALSE
  /\ UNCHANGED <<handlerVars, media, observed, accepting>>

(* The process has nothing left to do.                                      *)
Down ==
  /\ stopper = "done"
  /\ UNCHANGED serviceVars

ServiceNext ==
  \/ \E r \in Jobs :
       \/ Reject(r)
       \/ BeginUpload(r)
       \/ ReadChunk(r)
       \/ UploadFails(r)
       \/ Submit(r)
       \/ SubmitRefused(r)
       \/ Respond(r)
       \/ TimerFires(r)
       \/ ThreadStarts(r)
       \/ OpenMedia(r)
       \/ MediaMissing(r)
       \/ RunReturns(r)
       \/ RunFails(r)
  \/ WorkerWakes
  \/ WorkerSettles
  \/ BeginDrain
  \/ EnterStop
  \/ PutResumes
  \/ Leave
  \/ Down

(* The event loop and the disk: a handler that reads goes on, timers fire,   *)
(* resumed tasks run, and the drained server calls stop().                   *)
HandlerFairness(r) ==
  /\ WF_serviceVars(ReadChunk(r) \/ UploadFails(r) \/ Submit(r) \/ SubmitRefused(r))
  /\ WF_serviceVars(TimerFires(r))
  /\ WF_serviceVars(Respond(r))

HandlersFairness == \A r \in Jobs : HandlerFairness(r)

ServerFairness ==
  /\ HandlersFairness
  /\ WF_serviceVars(WorkerWakes)
  /\ WF_serviceVars(WorkerSettles)
  /\ WF_serviceVars(EnterStop)
  /\ WF_serviceVars(PutResumes)
  /\ WF_serviceVars(Leave)

ServiceSpec == ServiceInit /\ [][ServiceNext]_serviceVars

-----------------------------------------------------------------------------
(* Safety *)

(* The temporary file exists exactly while its handler is at work: none of   *)
(* the ways out of _save_upload() and infer() leaves one behind, and none    *)
(* removes it early.                                                         *)
NoOrphanMedia == disk = {r \in Jobs : Active(r)}

(* A run fails on a removed file only if its caller has given up: no client  *)
(* is ever told of the clean-up of its own request.                          *)
CleanUpUnseen ==
  \A r \in Jobs : media[r] = "missing" => expired[r] /\ handler[r] # "500"

(* The queue has never seen the request.                                     *)
Untouched(r) == pool[r] = "out" /\ \A i \in 1 .. Len(puts) : puts[i] # r

(* The status a client sees tells what became of its request, end to end:    *)
(* 200 only after a run that read the client's own file, 504 exactly if the  *)
(* timer fired, 500 only after a run that raised or an upload that failed,   *)
(* and the refusals only if the job was never put into the queue.            *)
StatusTellsTruth ==
  \A r \in Jobs :
    /\ handler[r] = "200" => pool[r] = "returned" /\ media[r] = "open"
    /\ handler[r] \in Statuses => (handler[r] = "504" <=> expired[r])
    /\ handler[r] = "500" => pool[r] = "raised" \/ Untouched(r)
    /\ handler[r] \in {"413", "415", "422", "503"} => Untouched(r)

(* cosmos_requests_total has each answer of submit() once, under the status  *)
(* the client saw, and no answer is left over.                               *)
CountersReconcile ==
  \A a \in Answers :
    /\ {r \in Jobs : caller[r] = a} \subseteq {r \in Jobs : handler[r] = StatusOf(a)}
    /\ counted[a] = Cardinality({r \in Jobs : caller[r] = a})

(* The histograms count the finished runs, also those whose caller is gone:  *)
(* they exceed the "ok" counter by the abandoned and the undelivered ones.   *)
RunsReconcile ==
  observed = counted["ok"]
             + Cardinality({r \in Jobs : /\ pool[r] = "returned"
                                         /\ caller[r] # "ok"
                                         /\ ~(worker = "serving" /\ current = r)})

(* While app.state shows a loaded model, its worker is running, but for the  *)
(* moments in which lifespan is inside stop().                               *)
HealthHonest == loaded => worker \in {"idle", "serving"} \/ stopper = "joining"

(* The shutdown strands nobody: the sentinel is the last entry ever put, and *)
(* from then on no handler waits for anything.                               *)
ShutdownStrandsNobody ==
  stopper # "none" =>
    /\ \A r \in Jobs : ~Active(r) /\ future[r] # "pending"
    /\ \A i \in 1 .. Len(puts) : puts[i] = None => i = Len(puts)

-----------------------------------------------------------------------------
(* The inductive invariant: IInv of the queue, and what ties each handler,   *)
(* and the lifespan, to it.                                                  *)

(* A handler awaits submit() exactly while submit() waits, and has answered  *)
(* what submit() ended with; a run whose file was missing had lost its       *)
(* caller to the timeout.                                                    *)
HandlerInv ==
  \A r \in Jobs :
    /\ media[r] = "missing" => caller[r] = "timeout"
    /\ handler[r] = "submitted" <=> caller[r] = "waiting"
    /\ handler[r] \in {"new", "reading"} => caller[r] = "idle" /\ written[r] <= MaxUpload
    /\ \A a \in Answers : caller[r] = a => handler[r] = StatusOf(a)

(* A handler that never called submit() has answered by itself, a timer that *)
(* fired too late changed no answer, and a run returns only if it has read   *)
(* its file.  Inductive on top of ServiceInv.                                *)
AnswerInv ==
  \A r \in Jobs :
    /\ caller[r] = "idle" => handler[r] \notin {"submitted", "200", "503", "504"}
    /\ caller[r] \in {"ok", "error"} => ~expired[r]
    /\ pool[r] \in {"out", "submitted"} => media[r] = "unread"
    /\ pool[r] = "returned" => media[r] = "open"

(* stop() is entered only when no handler is left and none can begin.        *)
LifespanInv ==
  /\ stopper # "none" => ~accepting /\ \A r \in Jobs : ~Active(r)
  /\ loaded <=> stopper # "done"
  /\ \A i \in 1 .. Len(puts) : puts[i] = None => i = Len(puts)

ServiceInv ==
  /\ ServiceTypeOK
  /\ IInv
  /\ HandlerInv
  /\ LifespanInv
  /\ NoOrphanMedia

-----------------------------------------------------------------------------
(* The comment in submit() (app/queue.py): "A job already running will       *)
(* finish and its result is discarded."  It fails instead of finishing when  *)
(* the finally clause of its timed-out handler has removed its file.         *)
RunningJobFinishes == \A r \in Jobs : media[r] # "missing"

-----------------------------------------------------------------------------
(* The abstract view *)

(* Seen through the variables of the queue, the service is a client that     *)
(* uses it as InferenceQueue says.                                           *)
QueueBehaviour == Init /\ [][Next]_vars

=============================================================================
