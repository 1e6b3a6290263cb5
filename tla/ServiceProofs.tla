---------------------------- MODULE ServiceProofs ----------------------------
(***************************************************************************)
(* The service uses the queue as InferenceQueue says, so every invariant   *)
(* of the queue holds in it; and what ties handlers, temporary files and   *)
(* lifespan to the queue, for any number of requests and any bounds.       *)
(***************************************************************************)
EXTENDS Service, InferenceQueueProofs, FiniteSetTheorems

-----------------------------------------------------------------------------
(* Refinement *)

(* Every step of the service is a step of the queue or leaves it unchanged.  *)
LEMMA ServiceStepIsQueueStep == [ServiceNext]_serviceVars => [Next]_vars
<1>1. ASSUME NEW r \in Jobs, Reject(r) \/ BeginUpload(r) \/ ReadChunk(r) \/ UploadFails(r) \/ OpenMedia(r)
      PROVE  UNCHANGED vars
  BY <1>1 DEF Reject, BeginUpload, ReadChunk, UploadFails, OpenMedia
<1>2. ASSUME NEW r \in Jobs, Submit(r) \/ SubmitRefused(r) \/ Respond(r) \/ TimerFires(r)
      PROVE  Accept(r) \/ Refuse(r) \/ Resume(r) \/ Expire(r)
  BY <1>2 DEF Submit, SubmitRefused, Respond, TimerFires
<1>3. ASSUME NEW r \in Jobs, ThreadStarts(r) \/ MediaMissing(r) \/ RunReturns(r) \/ RunFails(r)
      PROVE  Start(r) \/ Raise(r) \/ Return(r)
  BY <1>3 DEF ThreadStarts, MediaMissing, RunReturns, RunFails
<1>4. WorkerWakes \/ WorkerSettles => Wake \/ Settle
  BY DEF WorkerWakes, WorkerSettles
<1>5. EnterStop \/ PutResumes \/ Leave => PutSentinel \/ BlockOnPut \/ Join
  BY DEF EnterStop, PutResumes, Leave
<1>6. BeginDrain \/ Down \/ UNCHANGED serviceVars => UNCHANGED vars
  BY DEF BeginDrain, Down, serviceVars
<1>7. QED
  BY <1>1, <1>2, <1>3, <1>4, <1>5, <1>6 DEF ServiceNext, Next

(* The handlers, the GPU thread and the lifespan together are a client that  *)
(* uses the queue only in the ways InferenceQueue allows.                    *)
THEOREM ServiceImplementsQueue == ServiceSpec => QueueBehaviour
<1>1. ServiceInit => Init
  BY DEF ServiceInit
<1>2. [ServiceNext]_serviceVars => [Next]_vars
  BY ServiceStepIsQueueStep
<1>3. QED
  BY <1>1, <1>2, PTL DEF ServiceSpec, QueueBehaviour

(* Through the two refinements: a client of the whole service, with its      *)
(* uploads, timeouts, failing runs and its shutdown, is one of the customers *)
(* of a serial server.                                                       *)
THEOREM ServiceIsSerialServer == ServiceSpec => ServerBehaviour
BY ServiceImplementsQueue, StepsOfSerialServer, PTL DEF QueueBehaviour

-----------------------------------------------------------------------------
(* Handlers, files and lifespan *)

(* The part of ServiceInv that is not the queue's own.                       *)
OwnInv == ServiceTypeOK /\ HandlerInv /\ LifespanInv /\ NoOrphanMedia

(* Up to submit() a handler has no caller in the queue; a file it creates is *)
(* the file of an active handler, and every early way out removes it.        *)
LEMMA UploadKeepsOwnInv ==
  ASSUME ServiceInv, NEW r \in Jobs, Reject(r) \/ BeginUpload(r) \/ ReadChunk(r) \/ UploadFails(r)
  PROVE  OwnInv'
<1> USE DEF ServiceInv
<1>1. /\ UNCHANGED <<vars, counted, media, observed, accepting, loaded>>
      /\ \E s \in {"reading", "413", "415", "422", "500"} : handler' = [handler EXCEPT ![r] = s]
      /\ handler[r] \in {"new", "reading"}
      /\ accepting \/ Active(r)
  BY DEF Reject, BeginUpload, ReadChunk, UploadFails, Active, ServiceTypeOK
<1>2. PICK s \in {"reading", "413", "415", "422", "500"} : handler' = [handler EXCEPT ![r] = s]
  BY <1>1
<1>3. caller[r] = "idle" /\ written[r] <= MaxUpload /\ stopper = "none"
  BY <1>1 DEF HandlerInv, LifespanInv, IInv, TypeOK
<1>4. ServiceTypeOK'
  <2>1. written' \in [Jobs -> 0 .. MaxUpload + 1]
    BY <1>3, UploadAssumption
    DEF ServiceTypeOK, Reject, BeginUpload, ReadChunk, UploadFails
  <2>2. disk' \subseteq Jobs
    BY DEF ServiceTypeOK, Reject, BeginUpload, ReadChunk, UploadFails
  <2>3. QED
    BY <1>1, <1>2, <2>1, <2>2 DEF ServiceTypeOK, Statuses
<1>5. HandlerInv'
  <2>1. \A q \in Jobs : handler'[q] \in {"new", "reading"} => written'[q] <= MaxUpload
    <3>1. CASE ReadChunk(r)
      <4>1. /\ written' = [written EXCEPT ![r] = @ + 1]
            /\ written'[r] > MaxUpload => handler'[r] = "413"
        BY <3>1, <1>2 DEF ReadChunk, ServiceTypeOK
      <4>2. written'[r] \in Nat
        BY <4>1, UploadAssumption DEF ServiceTypeOK
      <4>3. \A q \in Jobs : q # r => handler'[q] = handler[q] /\ written'[q] = written[q]
        BY <4>1, <1>2 DEF ServiceTypeOK
      <4>4. QED
        BY <4>1, <4>2, <4>3, UploadAssumption DEF HandlerInv
    <3>2. CASE Reject(r) \/ BeginUpload(r) \/ UploadFails(r)
      <4>1. written' = written
        BY <3>2 DEF Reject, BeginUpload, UploadFails
      <4>2. QED
        BY <4>1, <1>2, <1>3 DEF HandlerInv, ServiceTypeOK
    <3>3. QED
      BY <3>1, <3>2
  <2>2. QED
    BY <1>1, <1>2, <1>3, <2>1 DEF HandlerInv, ServiceTypeOK, vars, Answers
<1>6. LifespanInv'
  BY <1>1, <1>3 DEF LifespanInv, vars
<1>7. NoOrphanMedia'
  <2>1. disk' = IF s = "reading" THEN disk \cup {r} ELSE disk \ {r}
    BY <1>1, <1>2
    DEF NoOrphanMedia, Active, ServiceTypeOK, Reject, BeginUpload, ReadChunk, UploadFails
  <2>2. QED
    BY <1>2, <2>1 DEF NoOrphanMedia, Active, ServiceTypeOK
<1>8. QED
  BY <1>4, <1>5, <1>6, <1>7 DEF OwnInv

(* submit(), its timer and its answer move the handler along with the        *)
(* caller; the answer removes the file in the same step.                     *)
LEMMA SubmitKeepsOwnInv ==
  ASSUME ServiceInv, NEW r \in Jobs, Submit(r) \/ SubmitRefused(r) \/ Respond(r) \/ TimerFires(r)
  PROVE  OwnInv'
<1> USE DEF ServiceInv
<1>1. UNCHANGED <<media, written, observed, accepting, loaded, stopper>>
  BY DEF Submit, SubmitRefused, Respond, TimerFires, Accept, Refuse, Resume, Expire, handlerVars
<1>2. CASE Submit(r)
  <2>1. /\ handler' = [handler EXCEPT ![r] = "submitted"] /\ disk' = disk /\ counted' = counted
        /\ caller' = [caller EXCEPT ![r] = "waiting"] /\ caller[r] = "idle"
        /\ puts' = Append(puts, r) /\ stopper = "none" /\ handler[r] = "reading"
    BY <1>2 DEF Submit, Accept, LifespanInv, Active, IInv, TypeOK
  <2>2. ServiceTypeOK'
    BY <1>1, <2>1 DEF ServiceTypeOK
  <2>3. HandlerInv'
    BY <1>1, <2>1 DEF HandlerInv, ServiceTypeOK, Answers, IInv, TypeOK
  <2>4. LifespanInv'
    <3>1. \A i \in 1 .. Len(puts) : puts[i] # None
      BY <2>1 DEF IInv, StopInv
    <3>2. \A i \in 1 .. Len(puts') : puts'[i] # None
      BY <2>1, <3>1, PutEntry, QueueAssumption DEF IInv, TypeOK, Entry
    <3>3. QED
      BY <1>1, <2>1, <3>2 DEF LifespanInv
  <2>5. NoOrphanMedia'
    BY <2>1 DEF NoOrphanMedia, Active, ServiceTypeOK
  <2>6. QED
    BY <2>2, <2>3, <2>4, <2>5 DEF OwnInv
<1>3. CASE SubmitRefused(r) \/ Respond(r)
  <2>1. PICK a \in Answers :
          /\ Reply(r, a) /\ caller' = [caller EXCEPT ![r] = a] /\ UNCHANGED puts
          /\ caller[r] \in {"idle", "waiting"}
    BY <1>3 DEF SubmitRefused, Respond, Refuse, Resume, Answer, Answers
  <2>2. /\ handler' = [handler EXCEPT ![r] = StatusOf(a)] /\ disk' = disk \ {r}
        /\ counted' = [counted EXCEPT ![a] = @ + 1]
        /\ StatusOf(a) \in {"200", "500", "503", "504"}
    BY <2>1 DEF Reply, StatusOf, Answers
  <2>3. ServiceTypeOK'
    BY <1>1, <2>1, <2>2 DEF ServiceTypeOK, Statuses
  <2>4. HandlerInv'
    <3>1. media[r] # "missing"
      BY <2>1 DEF HandlerInv
    <3>2. QED
      BY <1>1, <2>1, <2>2, <3>1 DEF HandlerInv, ServiceTypeOK, Answers, IInv, TypeOK
  <2>5. LifespanInv'
    BY <1>1, <2>1, <2>2 DEF LifespanInv, Active, ServiceTypeOK
  <2>6. NoOrphanMedia'
    BY <2>2 DEF NoOrphanMedia, Active, ServiceTypeOK
  <2>7. QED
    BY <2>3, <2>4, <2>5, <2>6 DEF OwnInv
<1>4. CASE TimerFires(r)
  BY <1>1, <1>4
  DEF TimerFires, Expire, handlerVars, OwnInv, ServiceTypeOK, HandlerInv, LifespanInv,
      NoOrphanMedia, Active
<1>5. QED
  BY <1>2, <1>3, <1>4

(* A run that misses its file belongs to a caller that has its timeout: the  *)
(* run is not settled yet, so its handler waits or has timed out, and a      *)
(* waiting handler still has its file.                                       *)
LEMMA MissingMeansTimedOut ==
  ASSUME ServiceInv, NEW r \in Jobs, MediaMissing(r)
  PROVE  caller[r] = "timeout"
<1> USE DEF ServiceInv
<1>1. pool[r] = "running" /\ r \notin disk
  BY DEF MediaMissing, Raise
<1>2. future[r] # "none"
  BY <1>1 DEF IInv, UnstartedInv
<1>3. future[r] \in {"pending", "cancelled"}
  BY <1>1, <1>2, Whereabouts DEF DealtWith
<1>4. caller[r] \in {"waiting", "timeout"}
  BY <1>3 DEF IInv, CallerInv, TypeOK, Answers
<1>5. handler[r] # "submitted"
  BY <1>1 DEF NoOrphanMedia, Active
<1>6. QED
  BY <1>4, <1>5 DEF HandlerInv

(* The worker and the GPU thread leave handlers and files alone.             *)
LEMMA RunKeepsOwnInv ==
  ASSUME ServiceInv,
         \/ WorkerWakes
         \/ WorkerSettles
         \/ \E r \in Jobs : \/ ThreadStarts(r) \/ OpenMedia(r) \/ MediaMissing(r)
                            \/ RunReturns(r) \/ RunFails(r)
  PROVE  OwnInv'
<1> USE DEF ServiceInv
<1>1. UNCHANGED <<caller, puts, stopper, handler, written, disk, counted, accepting, loaded>>
  BY DEF WorkerWakes, WorkerSettles, ThreadStarts, OpenMedia, MediaMissing, RunReturns, RunFails,
         Wake, Settle, Start, Return, Raise, loopVars, vars, handlerVars
<1>2. \/ UNCHANGED media
      \/ \E r \in Jobs : OpenMedia(r) \/ MediaMissing(r)
  BY DEF WorkerWakes, WorkerSettles, ThreadStarts, RunReturns, RunFails
<1>3. ServiceTypeOK'
  <2>1. observed' \in Nat
    BY DEF WorkerWakes, WorkerSettles, ThreadStarts, OpenMedia, MediaMissing, RunReturns, RunFails,
           ServiceTypeOK
  <2>2. media' \in [Jobs -> {"unread", "open", "missing"}]
    BY <1>2 DEF OpenMedia, MediaMissing, ServiceTypeOK
  <2>3. QED
    BY <1>1, <2>1, <2>2 DEF ServiceTypeOK
<1>4. HandlerInv'
  <2>1. ASSUME NEW r \in Jobs, media'[r] = "missing" PROVE caller[r] = "timeout"
    <3>1. media[r] = "missing" \/ MediaMissing(r)
      BY <1>2, <2>1 DEF OpenMedia, MediaMissing, ServiceTypeOK
    <3>2. QED
      BY <3>1, MissingMeansTimedOut DEF HandlerInv
  <2>2. QED
    BY <1>1, <2>1 DEF HandlerInv
<1>5. LifespanInv' /\ NoOrphanMedia'
  BY <1>1 DEF LifespanInv, NoOrphanMedia, Active
<1>6. QED
  BY <1>3, <1>4, <1>5 DEF OwnInv

(* The shutdown leaves the handlers alone; the sentinel is put when none is  *)
(* left, behind jobs only.                                                   *)
LEMMA ShutdownKeepsOwnInv ==
  ASSUME ServiceInv, BeginDrain \/ EnterStop \/ PutResumes \/ Leave \/ UNCHANGED serviceVars
  PROVE  OwnInv'
<1> USE DEF ServiceInv
<1>1. UNCHANGED <<caller, handler, written, disk, counted, media, observed>>
  BY DEF BeginDrain, EnterStop, PutResumes, Leave, PutSentinel, BlockOnPut, Join, vars,
         handlerVars, serviceVars
<1>2. /\ accepting' \in {FALSE, accepting}
      /\ loaded' \in {FALSE, loaded}
  BY DEF BeginDrain, EnterStop, PutResumes, Leave, serviceVars
<1>3. ServiceTypeOK' /\ HandlerInv' /\ NoOrphanMedia'
  BY <1>1, <1>2 DEF ServiceTypeOK, HandlerInv, NoOrphanMedia, Active
<1>4. LifespanInv'
  <2>1. stopper' # "none" => ~accepting' /\ \A r \in Jobs : ~Active(r)'
    BY <1>1, <1>2
    DEF LifespanInv, Active, BeginDrain, EnterStop, PutResumes, Leave, PutSentinel, BlockOnPut,
        Join, vars, serviceVars
  <2>2. loaded' <=> stopper' # "done"
    BY DEF LifespanInv, BeginDrain, EnterStop, PutResumes, Leave, PutSentinel, BlockOnPut, Join,
           vars, serviceVars
  <2>3. \A i \in 1 .. Len(puts') : puts'[i] = None => i = Len(puts')
    <3>1. CASE PutSentinel
      <4>1. \A i \in 1 .. Len(puts) : puts[i] # None
        BY <3>1 DEF PutSentinel, IInv, StopInv
      <4>2. QED
        BY <3>1, <4>1, PutEntry DEF PutSentinel, IInv, TypeOK, Entry
    <3>2. CASE UNCHANGED puts
      BY <3>2 DEF LifespanInv
    <3>3. QED
      BY <3>1, <3>2
      DEF BeginDrain, EnterStop, PutResumes, Leave, BlockOnPut, Join, vars, serviceVars
  <2>4. QED
    BY <2>1, <2>2, <2>3 DEF LifespanInv
<1>5. QED
  BY <1>3, <1>4 DEF OwnInv

-----------------------------------------------------------------------------
(* The inductive invariant *)

(* When lifespan yields there is no request, no file and no sentinel.        *)
LEMMA ServiceInitInv == ServiceInit => ServiceInv
<1> SUFFICES ASSUME ServiceInit PROVE ServiceInv
  OBVIOUS
<1>1. IInv
  BY InitIInv DEF ServiceInit
<1>2. ServiceTypeOK
  BY UploadAssumption DEF ServiceInit, ServiceTypeOK
<1>3. HandlerInv /\ NoOrphanMedia
  BY UploadAssumption DEF ServiceInit, Init, HandlerInv, NoOrphanMedia, Active, Answers
<1>4. LifespanInv
  <2>1. stopper = "none" /\ loaded
    BY DEF ServiceInit, Init
  <2>2. \A i \in 1 .. Len(puts) : puts[i] = None => i = Len(puts)
    BY DEF ServiceInit, Init
  <2>3. QED
    BY <2>1, <2>2 DEF LifespanInv
<1>5. QED
  BY <1>1, <1>2, <1>3, <1>4 DEF ServiceInv

(* Every step of the service keeps ServiceInv.                               *)
LEMMA ServiceNextKeepsInv == ServiceInv /\ [ServiceNext]_serviceVars => ServiceInv'
<1> SUFFICES ASSUME ServiceInv, [ServiceNext]_serviceVars PROVE ServiceInv'
  OBVIOUS
<1>1. IInv'
  BY ServiceStepIsQueueStep, NextKeepsIInv DEF ServiceInv
<1>2. OwnInv'
  <2>1. ASSUME NEW r \in Jobs, Reject(r) \/ BeginUpload(r) \/ ReadChunk(r) \/ UploadFails(r)
        PROVE  OwnInv'
    BY <2>1, UploadKeepsOwnInv
  <2>2. ASSUME NEW r \in Jobs, Submit(r) \/ SubmitRefused(r) \/ Respond(r) \/ TimerFires(r)
        PROVE  OwnInv'
    BY <2>2, SubmitKeepsOwnInv
  <2>3. ASSUME NEW r \in Jobs, \/ ThreadStarts(r) \/ OpenMedia(r) \/ MediaMissing(r)
                               \/ RunReturns(r) \/ RunFails(r)
        PROVE  OwnInv'
    BY <2>3, RunKeepsOwnInv
  <2>4. CASE WorkerWakes \/ WorkerSettles
    BY <2>4, RunKeepsOwnInv
  <2>5. CASE BeginDrain \/ EnterStop \/ PutResumes \/ Leave \/ Down \/ UNCHANGED serviceVars
    BY <2>5, ShutdownKeepsOwnInv DEF Down
  <2>6. QED
    BY <2>1, <2>2, <2>3, <2>4, <2>5 DEF ServiceNext
<1>3. QED
  BY <1>1, <1>2 DEF ServiceInv, OwnInv

(* ServiceInv holds in every reachable state of the service.                 *)
THEOREM ServiceInvariance == ServiceSpec => []ServiceInv
<1>1. ServiceInit => ServiceInv
  BY ServiceInitInv
<1>2. ServiceInv /\ [ServiceNext]_serviceVars => ServiceInv'
  BY ServiceNextKeepsInv
<1>3. QED
  BY <1>1, <1>2, PTL DEF ServiceSpec

(* No way through _save_upload() and infer() leaves a temporary file behind, *)
(* and none removes the file of a request that is still being served.        *)
THEOREM MediaIsCleanedUp == ServiceSpec => []NoOrphanMedia
<1>1. ServiceInv => NoOrphanMedia
  BY DEF ServiceInv
<1>2. QED
  BY <1>1, ServiceInvariance, PTL

(* The clean-up of a timed-out request may fail its run, but no client sees  *)
(* that failure.                                                             *)
THEOREM CleanUpIsUnseen == ServiceSpec => []CleanUpUnseen
<1>1. ASSUME ServiceInv, NEW r \in Jobs, media[r] = "missing"
      PROVE  expired[r] /\ handler[r] # "500"
  <2>1. caller[r] = "timeout"
    BY <1>1 DEF ServiceInv, HandlerInv
  <2>2. expired[r]
    BY <1>1, <2>1 DEF ServiceInv, IInv, CallerInv
  <2>3. handler[r] = "504"
    BY <1>1, <2>1 DEF ServiceInv, HandlerInv, StatusOf, Answers
  <2>4. QED
    BY <2>2, <2>3
<1>2. ServiceInv => CleanUpUnseen
  BY <1>1 DEF CleanUpUnseen
<1>3. QED
  BY <1>2, ServiceInvariance, PTL

(* app.state shows a loaded model only while its worker runs or lifespan is  *)
(* inside stop().                                                            *)
THEOREM HealthIsHonest == ServiceSpec => []HealthHonest
<1>1. ASSUME ServiceInv, loaded PROVE worker \in {"idle", "serving"} \/ stopper = "joining"
  <2>1. stopper # "done"
    BY <1>1 DEF ServiceInv, LifespanInv
  <2>2. CASE stopper \in {"none", "putting"}
    <3>1. worker # "stopped"
      BY <1>1, <2>2 DEF ServiceInv, IInv, StopInv, WorkerInv, TypeOK
    <3>2. QED
      BY <1>1, <3>1 DEF ServiceInv, IInv, WorkerInv, TypeOK
  <2>3. QED
    BY <1>1, <2>1, <2>2 DEF ServiceInv, IInv, TypeOK
<1>2. ServiceInv => HealthHonest
  BY <1>1 DEF HealthHonest
<1>3. QED
  BY <1>2, ServiceInvariance, PTL

(* Once stop() has been entered no request waits, and no job is queued       *)
(* behind the sentinel.                                                      *)
THEOREM NobodyIsStranded == ServiceSpec => []ShutdownStrandsNobody
<1>1. ASSUME ServiceInv, stopper # "none", NEW r \in Jobs
      PROVE  ~Active(r) /\ future[r] # "pending"
  <2>1. ~Active(r)
    BY <1>1 DEF ServiceInv, LifespanInv
  <2>2. caller[r] # "waiting"
    BY <1>1, <2>1 DEF ServiceInv, HandlerInv, Active
  <2>3. QED
    BY <1>1, <2>1, <2>2 DEF ServiceInv, IInv, CallerInv
<1>2. ServiceInv => ShutdownStrandsNobody
  BY <1>1 DEF ShutdownStrandsNobody, ServiceInv, LifespanInv
<1>3. QED
  BY <1>2, ServiceInvariance, PTL

(* In the service even the exception falls away: no handler's job is behind  *)
(* the sentinel, so each handler inside submit() can be resumed, or waits    *)
(* for a worker that can move; and stop() never waits for anything else.     *)
THEOREM NoRequestIsStuck ==
  ServiceSpec => [](/\ NobodyStuck
                    /\ \A r \in Jobs : handler[r] = "submitted" =>
                         future[r] # "pending" \/ WorkerCanMove)
<1>1. ASSUME ServiceInv, NEW r \in Jobs, handler[r] = "submitted", future[r] = "pending"
      PROVE  WorkerCanMove
  <2>1. stopper = "none"
    BY <1>1 DEF ServiceInv, LifespanInv, Active
  <2>2. \A i \in 1 .. gets : puts[i] # None
    BY <2>1, <1>1 DEF ServiceInv, IInv, TypeOK, StopInv
  <2>3. QED
    BY <1>1, <2>2, WaitsEnd DEF ServiceInv, NobodyStuck
<1>2. ServiceInv => /\ NobodyStuck
                    /\ \A r \in Jobs : handler[r] = "submitted" =>
                         future[r] # "pending" \/ WorkerCanMove
  BY <1>1, WaitsEnd DEF ServiceInv
<1>3. QED
  BY <1>2, ServiceInvariance, PTL

(* The types of the service's variables, and the bound on an upload.         *)
THEOREM ServiceTypeCorrect == ServiceSpec => []ServiceTypeOK
<1>1. ServiceInv => ServiceTypeOK
  BY DEF ServiceInv
<1>2. QED
  BY <1>1, ServiceInvariance, PTL

-----------------------------------------------------------------------------
(* The statuses *)

(* What handlers, callers and timers do keeps AnswerInv: an answer of the    *)
(* queue is given in the step that ends submit(), by a timer that has fired  *)
(* or has not.                                                               *)
LEMMA HandlersKeepAnswerInv ==
  ASSUME ServiceInv, AnswerInv, NEW r \in Jobs,
         \/ Reject(r) \/ BeginUpload(r) \/ ReadChunk(r) \/ UploadFails(r)
         \/ Submit(r) \/ SubmitRefused(r) \/ Respond(r) \/ TimerFires(r)
  PROVE  AnswerInv'
<1> USE DEF ServiceInv
<1>1. CASE Reject(r) \/ BeginUpload(r) \/ ReadChunk(r) \/ UploadFails(r)
  <2>1. /\ UNCHANGED <<vars, media>>
        /\ \E s \in {"reading", "413", "415", "422", "500"} :
             handler' \in {handler, [handler EXCEPT ![r] = s]}
    BY <1>1 DEF Reject, BeginUpload, ReadChunk, UploadFails
  <2>2. QED
    BY <2>1 DEF AnswerInv, vars, ServiceTypeOK
<1>2. CASE Submit(r)
  <2>1. /\ caller' = [caller EXCEPT ![r] = "waiting"]
        /\ handler' = [handler EXCEPT ![r] = "submitted"]
        /\ UNCHANGED <<expired, pool, media>>
    BY <1>2 DEF Submit, Accept
  <2>2. QED
    BY <2>1 DEF AnswerInv, ServiceTypeOK, IInv, TypeOK
<1>3. CASE SubmitRefused(r) \/ Respond(r)
  <2>1. PICK a \in Answers :
          /\ caller' = [caller EXCEPT ![r] = a]
          /\ a \in {"ok", "error"} => ~expired[r]
          /\ handler' = [handler EXCEPT ![r] = StatusOf(a)]
          /\ UNCHANGED <<expired, pool, media>>
    BY <1>3 DEF SubmitRefused, Respond, Refuse, Resume, Reply, Answer, Answers
  <2>2. QED
    BY <2>1 DEF AnswerInv, Answers, ServiceTypeOK, IInv, TypeOK
<1>4. CASE TimerFires(r)
  <2>1. /\ caller[r] = "waiting" /\ expired' = [expired EXCEPT ![r] = TRUE]
        /\ UNCHANGED <<caller, handler, pool, media>>
    BY <1>4 DEF TimerFires, Expire, handlerVars
  <2>2. QED
    BY <2>1 DEF AnswerInv, IInv, TypeOK
<1>5. QED
  BY <1>1, <1>2, <1>3, <1>4

(* The worker dispatches only a job that has not run.                        *)
LEMMA DispatchIsNew ==
  ASSUME IInv, TakeNext
  PROVE  \/ UNCHANGED pool /\ worker' # "serving"
         \/ /\ worker' = "serving" /\ current' \in Jobs /\ pool[current'] = "out"
            /\ pool' = [pool EXCEPT ![current'] = "submitted"]
<1>1. PICK n \in gets .. Len(puts) :
        \/ UNCHANGED pool /\ worker' \in {"idle", "stopped"}
        \/ /\ n < Len(puts) /\ puts[n + 1] # None
           /\ worker' = "serving" /\ current' = puts[n + 1]
           /\ pool' = [pool EXCEPT ![puts[n + 1]] = "submitted"]
  BY DEF TakeNext
<1>2. CASE UNCHANGED pool /\ worker' \in {"idle", "stopped"}
  BY <1>2
<1>3. CASE /\ n < Len(puts) /\ puts[n + 1] # None
           /\ worker' = "serving" /\ current' = puts[n + 1]
           /\ pool' = [pool EXCEPT ![puts[n + 1]] = "submitted"]
  <2>1. n + 1 \in Unread /\ n + 1 \in 1 .. Len(puts)
    BY <1>3 DEF Unread, IInv, TypeOK
  <2>2. puts[n + 1] \in Jobs
    BY <1>3, <2>1 DEF IInv, TypeOK, Entry
  <2>3. pool[puts[n + 1]] = "out"
    BY <1>3, <2>1 DEF IInv, UnstartedInv
  <2>4. QED
    BY <1>3, <2>2, <2>3
<1>4. QED
  BY <1>1, <1>2, <1>3

(* A job is given to the executor unread, and returns only when its file has *)
(* been opened.                                                              *)
LEMMA RunsKeepAnswerInv ==
  ASSUME ServiceInv, AnswerInv,
         \/ WorkerWakes
         \/ WorkerSettles
         \/ \E r \in Jobs : \/ ThreadStarts(r) \/ OpenMedia(r) \/ MediaMissing(r)
                            \/ RunReturns(r) \/ RunFails(r)
  PROVE  AnswerInv'
<1> USE DEF ServiceInv
<1>1. UNCHANGED <<caller, expired, handler>>
  BY DEF WorkerWakes, WorkerSettles, ThreadStarts, OpenMedia, MediaMissing, RunReturns, RunFails,
         Wake, Settle, Start, Return, Raise, loopVars, vars, handlerVars
<1> DEFINE Reads == \A q \in Jobs : /\ pool[q] \in {"out", "submitted"} => media[q] = "unread"
                                    /\ pool[q] = "returned" => media[q] = "open"
<1>2. Reads
  BY DEF AnswerInv
<1>3. ASSUME TakeNext \/ UNCHANGED pool, UNCHANGED media PROVE Reads'
  <2>1. CASE UNCHANGED pool
    BY <1>2, <1>3, <2>1
  <2>2. CASE ~UNCHANGED pool
    <3>1. /\ current' \in Jobs /\ pool[current'] = "out"
          /\ pool' = [pool EXCEPT ![current'] = "submitted"]
      BY <1>3, <2>2, DispatchIsNew
    <3>2. QED
      BY <1>2, <1>3, <3>1 DEF IInv, TypeOK
  <2>3. QED
    BY <2>1, <2>2
<1>4. ASSUME WorkerWakes \/ WorkerSettles PROVE Reads'
  BY <1>3, <1>4 DEF WorkerWakes, WorkerSettles, Wake, Settle
<1>5. ASSUME NEW r \in Jobs, \/ ThreadStarts(r) \/ OpenMedia(r) \/ MediaMissing(r)
                             \/ RunReturns(r) \/ RunFails(r)
      PROVE  Reads'
  <2>1. CASE ThreadStarts(r) \/ RunReturns(r) \/ RunFails(r)
    BY <1>2, <2>1
    DEF ThreadStarts, RunReturns, RunFails, Start, Return, Raise, IInv, TypeOK
  <2>2. CASE OpenMedia(r)
    BY <1>2, <2>2 DEF OpenMedia, vars, ServiceTypeOK
  <2>3. CASE MediaMissing(r)
    BY <1>2, <2>3 DEF MediaMissing, Raise, ServiceTypeOK, IInv, TypeOK
  <2>4. QED
    BY <1>5, <2>1, <2>2, <2>3
<1>6. Reads'
  BY <1>4, <1>5
<1>7. QED
  BY <1>1, <1>6 DEF AnswerInv

(* A server that has just started has answered nobody.                       *)
LEMMA ServiceInitAnswerInv == ServiceInit => AnswerInv
BY DEF ServiceInit, Init, AnswerInv

(* No step of the service breaks AnswerInv; those of the drain see no answer. *)
LEMMA ServiceNextKeepsAnswerInv ==
  ServiceInv /\ AnswerInv /\ [ServiceNext]_serviceVars => AnswerInv'
<1> SUFFICES ASSUME ServiceInv, AnswerInv, [ServiceNext]_serviceVars PROVE AnswerInv'
  OBVIOUS
<1>1. ASSUME BeginDrain \/ EnterStop \/ PutResumes \/ Leave \/ Down \/ UNCHANGED serviceVars
      PROVE  AnswerInv'
  <2>1. UNCHANGED <<caller, expired, handler, pool, media>>
    BY <1>1 DEF BeginDrain, EnterStop, PutResumes, Leave, Down, PutSentinel, BlockOnPut, Join, vars,
                handlerVars, serviceVars
  <2>2. QED
    BY <2>1 DEF AnswerInv
<1>2. QED
  BY <1>1, HandlersKeepAnswerInv, RunsKeepAnswerInv DEF ServiceNext

(* What the two invariants together say of each status.                      *)
LEMMA InvGivesTrueStatus == ServiceInv /\ AnswerInv => StatusTellsTruth
<1>1. ASSUME ServiceInv, AnswerInv, NEW r \in Jobs
      PROVE  /\ handler[r] = "200" => pool[r] = "returned" /\ media[r] = "open"
             /\ handler[r] \in Statuses => (handler[r] = "504" <=> expired[r])
             /\ handler[r] = "500" => pool[r] = "raised" \/ Untouched(r)
             /\ handler[r] \in {"413", "415", "422", "503"} => Untouched(r)
  <2> USE <1>1 DEF ServiceInv
  <2>1. caller[r] \in {"idle", "waiting"} \cup Answers
    BY DEF IInv, TypeOK
  <2>2. CASE caller[r] \in {"idle", "full"}
    <3>1. future[r] = "none" /\ ~expired[r] /\ pool[r] = "out"
      BY <2>2 DEF IInv, CallerInv, UnstartedInv, TypeOK
    <3>2. Untouched(r)
      BY <3>1, QueueAssumption DEF Untouched, IInv, PutsInv
    <3>3. handler[r] \notin {"200", "504"}
      BY <2>2 DEF AnswerInv, HandlerInv, StatusOf, Answers
    <3>4. QED
      BY <3>1, <3>2, <3>3
  <2>3. CASE caller[r] = "waiting"
    BY <2>3 DEF HandlerInv, Statuses
  <2>4. CASE caller[r] = "ok"
    <3>1. handler[r] = "200" /\ ~expired[r]
      BY <2>4 DEF HandlerInv, AnswerInv, StatusOf, Answers
    <3>2. pool[r] = "returned"
      BY <2>4, Whereabouts DEF IInv, CallerInv, DealtWith
    <3>3. QED
      BY <3>1, <3>2 DEF AnswerInv
  <2>5. CASE caller[r] = "error"
    <3>1. handler[r] = "500" /\ ~expired[r]
      BY <2>5 DEF HandlerInv, AnswerInv, StatusOf, Answers
    <3>2. pool[r] = "raised"
      BY <2>5, Whereabouts DEF IInv, CallerInv, DealtWith
    <3>3. QED
      BY <3>1, <3>2
  <2>6. CASE caller[r] = "timeout"
    BY <2>6 DEF HandlerInv, StatusOf, Answers, IInv, CallerInv
  <2>7. QED
    BY <2>1, <2>2, <2>3, <2>4, <2>5, <2>6 DEF Answers
<1>2. QED
  BY <1>1 DEF StatusTellsTruth

(* The status a client sees tells what became of its request: no 200 without *)
(* a run that read the client's file, no 504 without a fired timer and no    *)
(* other answer after one, no refusal of a job that was queued.              *)
THEOREM StatusIsTrue == ServiceSpec => []StatusTellsTruth
<1>1. ServiceSpec => []AnswerInv
  BY ServiceInitAnswerInv, ServiceNextKeepsAnswerInv, ServiceInvariance, PTL DEF ServiceSpec
<1>2. QED
  BY <1>1, InvGivesTrueStatus, ServiceInvariance, PTL

-----------------------------------------------------------------------------
(* The counters.  Jobs may be infinite: the requests that have been answered *)
(* are finitely many, which the invariant says along with their number.      *)

Answered(a) == {r \in Jobs : caller[r] = a}

(* The runs that returned and that the worker has gone on from.              *)
GoneOnFrom == {r \in Jobs : pool[r] = "returned" /\ ~(worker = "serving" /\ current = r)}

AnswersCounted ==
  \A a \in Answers : IsFiniteSet(Answered(a)) /\ counted[a] = Cardinality(Answered(a))

RunsCounted == IsFiniteSet(GoneOnFrom) /\ observed = Cardinality(GoneOnFrom)

(* infer() bumps the counter of its answer in the step that answers.         *)
LEMMA AnswersStayCounted ==
  ASSUME ServiceInv, AnswersCounted, [ServiceNext]_serviceVars
  PROVE  AnswersCounted'
<1>1. ASSUME NEW r \in Jobs, NEW b \in Answers, Reply(r, b), caller[r] \notin Answers,
             caller' = [caller EXCEPT ![r] = b]
      PROVE  AnswersCounted'
  <2>1. ASSUME NEW a \in Answers
        PROVE  IsFiniteSet(Answered(a)') /\ counted'[a] = Cardinality(Answered(a)')
    <3>1. Answered(a)' = IF a = b THEN Answered(a) \cup {r} ELSE Answered(a)
      BY <1>1 DEF Answered, ServiceInv, IInv, TypeOK
    <3>2. counted'[a] = IF a = b THEN counted[a] + 1 ELSE counted[a]
      BY <1>1 DEF Reply, ServiceInv, ServiceTypeOK
    <3>3. r \notin Answered(a)
      BY <1>1 DEF Answered
    <3>4. IsFiniteSet(Answered(a)) /\ counted[a] = Cardinality(Answered(a))
      BY DEF AnswersCounted
    <3>5. /\ IsFiniteSet(Answered(a) \cup {r})
          /\ Cardinality(Answered(a) \cup {r}) = Cardinality(Answered(a)) + 1
      BY <3>3, <3>4, FS_AddElement
    <3>6. QED
      BY <3>1, <3>2, <3>4, <3>5
  <2>2. QED
    BY <2>1 DEF AnswersCounted
<1>2. CASE \E r \in Jobs : SubmitRefused(r) \/ Respond(r)
  <2>1. PICK r \in Jobs, b \in Answers :
          /\ Reply(r, b) /\ caller[r] \in {"idle", "waiting"}
          /\ caller' = [caller EXCEPT ![r] = b]
    BY <1>2 DEF SubmitRefused, Respond, Refuse, Resume, Answer, Answers
  <2>2. QED
    BY <1>1, <2>1 DEF Answers
<1>3. CASE \E r \in Jobs : Submit(r)
  <2>1. PICK r \in Jobs : caller[r] = "idle" /\ caller' = [caller EXCEPT ![r] = "waiting"]
    BY <1>3 DEF Submit, Accept
  <2>2. counted' = counted
    BY <1>3 DEF Submit
  <2>3. \A a \in Answers : Answered(a)' = Answered(a)
    BY <2>1 DEF Answered, Answers, ServiceInv, IInv, TypeOK
  <2>4. QED
    BY <2>2, <2>3 DEF AnswersCounted
<1>4. CASE UNCHANGED <<caller, counted>>
  BY <1>4 DEF AnswersCounted, Answered
<1>5. QED
  <2>1. ASSUME NEW r \in Jobs, Reject(r) \/ BeginUpload(r) \/ ReadChunk(r) \/ UploadFails(r) \/ OpenMedia(r)
        PROVE  UNCHANGED <<caller, counted>>
    BY <2>1 DEF Reject, BeginUpload, ReadChunk, UploadFails, OpenMedia, vars, handlerVars
  <2>2. ASSUME NEW r \in Jobs, TimerFires(r) \/ ThreadStarts(r) \/ MediaMissing(r) \/ RunReturns(r) \/ RunFails(r)
        PROVE  UNCHANGED <<caller, counted>>
    BY <2>2 DEF TimerFires, ThreadStarts, MediaMissing, RunReturns, RunFails, Expire, Start, Raise,
                Return, loopVars, handlerVars
  <2>3. ASSUME \/ WorkerWakes \/ WorkerSettles \/ BeginDrain \/ EnterStop \/ PutResumes \/ Leave
               \/ Down \/ UNCHANGED serviceVars
        PROVE  UNCHANGED <<caller, counted>>
    BY <2>3 DEF WorkerWakes, WorkerSettles, Wake, Settle, BeginDrain, EnterStop, PutResumes, Leave,
                PutSentinel, BlockOnPut, Join, Down, vars, handlerVars, serviceVars
  <2>4. QED
    BY <1>2, <1>3, <1>4, <2>1, <2>2, <2>3 DEF ServiceNext

(* _observe() counts a run that returned in the step in which the worker     *)
(* goes on from it.                                                          *)
LEMMA RunsStayCounted ==
  ASSUME ServiceInv, RunsCounted, [ServiceNext]_serviceVars
  PROVE  RunsCounted'
<1> USE DEF ServiceInv
<1>1. CASE WorkerWakes
  <2>1. worker = "idle" /\ TakeNext /\ observed' = observed
    BY <1>1 DEF WorkerWakes, Wake
  <2>2. GoneOnFrom' = GoneOnFrom
    BY <2>1, DispatchIsNew DEF GoneOnFrom, IInv, TypeOK
  <2>3. QED
    BY <2>1, <2>2 DEF RunsCounted
<1>2. CASE WorkerSettles
  <2>1. /\ worker = "serving" /\ current \in Jobs
        /\ future[current] \in {"pending", "cancelled"}
    BY <1>2 DEF WorkerSettles, Settle, IInv, WorkerInv, TypeOK, Entry
  <2>2. TakeNext
    BY <1>2, <2>1 DEF WorkerSettles, Settle, MayDeliver
  <2>3. observed' = IF pool[current] = "returned" THEN observed + 1 ELSE observed
    BY <1>2 DEF WorkerSettles
  <2>4. GoneOnFrom' = IF pool[current] = "returned" THEN GoneOnFrom \cup {current} ELSE GoneOnFrom
    BY <2>1, <2>2, DispatchIsNew DEF GoneOnFrom, IInv, TypeOK
  <2>5. current \notin GoneOnFrom
    BY <2>1 DEF GoneOnFrom
  <2>6. /\ IsFiniteSet(GoneOnFrom \cup {current})
        /\ Cardinality(GoneOnFrom \cup {current}) = Cardinality(GoneOnFrom) + 1
    BY <2>5, FS_AddElement DEF RunsCounted
  <2>7. QED
    BY <2>3, <2>4, <2>6 DEF RunsCounted
<1>3. CASE \E r \in Jobs : ThreadStarts(r) \/ MediaMissing(r) \/ RunReturns(r) \/ RunFails(r)
  <2>1. PICK r \in Jobs :
          /\ pool[r] \in {"submitted", "running"}
          /\ \E s \in {"running", "returned", "raised"} : pool' = [pool EXCEPT ![r] = s]
          /\ UNCHANGED <<worker, current, observed>>
    BY <1>3 DEF ThreadStarts, MediaMissing, RunReturns, RunFails, Start, Raise, Return, loopVars
  <2>2. future[r] # "none"
    BY <2>1 DEF IInv, UnstartedInv
  <2>3. worker = "serving" /\ current = r
    BY <2>1, <2>2, Whereabouts DEF DealtWith
  <2>4. GoneOnFrom' = GoneOnFrom
    BY <2>1, <2>3 DEF GoneOnFrom, IInv, TypeOK
  <2>5. QED
    BY <2>1, <2>4 DEF RunsCounted
<1>4. CASE UNCHANGED <<pool, worker, current, observed>>
  BY <1>4 DEF RunsCounted, GoneOnFrom
<1>5. QED
  <2>1. ASSUME NEW r \in Jobs, \/ Reject(r) \/ BeginUpload(r) \/ ReadChunk(r) \/ UploadFails(r) \/ OpenMedia(r)
                               \/ Submit(r) \/ SubmitRefused(r) \/ Respond(r) \/ TimerFires(r)
        PROVE  UNCHANGED <<pool, worker, current, observed>>
    BY <2>1 DEF Reject, BeginUpload, ReadChunk, UploadFails, OpenMedia, Submit, SubmitRefused, Respond,
                TimerFires, Accept, Refuse, Resume, Expire, vars
  <2>2. ASSUME BeginDrain \/ EnterStop \/ PutResumes \/ Leave \/ Down \/ UNCHANGED serviceVars
        PROVE  UNCHANGED <<pool, worker, current, observed>>
    BY <2>2 DEF BeginDrain, EnterStop, PutResumes, Leave, PutSentinel, BlockOnPut, Join, Down, vars,
                serviceVars
  <2>3. QED
    BY <1>1, <1>2, <1>3, <1>4, <2>1, <2>2 DEF ServiceNext

(* Every count is right in every state.                                      *)
LEMMA CountsAreRight == ServiceSpec => [](AnswersCounted /\ RunsCounted)
<1>1. ServiceInit => AnswersCounted /\ RunsCounted
  <2> SUFFICES ASSUME ServiceInit PROVE AnswersCounted /\ RunsCounted
    OBVIOUS
  <2>1. \A a \in Answers : Answered(a) = {} /\ counted[a] = 0
    BY DEF ServiceInit, Init, Answered, Answers
  <2>2. GoneOnFrom = {} /\ observed = 0
    BY DEF ServiceInit, Init, GoneOnFrom
  <2>3. QED
    BY <2>1, <2>2, FS_EmptySet DEF AnswersCounted, RunsCounted
<1>2. ServiceInv /\ AnswersCounted /\ RunsCounted /\ [ServiceNext]_serviceVars
        => (AnswersCounted /\ RunsCounted)'
  BY AnswersStayCounted, RunsStayCounted
<1>3. QED
  BY <1>1, <1>2, ServiceInvariance, PTL DEF ServiceSpec

(* cosmos_requests_total has each answer of submit() once, under the status  *)
(* the client was given.                                                     *)
THEOREM CountersAgree == ServiceSpec => []CountersReconcile
<1>1. ServiceInv /\ AnswersCounted => CountersReconcile
  BY DEF ServiceInv, HandlerInv, AnswersCounted, Answered, CountersReconcile
<1>2. QED
  BY <1>1, ServiceInvariance, CountsAreRight, PTL

(* The histograms exceed the "ok" counter by the runs whose caller is gone,  *)
(* or has not been resumed yet.                                              *)
THEOREM RunsAgree == ServiceSpec => []RunsReconcile
<1>1. ASSUME ServiceInv, AnswersCounted, RunsCounted PROVE RunsReconcile
  <2> DEFINE Ok == Answered("ok")
             Rest == {r \in Jobs : /\ pool[r] = "returned"
                                   /\ caller[r] # "ok"
                                   /\ ~(worker = "serving" /\ current = r)}
  <2>1. ASSUME NEW r \in Ok PROVE r \in GoneOnFrom
    <3>1. r \in Jobs /\ future[r] = "result"
      BY <1>1, <2>1 DEF Answered, ServiceInv, IInv, CallerInv
    <3>2. pool[r] = "returned"
      BY <1>1, <3>1, Whereabouts DEF ServiceInv, DealtWith
    <3>3. ~(worker = "serving" /\ current = r)
      BY <1>1, <3>1 DEF ServiceInv, IInv, WorkerInv
    <3>4. QED
      BY <3>1, <3>2, <3>3 DEF GoneOnFrom
  <2>2. GoneOnFrom = Ok \cup Rest /\ Ok \cap Rest = {}
    BY <2>1 DEF GoneOnFrom, Answered
  <2>3. IsFiniteSet(Ok) /\ counted["ok"] = Cardinality(Ok)
    BY <1>1 DEF AnswersCounted, Answers
  <2>4. IsFiniteSet(GoneOnFrom) /\ observed = Cardinality(GoneOnFrom)
    BY <1>1 DEF RunsCounted
  <2>5. IsFiniteSet(Rest)
    BY <2>2, <2>4, FS_Subset
  <2> HIDE DEF Ok, Rest
  <2>6. Cardinality(GoneOnFrom) = Cardinality(Ok) + Cardinality(Rest) - Cardinality(Ok \cap Rest)
    BY <2>2, <2>3, <2>5, FS_Union
  <2>7. /\ Cardinality(Ok \cap Rest) = 0
        /\ Cardinality(Ok) \in Nat /\ Cardinality(Rest) \in Nat
    BY <2>2, <2>3, <2>5, FS_EmptySet, FS_CardinalityType
  <2>8. observed = counted["ok"] + Cardinality(Rest)
    BY <2>3, <2>4, <2>6, <2>7
  <2>9. QED
    BY <2>8 DEF RunsReconcile, Rest
<1>2. ServiceInv /\ AnswersCounted /\ RunsCounted => RunsReconcile
  BY <1>1
<1>3. QED
  BY <1>2, ServiceInvariance, CountsAreRight, PTL

=============================================================================
