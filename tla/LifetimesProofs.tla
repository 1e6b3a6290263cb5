---------------------------- MODULE LifetimesProofs ----------------------------
(***************************************************************************)
(* However often the process is killed, and wherever a kill comes, each of  *)
(* its lives keeps the service's invariant, and the files left behind are   *)
(* those of the requests that the kills have taken.                         *)
(***************************************************************************)
EXTENDS Lifetimes, ServiceProofs

(* A new process is in a state in which lifespan has just yielded.           *)
LEMMA RebornKeepsServiceInv == Reborn => ServiceInv'
<1> SUFFICES ASSUME Reborn PROVE ServiceInv'
  OBVIOUS
<1>1. ServiceInit'
  BY DEF Reborn, ServiceInit, Init
<1>2. QED
  BY <1>1, ServiceInitInv, PTL

(* LifeInv holds in every state that any succession of lives can reach.      *)
THEOREM LifeInvariance == LifeSpec => []LifeInv
<1>1. LifeInit => LifeInv
  BY ServiceInitInv, RestartAssumption DEF LifeInit, LifeInv, LifeTypeOK
<1>2. LifeInv /\ [LifeNext]_allVars => LifeInv'
  <2> SUFFICES ASSUME LifeInv, [LifeNext]_allVars PROVE LifeInv'
    OBVIOUS
  <2> USE DEF LifeInv
  <2>1. CASE Live
    <3>1. ServiceInv'
      BY <2>1, ServiceNextKeepsInv DEF Live
    <3>2. QED
      BY <2>1, <3>1 DEF Live, lifeVars, LifeTypeOK
  <2>2. CASE Kill
    <3>1. ServiceInv'
      BY <2>2, RebornKeepsServiceInv DEF Kill
    <3>2. LifeTypeOK' /\ (process' = "exited" => restarts' < MaxRestarts)
      BY <2>2 DEF Kill, LifeTypeOK, Active, ServiceInv, ServiceTypeOK
    <3>3. \A r \in gone' : handler'[r] = "new"
      BY <2>2 DEF Kill, Reborn, LifeTypeOK
    <3>4. orphans' = lost'
      BY <2>2 DEF Kill, ServiceInv, NoOrphanMedia
    <3>5. QED
      BY <3>1, <3>2, <3>3, <3>4
  <2>3. CASE Restart \/ Finish \/ Rest \/ UNCHANGED allVars
    <3>1. UNCHANGED serviceVars
      BY <2>3 DEF Restart, Finish, Rest, allVars
    <3>2. ServiceInv'
      BY <3>1, ServiceNextKeepsInv
    <3>3. LifeTypeOK' /\ (process' = "exited" => restarts' < MaxRestarts)
      BY <2>3, RestartAssumption DEF Restart, Finish, Rest, allVars, lifeVars, LifeTypeOK
    <3>4. UNCHANGED <<handler, gone, lost, orphans>>
      BY <2>3, <3>1
      DEF Restart, Finish, Rest, allVars, lifeVars, serviceVars, handlerVars
    <3>5. QED
      BY <3>2, <3>3, <3>4
  <2>4. QED
    BY <2>1, <2>2, <2>3 DEF LifeNext
<1>3. QED
  BY <1>1, <1>2, PTL DEF LifeSpec

(* The container's /tmp has one file for each request that is under way or   *)
(* was lost to a kill, and no other.                                         *)
THEOREM OnlyTheUnfinishedHaveFiles == LifeSpec => []FilesOfTheUnfinished
<1>1. LifeInv => FilesOfTheUnfinished
  BY DEF LifeInv, ServiceInv, NoOrphanMedia, FilesOfTheUnfinished
<1>2. QED
  BY <1>1, LifeInvariance, PTL

(* No kill, wherever it comes, makes a later life answer with a status that  *)
(* is not the true account of its own run, file and timer.                   *)
THEOREM StatusIsTrueInEveryLife == LifeSpec => []StatusTellsTruth
<1>1. LifeInit => AnswerInv
  BY ServiceInitAnswerInv DEF LifeInit
<1>2. LifeInv /\ AnswerInv /\ [LifeNext]_allVars => AnswerInv'
  <2> SUFFICES ASSUME LifeInv, AnswerInv, [LifeNext]_allVars PROVE AnswerInv'
    OBVIOUS
  <2>1. CASE [ServiceNext]_serviceVars
    BY <2>1, ServiceNextKeepsAnswerInv DEF LifeInv
  <2>2. CASE Kill
    BY <2>2 DEF Kill, Reborn, AnswerInv
  <2>3. QED
    BY <2>1, <2>2 DEF LifeNext, Live, Restart, Finish, Rest, allVars
<1>3. LifeInv /\ AnswerInv => StatusTellsTruth
  BY InvGivesTrueStatus DEF LifeInv
<1>4. QED
  BY <1>1, <1>2, <1>3, LifeInvariance, PTL DEF LifeSpec

(* Each life is a serial server: a kill opens a new one with an empty line,  *)
(* and every other step serves or changes nothing that its customers see.    *)
THEOREM EachLifeIsSerialServer ==
  LifeSpec => Server!Init /\ [][[Server!Next]_(Server!vars) \/ (Kill /\ (Server!Init)')]_allVars
<1>1. LifeInit => Server!Init
  BY InitRefines DEF LifeInit, ServiceInit
<1>2. LifeInv /\ [LifeNext]_allVars => [Server!Next]_(Server!vars) \/ (Kill /\ (Server!Init)')
  <2> SUFFICES ASSUME LifeInv, [LifeNext]_allVars
               PROVE  [Server!Next]_(Server!vars) \/ (Kill /\ (Server!Init)')
    OBVIOUS
  <2>1. CASE [ServiceNext]_serviceVars
    BY <2>1, ServiceStepIsQueueStep, StepRefines DEF LifeInv, ServiceInv
  <2>2. CASE Kill
    <3>1. Init'
      BY <2>2 DEF Kill, Reborn, Init
    <3>2. QED
      BY <2>2, <3>1, InitRefines, PTL
  <2>3. QED
    BY <2>1, <2>2 DEF LifeNext, Live, Restart, Finish, Rest, allVars
<1>3. QED
  BY <1>1, <1>2, LifeInvariance, PTL DEF LifeSpec

-----------------------------------------------------------------------------
(* Liveness, as for the queue: what ENABLED is of a timer and of an answer   *)
(* is a hypothesis.                                                          *)

AnswerIsEnabled(r) ==
  [](/\ handler[r] = "submitted" /\ ~expired[r] => ENABLED <<TimerFires(r)>>_serviceVars
     /\ handler[r] = "submitted" /\ future[r] # "pending" => ENABLED <<Respond(r)>>_serviceVars)

(* One step of the service, seen from a request inside submit().             *)
LEMMA SubmittedStep ==
  ASSUME LifeInv, ServiceNext, NEW r \in Jobs, handler[r] = "submitted"
  PROVE  /\ handler'[r] \in {"submitted", "200", "500", "503", "504"}
         /\ expired[r] => expired'[r]
<1> USE DEF LifeInv, ServiceInv
<1>1. caller[r] = "waiting"
  BY DEF HandlerInv
<1>2. ASSUME NEW q \in Jobs, \/ Reject(q) \/ BeginUpload(q) \/ ReadChunk(q) \/ UploadFails(q)
                             \/ OpenMedia(q)
      PROVE  handler'[r] = handler[r] /\ expired'[r] = expired[r]
  BY <1>2 DEF Reject, BeginUpload, ReadChunk, UploadFails, OpenMedia, vars, handlerVars, ServiceTypeOK
<1>3. ASSUME NEW q \in Jobs, Submit(q) \/ SubmitRefused(q)
      PROVE  handler'[r] = handler[r] /\ expired'[r] = expired[r]
  BY <1>3 DEF Submit, SubmitRefused, Accept, Refuse, Reply, ServiceTypeOK
<1>4. ASSUME NEW q \in Jobs, Respond(q)
      PROVE  /\ handler'[r] \in {"submitted", "200", "500", "503", "504"}
             /\ expired'[r] = expired[r]
  <2>1. StatusOf(Answer(q)) \in {"200", "500", "503", "504"}
    BY DEF StatusOf, Answer
  <2>2. QED
    BY <1>4, <2>1 DEF Respond, Resume, Reply, ServiceTypeOK
<1>5. ASSUME NEW q \in Jobs, TimerFires(q)
      PROVE  handler'[r] = handler[r] /\ (expired[r] => expired'[r])
  BY <1>5 DEF TimerFires, Expire, handlerVars, IInv, TypeOK
<1>6. ASSUME NEW q \in Jobs, ThreadStarts(q) \/ MediaMissing(q) \/ RunReturns(q) \/ RunFails(q)
      PROVE  UNCHANGED <<handler, expired>>
  BY <1>6 DEF ThreadStarts, MediaMissing, RunReturns, RunFails, Start, Raise, Return, loopVars,
              handlerVars
<1>7. ASSUME \/ WorkerWakes \/ WorkerSettles \/ BeginDrain \/ EnterStop \/ PutResumes \/ Leave
             \/ Down
      PROVE  UNCHANGED <<handler, expired>>
  BY <1>7 DEF WorkerWakes, WorkerSettles, Wake, Settle, BeginDrain, EnterStop, PutResumes, Leave, Down,
              PutSentinel, BlockOnPut, Join, vars, handlerVars, serviceVars
<1>8. QED
  BY <1>2, <1>3, <1>4, <1>5, <1>6, <1>7 DEF ServiceNext

(* A request that has come to submit() is answered, in whatever life and     *)
(* whatever the GPU does, unless a kill takes it.                            *)
LEMMA OneRequestIsAnswered ==
  ASSUME NEW r \in Jobs
  PROVE  LifeSpec /\ HandlerFairness(r) /\ AnswerIsEnabled(r)
           => (handler[r] = "submitted" ~> handler[r] \in Statuses \/ r \in lost)
<1> DEFINE Waits == handler[r] = "submitted"
           Over == handler[r] \in Statuses \/ r \in lost
           Late == expired[r]
           Done == future[r] # "pending"
<1>1. LifeInv /\ [LifeNext]_allVars /\ Waits => Waits' \/ Over'
  <2> SUFFICES ASSUME LifeInv, [LifeNext]_allVars, Waits PROVE Waits' \/ Over'
    OBVIOUS
  <2>1. CASE Live
    BY <2>1, SubmittedStep DEF Live, Statuses
  <2>2. CASE Kill
    BY <2>2 DEF Kill, Active
  <2>3. CASE Restart \/ Finish \/ Rest \/ UNCHANGED allVars
    BY <2>3 DEF Restart, Finish, Rest, allVars, serviceVars, handlerVars
  <2>4. QED
    BY <2>1, <2>2, <2>3 DEF LifeNext
<1>2. LifeInv /\ [LifeNext]_allVars /\ Waits /\ Late => Late' \/ Over'
  <2> SUFFICES ASSUME LifeInv, [LifeNext]_allVars, Waits, Late PROVE Late' \/ Over'
    OBVIOUS
  <2>1. CASE Live
    BY <2>1, SubmittedStep DEF Live
  <2>2. CASE Kill
    BY <2>2 DEF Kill, Active
  <2>3. CASE Restart \/ Finish \/ Rest \/ UNCHANGED allVars
    BY <2>3 DEF Restart, Finish, Rest, allVars, serviceVars, vars
  <2>4. QED
    BY <2>1, <2>2, <2>3 DEF LifeNext
<1>3. LifeInv /\ <<TimerFires(r)>>_serviceVars => Late'
  BY DEF TimerFires, Expire, LifeInv, ServiceInv, IInv, TypeOK
<1>4. LifeInv /\ Waits /\ Late => Done
  BY DEF LifeInv, ServiceInv, HandlerInv, IInv, CallerInv
<1>5. LifeInv /\ <<Respond(r)>>_serviceVars => Over'
  BY DEF Respond, Reply, Resume, Answer, StatusOf, Statuses, LifeInv, ServiceInv, ServiceTypeOK
<1>6. LifeSpec => []LifeInv /\ [][LifeNext]_allVars
  BY LifeInvariance, PTL DEF LifeSpec
<1> HIDE DEF Waits, Over, Late, Done
<1>7. /\ [](Waits /\ ~Late => ENABLED <<TimerFires(r)>>_serviceVars)
      /\ [](Waits /\ Done => ENABLED <<Respond(r)>>_serviceVars)
      /\ []LifeInv /\ [][LifeNext]_allVars
      /\ WF_serviceVars(TimerFires(r)) /\ WF_serviceVars(Respond(r))
     => (Waits ~> Over)
  BY <1>1, <1>2, <1>3, <1>4, <1>5, PTL
<1>8. QED
  BY <1>6, <1>7, PTL DEF AnswerIsEnabled, HandlerFairness, Waits, Over, Late, Done

(* The part of AnsweredOrLost behind submit(), for any number of requests,   *)
(* restarts and kills: a hung GPU, a full queue or a drain keeps no request  *)
(* waiting for ever.                                                         *)
THEOREM SubmittedAreAnswered ==
  FairLives /\ (\A r \in Jobs : AnswerIsEnabled(r))
    => \A r \in Jobs : handler[r] = "submitted" ~> handler[r] \in Statuses \/ r \in lost
<1>1. ASSUME NEW r \in Jobs
      PROVE  FairLives /\ (\A q \in Jobs : AnswerIsEnabled(q))
               => (handler[r] = "submitted" ~> handler[r] \in Statuses \/ r \in lost)
  <2>1. FairLives => LifeSpec /\ HandlersFairness
    BY PTL DEF FairLives, ServerFairness
  <2>2. HandlersFairness => HandlerFairness(r)
    BY DEF HandlersFairness
  <2>3. (\A q \in Jobs : AnswerIsEnabled(q)) => AnswerIsEnabled(r)
    OBVIOUS
  <2>4. QED
    BY <2>1, <2>2, <2>3, OneRequestIsAnswered, PTL
<1>2. QED
  BY <1>1

=============================================================================
