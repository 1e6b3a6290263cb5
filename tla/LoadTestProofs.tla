---------------------------- MODULE LoadTestProofs ----------------------------
(***************************************************************************)
(* The benchmark is one of the clients Service allows, so every invariant   *)
(* proved of the service holds under load; and which request belongs to     *)
(* whom, for any number of users and iterations; the counts k6 publishes are *)
(* the service's, and the caveats drawn from them are true; what a 503 and   *)
(* what the wait in the queue means.                                         *)
(***************************************************************************)
EXTENDS LoadTest, ServiceProofs, FiniteSetTheorems

(* An iteration that can begin has a request nobody has sent yet.            *)
LEMMA FreshIsNew == Jobs \ fired # {} => Fresh \in Jobs \ fired
BY DEF Fresh

-----------------------------------------------------------------------------
(* Refinement *)

(* Every step of the benchmark is a step of the service or leaves it alone.  *)
LEMMA TestStepIsServiceStep == [TestNext]_testVars => [ServiceNext]_serviceVars
<1>1. ASSUME BeginWarmUp \/ \E v \in VUs : Fire(v)
      PROVE  \E r \in Jobs : BeginUpload(r)
  BY <1>1, FreshIsNew DEF BeginWarmUp, Fire, MayFire
<1>2. LoopStep \/ ThreadStep => ServiceNext
  BY DEF LoopStep, ThreadStep, ServiceNext
<1>3. ASSUME \/ EndSetup \/ TimeIsUp \/ WriteSummary \/ CutOff \/ Over \/ UNCHANGED testVars
             \/ \E v \in VUs : ConnectionFails(v) \/ ReadAnswer(v) \/ ReadGarbled(v) \/ BackOffEnds(v)
      PROVE  UNCHANGED serviceVars
  BY <1>3 DEF EndSetup, TimeIsUp, WriteSummary, CutOff, Over, testVars, ConnectionFails,
              ReadAnswer, ReadGarbled, BackOffEnds
<1>4. QED
  BY <1>1, <1>2, <1>3 DEF TestNext, k6Step, ServiceNext

(* The benchmark implements the service's specification: what Service        *)
(* promises of any clients, it promises of these.                            *)
THEOREM LoadTestUsesService == TestSpec => ServiceBehaviour
<1>1. TestInit => ServiceInit
  BY DEF TestInit
<1>2. QED
  BY <1>1, TestStepIsServiceStep, PTL DEF TestSpec, ServiceBehaviour

-----------------------------------------------------------------------------
(* Whose request is whose *)

(* Only Fire and BeginWarmUp make a request of a new one.                    *)
LEMMA ServingKeepsNew ==
  ASSUME ServiceTypeOK, LoopStep \/ ThreadStep
  PROVE  \A q \in Jobs : handler'[q] = "new" <=> handler[q] = "new"
<1>1. ASSUME NEW r \in Jobs,
             UploadFails(r) \/ Submit(r) \/ SubmitRefused(r) \/ Respond(r)
      PROVE  \E s \in {"submitted"} \cup Statuses :
               /\ handler' = [handler EXCEPT ![r] = s]
               /\ handler[r] # "new"
  BY <1>1 DEF UploadFails, Submit, SubmitRefused, Respond, Reply, Answer, StatusOf, Statuses
<1>2. ASSUME NEW r \in Jobs,
             \/ TimerFires(r) \/ ThreadStarts(r) \/ OpenMedia(r) \/ MediaMissing(r)
             \/ RunReturns(r) \/ RunFails(r) \/ WorkerWakes \/ WorkerSettles
      PROVE  UNCHANGED handler
  BY <1>2 DEF TimerFires, ThreadStarts, OpenMedia, MediaMissing, RunReturns, RunFails,
              WorkerWakes, WorkerSettles, handlerVars
<1>3. SUFFICES ASSUME NEW q \in Jobs
      PROVE  handler'[q] = "new" <=> handler[q] = "new"
  OBVIOUS
<1>4. CASE \E r \in Jobs : UploadFails(r) \/ Submit(r) \/ SubmitRefused(r) \/ Respond(r)
  <2>1. PICK r \in Jobs, s \in {"submitted"} \cup Statuses :
          /\ handler' = [handler EXCEPT ![r] = s]
          /\ handler[r] # "new"
    BY <1>1, <1>4
  <2>2. QED
    BY <2>1 DEF ServiceTypeOK, Statuses
<1>5. CASE ~\E r \in Jobs : UploadFails(r) \/ Submit(r) \/ SubmitRefused(r) \/ Respond(r)
  BY <1>2, <1>5 DEF LoopStep, ThreadStep
<1>6. QED
  BY <1>4, <1>5

(* A request sent by setup() or by a user is nobody else's.                  *)
LEMMA SendingKeepsTestInv ==
  ASSUME TestInv, ServiceTypeOK, BeginWarmUp \/ \E v \in VUs : Fire(v)
  PROVE  TestInv'
<1> DEFINE r == Fresh
<1>1. r \in Jobs \ fired /\ handler' = [handler EXCEPT ![r] = "reading"]
  BY FreshIsNew DEF BeginWarmUp, Fire, MayFire, BeginUpload
<1>2. /\ \A q \in Jobs : handler'[q] = IF q = r THEN "reading" ELSE handler[q]
      /\ handler[r] = "new"
  BY <1>1 DEF ServiceTypeOK, TestInv
<1> HIDE DEF r
<1>3. CASE BeginWarmUp
  <2>1. warm' = r /\ fired' = {r} /\ UNCHANGED <<stage, vu, tally, cut, garbled>> /\ stage = "setup"
        /\ warm = None
    BY <1>3 DEF BeginWarmUp, r
  <2>2. fired = {}
    BY <2>1, QueueAssumption DEF TestInv
  <2>3. QED
    BY <1>1, <1>2, <2>1, <2>2, QueueAssumption, JobsAssumption DEF TestInv, TestTypeOK
<1>4. CASE \E v \in VUs : Fire(v)
  <2>1. PICK v \in VUs : Fire(v)
    BY <1>4
  <2>2. /\ vu[v] = "ready" /\ stage = "sweep"
        /\ fired' = fired \cup {r} /\ vu' = [vu EXCEPT ![v] = r]
        /\ UNCHANGED <<stage, warm, tally, cut, garbled>>
    BY <2>1 DEF Fire, MayFire, r
  <2>3. \A w \in VUs : vu'[w] = IF w = v THEN r ELSE vu[w]
    BY <2>2 DEF TestInv, TestTypeOK
  <2>4. TestTypeOK'
    BY <1>1, <2>2 DEF TestInv, TestTypeOK
  <2>5. \A w \in VUs : vu'[w] \in Jobs =>
          /\ vu'[w] \in fired' \ (cut' \cup {warm'})
          /\ handler'[vu'[w]] # "new"
          /\ \A u \in VUs : vu'[u] = vu'[w] => u = w
    BY <1>1, <1>2, <2>2, <2>3 DEF TestInv, TestTypeOK
  <2>6. QED
    BY <1>1, <1>2, <2>2, <2>4, <2>5 DEF TestInv, TestTypeOK
<1>5. QED
  BY <1>3, <1>4

(* Reading an answer, or being cut off, gives the request up.                *)
LEMMA GivingUpKeepsTestInv ==
  ASSUME TestInv, ServiceTypeOK,
         CutOff \/ \E v \in VUs : ConnectionFails(v) \/ ReadAnswer(v) \/ ReadGarbled(v) \/ BackOffEnds(v)
  PROVE  TestInv'
<1>1. UNCHANGED <<handler, stage, warm>>
  BY DEF CutOff, ConnectionFails, ReadAnswer, ReadGarbled, BackOffEnds, serviceVars, handlerVars
<1>2. CASE CutOff
  BY <1>1, <1>2, JobsAssumption DEF CutOff, TestInv, TestTypeOK
<1>3. ASSUME NEW v \in VUs, ConnectionFails(v)
      PROVE  TestInv'
  BY <1>1, <1>3, FreshIsNew DEF ConnectionFails, MayFire, TestInv, TestTypeOK, Counters
<1>4. ASSUME NEW v \in VUs, ReadAnswer(v) \/ ReadGarbled(v) \/ BackOffEnds(v)
      PROVE  TestInv'
  <2>1. /\ UNCHANGED <<fired, cut>>
        /\ garbled' = garbled \/ (vu[v] \in Jobs /\ garbled' = garbled \cup {vu[v]})
        /\ \E s \in {"ready", "sleeping"} : vu' = [vu EXCEPT ![v] = s]
        /\ vu[v] # "ready"
    BY <1>4, JobsAssumption DEF ReadAnswer, ReadGarbled, BackOffEnds
  <2>2. tally' \in [Counters -> Nat]
    BY <1>4 DEF ReadAnswer, ReadGarbled, BackOffEnds, TestInv, TestTypeOK, CounterOf, Counters
  <2>3. PICK s \in {"ready", "sleeping"} : vu' = [vu EXCEPT ![v] = s]
    BY <2>1
  <2>4. \A w \in VUs : vu'[w] = IF w = v THEN s ELSE vu[w]
    BY <2>3 DEF TestInv, TestTypeOK
  <2>5. stage # "written" /\ stage # "setup"
    BY <2>1 DEF TestInv, TestTypeOK
  <2>6. garbled' \subseteq fired \ ({warm} \cup cut \cup {vu'[w] : w \in VUs})
    <3> SUFFICES ASSUME NEW q \in garbled'
                 PROVE  q \in fired \ ({warm} \cup cut) /\ \A w \in VUs : vu'[w] # q
      OBVIOUS
    <3>1. q \in Jobs
      BY <2>1 DEF TestInv, TestTypeOK
    <3>2. CASE q \in garbled
      BY <2>4, <3>1, <3>2, JobsAssumption DEF TestInv
    <3>3. CASE vu[v] = q
      BY <2>4, <3>1, <3>3, JobsAssumption DEF TestInv
    <3>4. QED
      BY <2>1, <3>2, <3>3
  <2>7. QED
    BY <1>1, <2>1, <2>2, <2>3, <2>4, <2>5, <2>6, JobsAssumption DEF TestInv, TestTypeOK
<1>5. QED
  BY <1>2, <1>3, <1>4

(* Every request belongs to setup(), to the one user that awaits it, or to   *)
(* nobody any more.                                                          *)
THEOREM TestInvariance == TestSpec => []TestInv
<1>1. TestInit => TestInv
  BY JobsAssumption DEF TestInit, ServiceInit, TestInv, TestTypeOK, Counters
<1>2. TestInv /\ ServiceTypeOK /\ [TestNext]_testVars => TestInv'
  <2> SUFFICES ASSUME TestInv, ServiceTypeOK, [TestNext]_testVars
               PROVE  TestInv'
    OBVIOUS
  <2>1. CASE BeginWarmUp \/ \E v \in VUs : Fire(v)
    BY <2>1, SendingKeepsTestInv
  <2>2. CASE CutOff \/ \E v \in VUs : ConnectionFails(v) \/ ReadAnswer(v) \/ ReadGarbled(v) \/ BackOffEnds(v)
    BY <2>2, GivingUpKeepsTestInv
  <2>3. CASE EndSetup \/ TimeIsUp \/ WriteSummary
    BY <2>3 DEF EndSetup, TimeIsUp, WriteSummary, serviceVars, handlerVars, TestInv, TestTypeOK,
                Statuses
  <2>4. CASE LoopStep \/ ThreadStep
    <3>1. \A q \in Jobs : handler'[q] = "new" <=> handler[q] = "new"
      BY <2>4, ServingKeepsNew
    <3>2. UNCHANGED k6Vars
      BY <2>4 DEF LoopStep, ThreadStep
    <3>3. QED
      BY <3>1, <3>2 DEF k6Vars, TestInv, TestTypeOK
  <2>5. CASE Over \/ UNCHANGED testVars
    BY <2>5 DEF Over, testVars, serviceVars, handlerVars, k6Vars, TestInv, TestTypeOK
  <2>6. QED
    BY <2>1, <2>2, <2>3, <2>4, <2>5 DEF TestNext, k6Step
<1>3. ServiceBehaviour => []ServiceTypeOK
  <2>1. ServiceInv => ServiceTypeOK
    BY DEF ServiceInv
  <2>2. QED
    BY <2>1, ServiceInvariance, PTL DEF ServiceBehaviour, ServiceSpec
<1>4. QED
  BY <1>1, <1>2, <1>3, LoadTestUsesService, PTL DEF TestSpec

-----------------------------------------------------------------------------
(* The counters of the benchmark.  Each counter is the number of the         *)
(* iterations that went to it, those that are nobody's any more.             *)

Owned == {warm} \cup cut \cup {vu[v] : v \in VUs}

Tallied(c) == {r \in fired \ Owned : CounterOf(Outcome(r)) = c}

SweepInv ==
  /\ IsFiniteSet(fired)
  /\ \A r \in Jobs : Active(r) => r \in Owned
  /\ \A r \in Jobs : handler[r] \in {"new", "reading", "submitted", "200", "500", "503", "504"}
  /\ \A r \in Jobs : handler[r] \in {"200", "503", "504"} => caller[r] \in Answers
  /\ \A r \in garbled : handler[r] = "200"
  /\ \A c \in Counters : tally[c] = Cardinality(Tallied(c))

(* The service changes the answer of a request under way only.               *)
LEMMA ServingAnswersActive ==
  ASSUME ServiceInv, LoopStep \/ ThreadStep
  PROVE  \A q \in Jobs :
           \/ handler'[q] = handler[q] /\ caller'[q] = caller[q]
           \/ /\ Active(q)
              /\ handler'[q] \in {"submitted", "200", "500", "503", "504"}
              /\ handler'[q] \in {"200", "503", "504"} => caller'[q] \in Answers
<1>1. handler \in [Jobs -> {"new", "reading", "submitted"} \cup Statuses]
      /\ caller \in [Jobs -> {"idle", "waiting"} \cup Answers]
  BY DEF ServiceInv, ServiceTypeOK, IInv, TypeOK
<1>2. ASSUME NEW r \in Jobs, UploadFails(r) \/ Submit(r)
      PROVE  /\ Active(r)
             /\ \/ handler' = [handler EXCEPT ![r] = "500"] /\ caller' = caller
                \/ /\ handler' = [handler EXCEPT ![r] = "submitted"]
                   /\ caller' = [caller EXCEPT ![r] = "waiting"]
  BY <1>2 DEF UploadFails, Submit, Accept, Active, vars
<1>3. ASSUME NEW r \in Jobs, SubmitRefused(r) \/ Respond(r)
      PROVE  \E a \in Answers :
               /\ Active(r)
               /\ handler' = [handler EXCEPT ![r] = StatusOf(a)]
               /\ caller' = [caller EXCEPT ![r] = a]
  BY <1>3 DEF SubmitRefused, Respond, Reply, Refuse, Resume, Answer, Answers, Active
<1>4. ASSUME NEW r \in Jobs, TimerFires(r) \/ OpenMedia(r) \/ MediaMissing(r)
      PROVE  UNCHANGED <<handler, caller>>
  BY <1>4 DEF TimerFires, OpenMedia, MediaMissing, Expire, Raise, vars, loopVars, handlerVars
<1>5. ASSUME NEW r \in Jobs, ThreadStarts(r) \/ RunReturns(r) \/ RunFails(r)
      PROVE  UNCHANGED <<handler, caller>>
  BY <1>5 DEF ThreadStarts, RunReturns, RunFails, Start, Return, Raise, loopVars, handlerVars
<1>6. ASSUME WorkerWakes \/ WorkerSettles
      PROVE  UNCHANGED <<handler, caller>>
  BY <1>6 DEF WorkerWakes, WorkerSettles, Wake, Settle, handlerVars
<1>7. SUFFICES ASSUME NEW q \in Jobs
      PROVE  \/ handler'[q] = handler[q] /\ caller'[q] = caller[q]
             \/ /\ Active(q)
                /\ handler'[q] \in {"submitted", "200", "500", "503", "504"}
                /\ handler'[q] \in {"200", "503", "504"} => caller'[q] \in Answers
  OBVIOUS
<1>8. CASE UNCHANGED <<handler, caller>>
  BY <1>8
<1>9. CASE \E r \in Jobs : UploadFails(r) \/ Submit(r)
  <2>1. PICK r \in Jobs : UploadFails(r) \/ Submit(r)
    BY <1>9
  <2>2. QED
    BY <1>1, <1>2, <2>1
<1>10. CASE \E r \in Jobs : SubmitRefused(r) \/ Respond(r)
  <2>1. PICK r \in Jobs, a \in Answers :
          /\ Active(r)
          /\ handler' = [handler EXCEPT ![r] = StatusOf(a)]
          /\ caller' = [caller EXCEPT ![r] = a]
    BY <1>3, <1>10
  <2>2. StatusOf(a) \in {"200", "500", "503", "504"}
    BY DEF StatusOf, Answers
  <2>3. QED
    BY <1>1, <2>1, <2>2
<1>11. QED
  BY <1>4, <1>5, <1>6, <1>8, <1>9, <1>10 DEF LoopStep, ThreadStep

(* One iteration more in one of the counted sets, and one more in its        *)
(* counter.                                                                  *)
LEMMA OneMoreTallied ==
  ASSUME SweepInv, TestInv, IsFiniteSet(fired'),
         NEW q, q \in fired', q \notin fired \ Owned,
         fired' \ Owned' = (fired \ Owned) \cup {q},
         \A p \in fired \ Owned : Outcome(p)' = Outcome(p),
         NEW o, o \in {"new", "garbled"} \cup Statuses,
         Outcome(q)' = o,
         tally' = [tally EXCEPT ![CounterOf(o)] = @ + 1]
  PROVE  \A c \in Counters : tally'[c] = Cardinality(Tallied(c)')
<1> DEFINE d == CounterOf(o)
<1>1. d \in Counters
  BY DEF CounterOf, Counters
<1> SUFFICES ASSUME NEW c \in Counters
             PROVE  tally'[c] = Cardinality(Tallied(c)')
  OBVIOUS
<1>2. Tallied(c)' = IF c = d THEN Tallied(c) \cup {q} ELSE Tallied(c)
  <2>1. Tallied(c)' = {p \in fired' \ Owned' : CounterOf(Outcome(p)') = c}
    BY DEF Tallied, CounterOf
  <2>2. QED
    BY <2>1 DEF Tallied
<1>3. q \notin Tallied(c) /\ IsFiniteSet(Tallied(c))
  BY FS_Subset DEF Tallied, SweepInv
<1>4. Cardinality(Tallied(c) \cup {q}) = Cardinality(Tallied(c)) + 1
  BY <1>3, FS_AddElement
<1>5. tally'[c] = IF c = d THEN tally[c] + 1 ELSE tally[c]
  BY <1>1 DEF TestInv, TestTypeOK
<1>6. tally[c] = Cardinality(Tallied(c))
  BY DEF SweepInv
<1> HIDE DEF d
<1>7. QED
  BY <1>2, <1>4, <1>5, <1>6

(* An iteration that begins is its user's, and nobody's count changes.       *)
LEMMA SendingKeepsSweepInv ==
  ASSUME SweepInv, TestInv, ServiceTypeOK, BeginWarmUp \/ \E v \in VUs : Fire(v)
  PROVE  SweepInv'
<1> DEFINE r == Fresh
<1>1. r \in Jobs \ fired /\ handler' = [handler EXCEPT ![r] = "reading"]
  BY FreshIsNew DEF BeginWarmUp, Fire, MayFire, BeginUpload
<1>2. /\ \A q \in Jobs : handler'[q] = IF q = r THEN "reading" ELSE handler[q]
      /\ handler[r] = "new"
  BY <1>1 DEF ServiceTypeOK, TestInv
<1>3. UNCHANGED <<caller, tally>>
  BY DEF BeginWarmUp, Fire, BeginUpload, vars
<1> HIDE DEF r
<1>4. /\ IsFiniteSet(fired')
      /\ fired' \ Owned' = fired \ Owned
      /\ Owned \cap fired \subseteq Owned'
      /\ r \in Owned'
  <2>1. CASE BeginWarmUp
    <3>1. warm' = r /\ fired' = {r} /\ UNCHANGED <<stage, vu, cut>> /\ stage = "setup" /\ warm = None
      BY <2>1 DEF BeginWarmUp, r
    <3>2. fired = {}
      BY <3>1, QueueAssumption DEF TestInv
    <3>3. QED
      BY <3>1, <3>2, FS_Singleton DEF Owned
  <2>2. CASE \E v \in VUs : Fire(v)
    <3>1. PICK v \in VUs : Fire(v)
      BY <2>2
    <3>2. /\ vu[v] = "ready" /\ fired' = fired \cup {r} /\ vu' = [vu EXCEPT ![v] = r]
          /\ UNCHANGED <<warm, cut>>
      BY <3>1 DEF Fire, MayFire, r
    <3>3. \A w \in VUs : vu'[w] = IF w = v THEN r ELSE vu[w]
      BY <3>2 DEF TestInv, TestTypeOK
    <3>4. "ready" \notin fired
      BY JobsAssumption DEF TestInv, TestTypeOK
    <3>5. IsFiniteSet(fired')
      BY <3>2, FS_AddElement DEF SweepInv
    <3>6. r \in Owned'
      BY <3>3 DEF Owned
    <3>7. \A q \in fired : q \in Owned' <=> q \in Owned
      BY <1>1, <3>2, <3>3, <3>4 DEF Owned
    <3>8. QED
      BY <3>2, <3>5, <3>6, <3>7
  <2>3. QED
    BY <2>1, <2>2
<1>g. garbled' = garbled /\ r \notin garbled
  BY <1>1 DEF BeginWarmUp, Fire, TestInv
<1>5. \A c \in Counters : Tallied(c)' = Tallied(c)
  <2>1. \A q \in fired \ Owned : Outcome(q)' = Outcome(q)
    BY <1>1, <1>2, <1>g DEF Outcome, TestInv, TestTypeOK
  <2>2. \A c \in Counters : Tallied(c)' = {q \in fired' \ Owned' : CounterOf(Outcome(q)') = c}
    BY DEF Tallied, CounterOf
  <2>3. QED
    BY <1>4, <2>1, <2>2 DEF Tallied
<1>6. \A q \in Jobs : Active(q)' => q \in Owned'
  BY <1>2, <1>4 DEF Active, SweepInv, TestInv
<1>7. \A q \in garbled' : handler'[q] = "200"
  BY <1>2, <1>g DEF SweepInv, TestInv, TestTypeOK
<1>8. QED
  BY <1>2, <1>3, <1>4, <1>5, <1>6, <1>7 DEF SweepInv

(* An iteration that ends is counted once; one that is cut off never is.     *)
LEMMA EndingKeepsSweepInv ==
  ASSUME SweepInv, TestInv,
         CutOff \/ \E v \in VUs : ConnectionFails(v) \/ ReadAnswer(v) \/ ReadGarbled(v) \/ BackOffEnds(v)
  PROVE  SweepInv'
<1>1. UNCHANGED <<handler, caller, warm>>
  BY DEF CutOff, ConnectionFails, ReadAnswer, ReadGarbled, BackOffEnds, serviceVars, handlerVars, vars
<1>g. \A q \in garbled' : handler'[q] = "200"
  BY <1>1 DEF CutOff, ConnectionFails, ReadAnswer, ReadGarbled, BackOffEnds, SweepInv
<1>2. SUFFICES /\ IsFiniteSet(fired')
               /\ \A q \in Jobs : Active(q) => q \in Owned'
               /\ \A c \in Counters : tally'[c] = Cardinality(Tallied(c)')
  BY <1>1, <1>g DEF SweepInv, Active
<1>s. ASSUME garbled' = garbled
      PROVE  \A q : Outcome(q)' = Outcome(q)
  BY <1>1, <1>s DEF Outcome
<1>t. \A c : Tallied(c)' = {q \in fired' \ Owned' : CounterOf(Outcome(q)') = c}
  BY DEF Tallied, CounterOf
<1>3. CASE CutOff
  <2>1. UNCHANGED <<fired, tally, garbled>>
        /\ cut' = cut \cup {q \in Jobs : \E v \in VUs : vu[v] = q}
        /\ vu' = [v \in VUs |-> "ready"]
    BY <1>3 DEF CutOff
  <2>2. \A q \in Jobs : q \in Owned' <=> q \in Owned
    BY <1>1, <2>1, JobsAssumption DEF Owned
  <2>3. \A c \in Counters : Tallied(c)' = Tallied(c)
    BY <1>s, <1>t, <2>1, <2>2 DEF Tallied, TestInv, TestTypeOK
  <2>4. QED
    BY <2>1, <2>2, <2>3 DEF SweepInv
<1>4. ASSUME NEW v \in VUs, ConnectionFails(v)
      PROVE  /\ IsFiniteSet(fired')
             /\ \A q \in Jobs : Active(q) => q \in Owned'
             /\ \A c \in Counters : tally'[c] = Cardinality(Tallied(c)')
  <2>1. PICK r \in Jobs \ fired :
          /\ fired' = fired \cup {r} /\ UNCHANGED <<vu, cut, garbled>>
          /\ tally' = [tally EXCEPT !["hard_errors"] = @ + 1]
    BY <1>4, FreshIsNew DEF ConnectionFails, MayFire
  <2>2. handler[r] = "new"
    BY <2>1 DEF TestInv
  <2>3. r \notin Owned /\ Owned' = Owned
    BY <1>1, <2>1, QueueAssumption DEF Owned, TestInv, TestTypeOK
  <2>4. IsFiniteSet(fired')
    BY <2>1, FS_AddElement DEF SweepInv
  <2>5. Outcome(r)' = "new" /\ CounterOf("new") = "hard_errors"
    <3>1. r \notin garbled'
      BY <2>1 DEF TestInv
    <3>2. QED
      BY <1>1, <2>2, <3>1 DEF CounterOf, Outcome
  <2>6. fired' \ Owned' = (fired \ Owned) \cup {r} /\ r \notin fired \ Owned
    BY <2>1, <2>3
  <2>7. \A c \in Counters : tally'[c] = Cardinality(Tallied(c)')
    BY <1>s, <2>1, <2>4, <2>5, <2>6, OneMoreTallied
  <2>8. QED
    BY <2>3, <2>4, <2>7 DEF SweepInv
<1>5. ASSUME NEW v \in VUs, ReadAnswer(v) \/ ReadGarbled(v)
      PROVE  /\ IsFiniteSet(fired')
             /\ \A q \in Jobs : Active(q) => q \in Owned'
             /\ \A c \in Counters : tally'[c] = Cardinality(Tallied(c)')
  <2>0. PICK q \in Jobs : q = vu[v]
    BY <1>5 DEF ReadAnswer, ReadGarbled
  <2>1. /\ q \in Jobs /\ handler[q] \in Statuses /\ UNCHANGED <<fired, cut>>
        /\ \E s \in {"ready", "sleeping"} : vu' = [vu EXCEPT ![v] = s]
    BY <1>5, <2>0 DEF ReadAnswer, ReadGarbled, Statuses
  <2>2. /\ q \in fired \ (cut \cup {warm})
        /\ \A w \in VUs : vu[w] = q => w = v
    BY <2>0, <2>1 DEF TestInv
  <2>3. PICK s \in {"ready", "sleeping"} : vu' = [vu EXCEPT ![v] = s]
    BY <2>1
  <2>4. \A w \in VUs : vu'[w] = IF w = v THEN s ELSE vu[w]
    BY <2>3 DEF TestInv, TestTypeOK
  <2>5. q \in Owned /\ q \notin garbled
    BY <2>0 DEF Owned, TestInv
  <2>o. PICK o \in {"new", "garbled"} \cup Statuses :
          /\ garbled' = IF o = "garbled" THEN garbled \cup {q} ELSE garbled
          /\ o # "garbled" => o = handler[q]
          /\ tally' = [tally EXCEPT ![CounterOf(o)] = @ + 1]
    <3>1. CASE ReadAnswer(v)
      BY <2>0, <2>1, <3>1 DEF ReadAnswer, Statuses
    <3>2. CASE ReadGarbled(v)
      <4>1. CounterOf("garbled") = "hard_errors"
        BY DEF CounterOf
      <4>2. QED
        BY <2>0, <3>2, <4>1 DEF ReadGarbled
    <3>3. QED
      BY <1>5, <3>1, <3>2
  <2>p. Outcome(q)' = o /\ \A p \in fired \ Owned : Outcome(p)' = Outcome(p)
    BY <1>1, <2>5, <2>o DEF Outcome
  <2>6. \A p \in Jobs : p \in Owned' <=> p \in Owned /\ p # q
    BY <1>1, <2>0, <2>1, <2>2, <2>4, JobsAssumption DEF Owned
  <2>7. fired' \ Owned' = (fired \ Owned) \cup {q} /\ q \notin fired \ Owned
    BY <2>1, <2>2, <2>5, <2>6 DEF TestInv, TestTypeOK
  <2>8. IsFiniteSet(fired')
    BY <2>1 DEF SweepInv
  <2>9. \A c \in Counters : tally'[c] = Cardinality(Tallied(c)')
    BY <2>1, <2>2, <2>7, <2>8, <2>o, <2>p, OneMoreTallied
  <2>10. ~Active(q)
    BY <2>1 DEF Active, Statuses
  <2>11. QED
    BY <2>6, <2>8, <2>9, <2>10 DEF SweepInv
<1>6. ASSUME NEW v \in VUs, BackOffEnds(v)
      PROVE  /\ IsFiniteSet(fired')
             /\ \A q \in Jobs : Active(q) => q \in Owned'
             /\ \A c \in Counters : tally'[c] = Cardinality(Tallied(c)')
  <2>1. /\ vu[v] = "sleeping" /\ vu' = [vu EXCEPT ![v] = "ready"]
        /\ UNCHANGED <<fired, cut, tally, garbled>>
    BY <1>6 DEF BackOffEnds
  <2>2. \A w \in VUs : vu'[w] = IF w = v THEN "ready" ELSE vu[w]
    BY <2>1 DEF TestInv, TestTypeOK
  <2>3. \A q \in Jobs : q \in Owned' <=> q \in Owned
    BY <1>1, <2>1, <2>2, JobsAssumption DEF Owned
  <2>4. \A c \in Counters : Tallied(c)' = Tallied(c)
    BY <1>s, <1>t, <2>1, <2>3 DEF Tallied, TestInv, TestTypeOK
  <2>5. QED
    BY <2>1, <2>3, <2>4 DEF SweepInv
<1>7. QED
  BY <1>3, <1>4, <1>5, <1>6

(* Every iteration that is over is in exactly one counter.                   *)
LEMMA SweepInvariance == TestSpec => [](ServiceInv /\ TestInv /\ SweepInv)
<1>1. TestInit => SweepInv
  <2> SUFFICES ASSUME TestInit PROVE SweepInv
    OBVIOUS
  <2>1. /\ fired = {} /\ garbled = {}
        /\ tally = [c \in Counters |-> 0] /\ handler = [r \in Jobs |-> "new"]
    BY DEF TestInit, ServiceInit
  <2>2. \A c \in Counters : Tallied(c) = {} /\ tally[c] = 0
    BY <2>1 DEF Tallied
  <2>3. QED
    BY <2>1, <2>2, FS_EmptySet DEF SweepInv, Active
<1>2. ASSUME ServiceInv, TestInv, SweepInv, [TestNext]_testVars
      PROVE  SweepInv'
  <2>1. CASE BeginWarmUp \/ \E v \in VUs : Fire(v)
    BY <1>2, <2>1, SendingKeepsSweepInv DEF ServiceInv
  <2>2. CASE CutOff \/ \E v \in VUs : ConnectionFails(v) \/ ReadAnswer(v) \/ ReadGarbled(v) \/ BackOffEnds(v)
    BY <1>2, <2>2, EndingKeepsSweepInv
  <2>3. CASE EndSetup \/ TimeIsUp \/ WriteSummary \/ Over \/ UNCHANGED testVars
    <3>1. UNCHANGED <<handler, caller, warm, fired, vu, tally, cut, garbled>>
      BY <2>3 DEF EndSetup, TimeIsUp, WriteSummary, Over, testVars, k6Vars, serviceVars,
                  handlerVars, vars
    <3>2. QED
      BY <1>2, <3>1 DEF SweepInv, Active, Owned, Tallied, Outcome
  <2>4. CASE LoopStep \/ ThreadStep
    <3>1. UNCHANGED <<warm, fired, vu, tally, cut, garbled>>
      BY <2>4 DEF LoopStep, ThreadStep, k6Vars
    <3>2. \A q \in Jobs :
            \/ handler'[q] = handler[q] /\ caller'[q] = caller[q]
            \/ /\ Active(q)
               /\ handler'[q] \in {"submitted", "200", "500", "503", "504"}
               /\ handler'[q] \in {"200", "503", "504"} => caller'[q] \in Answers
      BY <1>2, <2>4, ServingAnswersActive
    <3>3. Owned' = Owned
      BY <3>1 DEF Owned
    <3>4. \A q \in fired \ Owned : Outcome(q)' = Outcome(q)
      BY <1>2, <3>1, <3>2 DEF Outcome, SweepInv, TestInv, TestTypeOK
    <3>5. \A c \in Counters : Tallied(c)' = Tallied(c)
      <4>1. \A c : Tallied(c)' = {q \in fired' \ Owned' : CounterOf(Outcome(q)') = c}
        BY DEF Tallied, CounterOf
      <4>2. QED
        BY <3>1, <3>3, <3>4, <4>1 DEF Tallied
    <3>g. \A q \in garbled' : handler'[q] = "200"
      BY <1>2, <3>1, <3>2 DEF SweepInv, TestInv, TestTypeOK, Active
    <3>6. \A q \in Jobs : Active(q)' => Active(q)
      BY <3>2 DEF Active
    <3>7. QED
      BY <1>2, <3>1, <3>2, <3>3, <3>5, <3>6, <3>g DEF SweepInv
  <2>5. QED
    BY <1>2, <2>1, <2>2, <2>3, <2>4 DEF TestNext, k6Step
<1>3. ServiceBehaviour => []ServiceInv
  BY ServiceInvariance DEF ServiceBehaviour, ServiceSpec
<1>4. ServiceInv /\ TestInv /\ SweepInv /\ [TestNext]_testVars => SweepInv'
  BY <1>2
<1>5. QED
  BY <1>1, <1>3, <1>4, TestInvariance, LoadTestUsesService, PTL DEF TestSpec

(* Two disjoint parts of a finite set.                                       *)
LEMMA Parts ==
  ASSUME NEW S, NEW T, IsFiniteSet(S), IsFiniteSet(T), S \cap T = {}
  PROVE  /\ Cardinality(S \cup T) = Cardinality(S) + Cardinality(T)
         /\ Cardinality(S) \in Nat /\ Cardinality(T) \in Nat
<1>1. Cardinality(S \cup T) = Cardinality(S) + Cardinality(T) - Cardinality(S \cap T)
  BY FS_Union
<1>2. Cardinality(S \cap T) = 0
  BY FS_EmptySet
<1>3. Cardinality(S) \in Nat /\ Cardinality(T) \in Nat
  BY FS_CardinalityType
<1>4. QED
  BY <1>1, <1>2, <1>3

(* k6's counters and the service's agree, but for the answers that nobody    *)
(* reads.                                                                    *)
THEOREM SummaryAgrees == TestSpec => []SummaryReconciles
<1>1. ASSUME ServiceInv, TestInv, SweepInv, CountersReconcile
      PROVE  SummaryReconciles
  <2> DEFINE Lost == {warm} \cup cut \cup garbled \cup {vu[v] : v \in VUs}
             Untallied(s) == {r \in Lost : r \in Jobs /\ handler[r] = s}
             Ended(s) == {r \in Jobs : handler[r] = s}
             New == {r \in fired : handler[r] = "new"}
  <2>1. ASSUME NEW S, S \subseteq fired
        PROVE  IsFiniteSet(S)
    BY <1>1, <2>1, FS_Subset DEF SweepInv
  <2>2. ASSUME NEW s, s # "new"
        PROVE  Ended(s) \subseteq fired /\ Untallied(s) \subseteq fired
    BY <1>1, <2>2 DEF TestInv
  <2>3. ASSUME NEW a \in {"ok", "full", "timeout"}
        PROVE  counted[a] = tally[CounterOf(StatusOf(a))] + Cardinality(Untallied(StatusOf(a)))
    <3> DEFINE s == StatusOf(a)
    <3>1. s \in {"200", "503", "504"} /\ a \in Answers
      BY DEF StatusOf, Answers
    <3>2. CounterOf(s) \in Counters \ {"hard_errors"}
      BY <3>1 DEF CounterOf, Counters
    <3>3. \A x \in {"new", "garbled", "500", "200", "503", "504"} : CounterOf(x) = CounterOf(s) <=> x = s
      BY <3>1 DEF CounterOf
    <3>4. \A b \in Answers : StatusOf(b) = s <=> b = a
      BY DEF StatusOf, Answers
    <3>5. {r \in Jobs : caller[r] = a} = Ended(s)
      <4>1. ASSUME NEW r \in Jobs, handler[r] = s PROVE caller[r] = a
        <5>1. caller[r] \in Answers
          BY <1>1, <3>1, <4>1 DEF SweepInv
        <5>2. handler[r] = StatusOf(caller[r])
          BY <1>1, <5>1 DEF ServiceInv, HandlerInv
        <5>3. QED
          BY <3>4, <4>1, <5>1, <5>2
      <4>2. ASSUME NEW r \in Jobs, caller[r] = a PROVE handler[r] = s
        BY <1>1, <3>1, <4>2 DEF ServiceInv, HandlerInv
      <4>3. QED
        BY <4>1, <4>2
    <3>6. counted[a] = Cardinality(Ended(s))
      BY <1>1, <3>1, <3>5 DEF CountersReconcile
    <3> HIDE DEF s
    <3>7. Tallied(CounterOf(s)) = Ended(s) \ Lost
      <4>1. \A r \in fired \ Owned : handler[r] \in {"new", "500", "200", "503", "504"}
        BY <1>1 DEF SweepInv, Active, TestInv, TestTypeOK
      <4>2. Ended(s) \subseteq fired
        BY <2>2, <3>1
      <4>3. fired \subseteq Jobs
        BY <1>1 DEF TestInv, TestTypeOK
      <4>g. \A r : r \in Lost <=> r \in Owned \/ r \in garbled
        BY DEF Owned
      <4>4. QED
        BY <3>1, <3>3, <4>1, <4>2, <4>3, <4>g DEF Tallied, Outcome
    <3>8. Untallied(s) = Ended(s) \cap Lost
      BY DEF Lost
    <3>9. /\ Ended(s) = (Ended(s) \ Lost) \cup (Ended(s) \cap Lost)
          /\ IsFiniteSet(Ended(s) \ Lost) /\ IsFiniteSet(Ended(s) \cap Lost)
      <4>1. Ended(s) \subseteq fired
        BY <2>2, <3>1
      <4>2. Ended(s) \ Lost \subseteq fired /\ Ended(s) \cap Lost \subseteq fired
        BY <4>1
      <4> HIDE DEF Ended
      <4>3. QED
        BY <2>1, <4>2
    <3>10. Cardinality(Ended(s)) = Cardinality(Ended(s) \ Lost) + Cardinality(Ended(s) \cap Lost)
      <4> HIDE DEF Ended
      <4>1. (Ended(s) \ Lost) \cap (Ended(s) \cap Lost) = {}
        OBVIOUS
      <4>2. QED
        BY <3>9, <4>1, Parts
    <3>11. tally[CounterOf(s)] = Cardinality(Ended(s) \ Lost)
      BY <1>1, <3>2, <3>7 DEF SweepInv
    <3> HIDE DEF Ended, Untallied
    <3>12. counted[a] = tally[CounterOf(s)] + Cardinality(Untallied(s))
      BY <3>6, <3>8, <3>10, <3>11
    <3>13. QED
      BY <3>12 DEF s
  <2>4. tally["hard_errors"] =
          Cardinality(New) + Cardinality(garbled) + Cardinality(Ended("500")) - Cardinality(Untallied("500"))
    <3> DEFINE Faults == Ended("500") \ Lost
               Unread500 == Untallied("500")
    <3>2. Ended("500") \subseteq fired
      BY <2>2
    <3>3. New \cap Owned = {}
      BY <1>1, QueueAssumption, JobsAssumption DEF TestInv, TestTypeOK, Owned
    <3>g. garbled \subseteq fired \ Owned /\ \A r \in garbled : handler[r] = "200"
      BY <1>1 DEF TestInv, SweepInv, Owned
    <3>4. Tallied("hard_errors") = New \cup (garbled \cup Faults)
      <4>1. \A r \in fired \ Owned : handler[r] \in {"new", "500", "200", "503", "504"}
        BY <1>1 DEF SweepInv, Active, TestInv, TestTypeOK
      <4>2. \A x \in {"new", "garbled", "500", "200", "503", "504"} :
              CounterOf(x) = "hard_errors" <=> x \in {"new", "garbled", "500"}
        BY DEF CounterOf
      <4>3. fired \subseteq Jobs
        BY <1>1 DEF TestInv, TestTypeOK
      <4>4. \A r : r \in Lost <=> r \in Owned \/ r \in garbled
        BY DEF Owned
      <4>5. QED
        BY <3>2, <3>3, <3>g, <4>1, <4>2, <4>3, <4>4 DEF Tallied, Outcome
    <3>5. New \cap (garbled \cup Faults) = {} /\ garbled \cap Faults = {}
      BY <3>g
    <3>6. New \subseteq fired /\ Faults \subseteq fired /\ Unread500 \subseteq fired /\ garbled \subseteq fired
      BY <3>2, <3>g
    <3>7. tally["hard_errors"] = Cardinality(New \cup (garbled \cup Faults))
      BY <1>1, <3>4 DEF SweepInv, Counters
    <3>8. Ended("500") = Faults \cup Unread500 /\ Faults \cap Unread500 = {}
      OBVIOUS
    <3> HIDE DEF New, Faults, Unread500
    <3>9. /\ IsFiniteSet(New) /\ IsFiniteSet(Faults) /\ IsFiniteSet(Unread500) /\ IsFiniteSet(garbled)
          /\ IsFiniteSet(garbled \cup Faults)
      <4>1. garbled \cup Faults \subseteq fired
        BY <3>6
      <4>2. QED
        BY <2>1, <3>6, <4>1
    <3>10. /\ Cardinality(New \cup (garbled \cup Faults)) = Cardinality(New) + Cardinality(garbled \cup Faults)
           /\ Cardinality(New) \in Nat
      BY <3>5, <3>9, Parts
    <3>11. /\ Cardinality(garbled \cup Faults) = Cardinality(garbled) + Cardinality(Faults)
           /\ Cardinality(garbled) \in Nat /\ Cardinality(Faults) \in Nat
      BY <3>5, <3>9, Parts
    <3>12. /\ Cardinality(Faults \cup Unread500) = Cardinality(Faults) + Cardinality(Unread500)
           /\ Cardinality(Unread500) \in Nat
      BY <3>8, <3>9, Parts
    <3>13. Cardinality(Ended("500")) = Cardinality(Faults) + Cardinality(Unread500)
      BY <3>8, <3>12
    <3>14. tally["hard_errors"] =
             Cardinality(New) + Cardinality(garbled) + Cardinality(Ended("500")) - Cardinality(Unread500)
      <4> HIDE DEF Ended
      <4>1. QED
        BY <3>7, <3>10, <3>11, <3>12, <3>13
    <3>15. QED
      BY <3>14 DEF Unread500, New
  <2>5. QED
    BY <2>3, <2>4 DEF SummaryReconciles
<1>2. ServiceInv /\ TestInv /\ SweepInv /\ CountersReconcile => SummaryReconciles
  BY <1>1
<1>3. ServiceBehaviour => []CountersReconcile
  BY CountersAgree DEF ServiceBehaviour, ServiceSpec
<1>4. QED
  BY <1>2, <1>3, SweepInvariance, LoadTestUsesService, PTL

(* The caveats of the report tell of each kind of loss if and only if there  *)
(* was one.                                                                  *)
THEOREM CaveatsAreTrue == TestSpec => []CaveatsTellTheRun
<1>1. ASSUME TestInv, SweepInv, stage = "written"
      PROVE  LET Ended(A) == {r \in fired \ ({warm} \cup cut) : Outcome(r) \in A}
                 Said(t) == Caveats(Summary(t))
             IN \A t \in 0 .. tally["completed"] :
                  /\ "hard_errors" \in Said(t) <=> Ended({"new", "garbled", "500"}) # {}
                  /\ "timeout_504" \in Said(t) <=> Ended({"504"}) # {}
                  /\ "queue_full_503" \in Said(t) <=> Ended({"503"}) # {}
                  /\ "few_samples" \in Said(t) <=> Cardinality(Ended({"200"})) < Enough
  <2> DEFINE Ended(A) == {r \in fired \ ({warm} \cup cut) : Outcome(r) \in A}
  <2> SUFFICES ASSUME NEW t \in 0 .. tally["completed"]
               PROVE  /\ "hard_errors" \in Caveats(Summary(t)) <=> Ended({"new", "garbled", "500"}) # {}
                      /\ "timeout_504" \in Caveats(Summary(t)) <=> Ended({"504"}) # {}
                      /\ "queue_full_503" \in Caveats(Summary(t)) <=> Ended({"503"}) # {}
                      /\ "few_samples" \in Caveats(Summary(t)) <=> Cardinality(Ended({"200"})) < Enough
    OBVIOUS
  <2>1. \A c \in Counters : Summary(t)[c] = tally[c]
    BY DEF Summary, Counters
  <2>2. /\ "hard_errors" \in Caveats(Summary(t)) <=> tally["hard_errors"] > 0
        /\ "timeout_504" \in Caveats(Summary(t)) <=> tally["timeout_504"] > 0
        /\ "queue_full_503" \in Caveats(Summary(t)) <=> tally["queue_full_503"] > 0
        /\ "few_samples" \in Caveats(Summary(t)) <=> tally["completed"] < Enough
    <3>1. \A c \in {"hard_errors", "timeout_504", "queue_full_503"} :
            c \in Caveats(Summary(t)) <=> Summary(t)[c] > 0
      BY DEF Caveats
    <3>2. "few_samples" \in Caveats(Summary(t)) <=> Summary(t)["completed"] < Enough
      BY DEF Caveats
    <3>3. QED
      BY <2>1, <3>1, <3>2 DEF Counters
  <2>3. fired \ Owned = fired \ ({warm} \cup cut)
    BY <1>1, JobsAssumption DEF Owned, TestInv, TestTypeOK
  <2>4. \A r \in fired \ Owned : Outcome(r) \in {"new", "garbled", "500", "200", "503", "504"}
    BY <1>1 DEF Outcome, SweepInv, Active, TestInv, TestTypeOK
  <2>5. \A x \in {"new", "garbled", "500", "200", "503", "504"} :
          /\ CounterOf(x) = "hard_errors" <=> x \in {"new", "garbled", "500"}
          /\ CounterOf(x) = "timeout_504" <=> x = "504"
          /\ CounterOf(x) = "queue_full_503" <=> x = "503"
          /\ CounterOf(x) = "completed" <=> x = "200"
    BY DEF CounterOf
  <2>6. /\ Tallied("hard_errors") = Ended({"new", "garbled", "500"})
        /\ Tallied("timeout_504") = Ended({"504"})
        /\ Tallied("queue_full_503") = Ended({"503"})
        /\ Tallied("completed") = Ended({"200"})
    BY <2>3, <2>4, <2>5 DEF Tallied
  <2>7. ASSUME NEW c \in Counters
        PROVE  /\ tally[c] = Cardinality(Tallied(c)) /\ tally[c] \in Nat
               /\ tally[c] > 0 <=> Tallied(c) # {}
    <3>1. IsFiniteSet(Tallied(c))
      BY <1>1, FS_Subset DEF Tallied, SweepInv
    <3>2. tally[c] = Cardinality(Tallied(c)) /\ tally[c] \in Nat
      BY <1>1 DEF SweepInv, TestInv, TestTypeOK
    <3>3. Cardinality(Tallied(c)) = 0 <=> Tallied(c) = {}
      BY <3>1, FS_EmptySet
    <3>4. QED
      BY <3>2, <3>3
  <2> HIDE DEF Ended
  <2>8. QED
    BY <2>2, <2>6, <2>7 DEF Counters
<1>2. TestInv /\ SweepInv => CaveatsTellTheRun
  BY <1>1 DEF CaveatsTellTheRun
<1>3. QED
  BY <1>2, SweepInvariance, PTL

-----------------------------------------------------------------------------
(* What a 503 and what the wait in the queue means.  The requests under way  *)
(* are at most as many as the users, once setup() is over; so if the queue   *)
(* is full, some of the requests in it are under way no more.                *)

Crowd == {r \in Jobs : Active(r)} \ {warm}

CrowdInv ==
  /\ stage # "setup" => ~Active(warm)
  /\ Cardinality(Crowd) <= Cardinality(VUs)

(* While nothing is cut off, each request under way is some user's.          *)
LEMMA CrowdOfUsers ==
  ASSUME TestInv, SweepInv, cut = {}
  PROVE  Cardinality(Crowd) <= Cardinality(VUs)
<1>1. \A r \in Crowd : \E v \in VUs : vu[v] = r
  BY DEF Crowd, SweepInv, Owned
<1> DEFINE f == [r \in Crowd |-> CHOOSE v \in VUs : vu[v] = r]
<1>2. \A r \in Crowd : f[r] \in VUs /\ vu[f[r]] = r
  BY <1>1
<1>3. f \in [Crowd -> VUs]
  BY <1>2
<1> HIDE DEF f
<1>4. f \in Injection(Crowd, VUs)
  BY <1>2, <1>3 DEF Injection, IsInjective
<1>5. QED
  BY <1>4, FS_Injection, UsersAssumption

(* Nothing begins once the time is up, and what has ended stays so.          *)
LEMMA CrowdStays ==
  ASSUME ServiceInv, TestInv, SweepInv, CrowdInv, TestInv', SweepInv', [TestNext]_testVars
  PROVE  CrowdInv'
<1>1. \/ BeginWarmUp \/ \E v \in VUs : Fire(v)
      \/ \A q \in Jobs : Active(q)' => Active(q)
  <2>1. CASE LoopStep \/ ThreadStep
    BY <2>1, ServingAnswersActive DEF Active
  <2>2. CASE \/ EndSetup \/ TimeIsUp \/ WriteSummary \/ CutOff \/ Over \/ UNCHANGED testVars
             \/ \E v \in VUs : ConnectionFails(v) \/ ReadAnswer(v) \/ ReadGarbled(v) \/ BackOffEnds(v)
    BY <2>2 DEF EndSetup, TimeIsUp, WriteSummary, CutOff, Over, ConnectionFails, ReadAnswer,
                ReadGarbled, BackOffEnds, testVars, serviceVars, handlerVars, Active
  <2>3. QED
    BY <2>1, <2>2 DEF TestNext, k6Step
<1>2. Cardinality(Crowd') <= Cardinality(VUs)
  <2>1. CASE cut' = {}
    <3>1. (TestInv /\ SweepInv /\ cut = {} => Cardinality(Crowd) <= Cardinality(VUs))'
      BY CrowdOfUsers, PTL
    <3>2. QED
      BY <2>1, <3>1
  <2>2. CASE cut' # {}
    <3>1. stage' \in {"stopping", "written"}
      BY <2>2 DEF TestInv
    <3>2. ~(BeginWarmUp \/ \E v \in VUs : Fire(v))
      BY <3>1 DEF BeginWarmUp, Fire, MayFire
    <3>3. warm' = warm
      BY <3>2 DEF TestNext, k6Step, EndSetup, TimeIsUp, WriteSummary, CutOff, Over, ConnectionFails,
                  ReadAnswer, ReadGarbled, BackOffEnds, LoopStep, ThreadStep, testVars, k6Vars
    <3>4. Crowd' \subseteq Crowd
      BY <1>1, <3>2, <3>3 DEF Crowd
    <3>5. IsFiniteSet(Crowd)
      BY FS_Subset DEF Crowd, SweepInv, TestInv, Active
    <3>6. Cardinality(Crowd') <= Cardinality(Crowd) /\ Cardinality(Crowd') \in Nat
      BY <3>4, <3>5, FS_Subset, FS_CardinalityType
    <3>7. Cardinality(Crowd) \in Nat /\ Cardinality(VUs) \in Nat
      BY <3>5, UsersAssumption, FS_CardinalityType
    <3>8. QED
      BY <3>6, <3>7 DEF CrowdInv
  <2>3. QED
    BY <2>1, <2>2
<1>3. stage' # "setup" => ~Active(warm)'
  <2> SUFFICES ASSUME stage' # "setup" PROVE ~Active(warm)'
    OBVIOUS
  <2>1. CASE EndSetup
    BY <2>1 DEF EndSetup, Active, Statuses, serviceVars, handlerVars
  <2>2. CASE ~EndSetup
    <3>1. ~BeginWarmUp
      BY DEF BeginWarmUp
    <3>2. warm' = warm /\ stage # "setup"
      BY <2>2, <3>1 DEF TestNext, k6Step, TimeIsUp, WriteSummary, CutOff, Over, ConnectionFails,
                  ReadAnswer, ReadGarbled, BackOffEnds, Fire, MayFire, LoopStep, ThreadStep, testVars, k6Vars
    <3>3. warm \in fired /\ warm \in Jobs /\ ~Active(warm)
      BY <3>2 DEF TestInv, TestTypeOK, CrowdInv
    <3>4. CASE \E v \in VUs : Fire(v)
      <4>1. handler' = [handler EXCEPT ![Fresh] = "reading"] /\ Fresh \in Jobs \ fired
        BY <3>4, FreshIsNew DEF Fire, MayFire, BeginUpload
      <4>2. handler'[warm] = handler[warm]
        BY <3>3, <4>1 DEF ServiceInv, ServiceTypeOK
      <4>3. QED
        BY <3>2, <3>3, <4>2 DEF Active
    <3>5. CASE ~\E v \in VUs : Fire(v)
      BY <1>1, <3>1, <3>2, <3>3, <3>5 DEF Active
    <3>6. QED
      BY <3>4, <3>5
  <2>3. QED
    BY <2>1, <2>2
<1>4. QED
  BY <1>2, <1>3 DEF CrowdInv

(* Once setup() is over, the requests under way are no more than the users,  *)
(* and the service has counted its timeouts.                                 *)
LEMMA CrowdInvariance ==
  TestSpec => [](ServiceInv /\ TestInv /\ SweepInv /\ CrowdInv /\ AnswersCounted)
<1>1. TestInit => CrowdInv
  <2> SUFFICES ASSUME TestInit PROVE CrowdInv
    OBVIOUS
  <2>1. Crowd = {} /\ stage = "setup"
    BY DEF TestInit, ServiceInit, Crowd, Active
  <2>2. Cardinality(VUs) \in Nat
    BY UsersAssumption, FS_CardinalityType
  <2>3. QED
    BY <2>1, <2>2, FS_EmptySet DEF CrowdInv
<1>2. ServiceInv /\ TestInv /\ SweepInv /\ CrowdInv /\ TestInv' /\ SweepInv' /\ [TestNext]_testVars
        => CrowdInv'
  BY CrowdStays
<1>3. ServiceBehaviour => []AnswersCounted
  BY CountsAreRight, PTL DEF ServiceBehaviour, ServiceSpec
<1>4. QED
  BY <1>1, <1>2, <1>3, SweepInvariance, LoadTestUsesService, PTL DEF TestSpec

(* A job that the queue or the worker holds is a request under way, or one   *)
(* that has timed out.                                                       *)
LEMMA HeldIsOwed ==
  ASSUME ServiceInv, NEW j \in Jobs, future[j] \in {"pending", "cancelled"}
  PROVE  Active(j) \/ caller[j] = "timeout"
<1>1. caller[j] \in {"idle", "waiting"} \cup Answers
  BY DEF ServiceInv, IInv, TypeOK
<1>2. caller[j] \in {"waiting", "timeout"}
  BY <1>1 DEF ServiceInv, IInv, CallerInv, Answers
<1>3. QED
  BY <1>2 DEF ServiceInv, HandlerInv, Active

(* What stands before a queued request is other people's: a request under    *)
(* way of another user, or what a timeout has left.                          *)
THEOREM QueueWaitIsOthers == TestSpec => []WaitsForOthers
<1>1. ASSUME ServiceInv, TestInv, SweepInv, CrowdInv, AnswersCounted,
             NEW v \in VUs, NEW r \in Jobs, vu[v] = r, Queued(r)
      PROVE  Cardinality(Ahead(r)) < Cardinality(VUs) + counted["timeout"]
  <2> DEFINE T == Answered("timeout")
             Others == Crowd \cup T
  <2>1. ~Active(warm)
    BY <1>1, JobsAssumption DEF TestInv, CrowdInv
  <2>2. ASSUME NEW j \in Jobs, future[j] \in {"pending", "cancelled"}
        PROVE  j \in Others
    BY <1>1, <2>1, <2>2, HeldIsOwed DEF Crowd, Answered
  <2>3. PICK k \in Unread : puts[k] = r
    BY <1>1 DEF Queued
  <2>4. /\ Len(puts) \in Nat /\ gets \in Nat /\ None \notin Jobs
        /\ \A i \in Unread : i \in 1 .. Len(puts) /\ i > gets
        /\ \A i, m \in 1 .. Len(puts) : puts[i] = puts[m] => i = m
    BY <1>1, QueueAssumption DEF Unread, ServiceInv, IInv, TypeOK, PutsInv
  <2>5. r \in Others
    BY <1>1, <2>2, <2>3, <2>4 DEF ServiceInv, IInv, UnstartedInv
  <2>6. ASSUME NEW j \in Ahead(r)
        PROVE  j \in Others \ {r}
    <3>1. j \in Jobs
      BY DEF Ahead
    <3>2. CASE worker = "serving" /\ current = j
      <4>1. gets > 0 /\ j = puts[gets] /\ future[j] \in {"pending", "cancelled"}
        BY <1>1, <3>2 DEF ServiceInv, IInv, WorkerInv
      <4>2. gets \in 1 .. Len(puts) /\ gets # k
        BY <2>3, <2>4, <4>1
      <4>3. QED
        BY <2>2, <2>3, <2>4, <3>1, <4>1, <4>2
    <3>3. CASE \E i, m \in Unread : i < m /\ puts[i] = j /\ puts[m] = r
      <4>1. PICK i, m \in Unread : i < m /\ puts[i] = j /\ puts[m] = r
        BY <3>3
      <4>2. future[j] \in {"pending", "cancelled"}
        BY <1>1, <2>4, <3>1, <4>1 DEF ServiceInv, IInv, UnstartedInv
      <4>3. QED
        BY <2>2, <2>4, <3>1, <4>1, <4>2
    <3>4. QED
      BY <3>2, <3>3 DEF Ahead
  <2>7. IsFiniteSet(Crowd) /\ Cardinality(Crowd) <= Cardinality(VUs)
    BY <1>1, FS_Subset DEF Crowd, SweepInv, TestInv, Active, CrowdInv
  <2>8. IsFiniteSet(T) /\ Cardinality(T) = counted["timeout"]
    BY <1>1 DEF AnswersCounted, Answers
  <2> HIDE DEF T, Others
  <2>9. /\ IsFiniteSet(Others)
        /\ Cardinality(Others) <= Cardinality(Crowd) + Cardinality(T)
    <3>1. Others = Crowd \cup T
      BY DEF Others
    <3>2. Cardinality(Others) = Cardinality(Crowd) + Cardinality(T) - Cardinality(Crowd \cap T)
      BY <2>7, <2>8, <3>1, FS_Union
    <3>3. IsFiniteSet(Others) /\ Cardinality(Crowd \cap T) \in Nat
      BY <2>7, <2>8, <3>1, FS_Union, FS_Intersection, FS_CardinalityType
    <3>4. Cardinality(Crowd) \in Nat /\ Cardinality(T) \in Nat
      BY <2>7, <2>8, FS_CardinalityType
    <3>5. QED
      BY <3>2, <3>3, <3>4
  <2>10. /\ IsFiniteSet(Others \ {r}) /\ Cardinality(Others \ {r}) = Cardinality(Others) - 1
    BY <2>5, <2>9, FS_RemoveElement
  <2>11. Cardinality(Ahead(r)) <= Cardinality(Others \ {r})
    <3>1. Ahead(r) \subseteq Others \ {r}
      BY <2>6
    <3>2. QED
      BY <2>10, <3>1, FS_Subset
  <2>12. /\ Cardinality(Ahead(r)) \in Nat /\ Cardinality(Others) \in Nat
         /\ Cardinality(Crowd) \in Nat /\ Cardinality(T) \in Nat /\ Cardinality(VUs) \in Nat
    <3>1. IsFiniteSet(Ahead(r))
      BY <2>6, <2>10, FS_Subset
    <3>2. QED
      BY <2>7, <2>8, <2>9, <3>1, UsersAssumption, FS_CardinalityType
  <2>13. QED
    BY <2>7, <2>8, <2>9, <2>10, <2>11, <2>12
<1>2. ServiceInv /\ TestInv /\ SweepInv /\ CrowdInv /\ AnswersCounted => WaitsForOthers
  BY <1>1 DEF WaitsForOthers
<1>3. QED
  BY <1>2, CrowdInvariance, PTL

(* A request that is refused while nobody has timed out would be one too     *)
(* many for the users there are.                                             *)
LEMMA RefusalNeedsTimeout ==
  ASSUME ServiceInv, TestInv, SweepInv, CrowdInv, AnswersCounted,
         Cardinality(VUs) <= MaxDepth, counted["timeout"] = 0,
         NEW r \in Jobs, SubmitRefused(r)
  PROVE  FALSE
<1>1. Active(r) /\ caller[r] = "idle" /\ Full
  BY DEF SubmitRefused, Refuse, Active
<1>2. {q \in Jobs : caller[q] = "timeout"} = {}
  <2>1. IsFiniteSet(Answered("timeout")) /\ Cardinality(Answered("timeout")) = 0
    BY DEF AnswersCounted, Answers
  <2>2. QED
    BY <2>1, FS_EmptySet DEF Answered
<1>3. ASSUME NEW i \in Unread
      PROVE  puts[i] \in Jobs \ {r} /\ Active(puts[i])
  <2>1. i \in 1 .. Len(puts)
    BY <1>3 DEF Unread, ServiceInv, IInv, TypeOK
  <2>2. puts[i] # None
    BY <1>1, <2>1 DEF ServiceInv, LifespanInv, IInv, StopInv
  <2>3. puts[i] \in Jobs
    BY <2>1, <2>2 DEF ServiceInv, IInv, TypeOK, Entry
  <2>4. future[puts[i]] \in {"pending", "cancelled"}
    BY <1>3, <2>2 DEF ServiceInv, IInv, UnstartedInv
  <2>5. caller[puts[i]] \in {"idle", "waiting"} \cup Answers
    BY <2>3 DEF ServiceInv, IInv, TypeOK
  <2>6. caller[puts[i]] = "waiting"
    BY <1>2, <2>3, <2>4, <2>5 DEF ServiceInv, IInv, CallerInv, Answers
  <2>7. handler[puts[i]] = "submitted"
    BY <2>3, <2>6 DEF ServiceInv, HandlerInv
  <2>8. QED
    BY <1>1, <2>3, <2>6, <2>7 DEF Active
<1>4. /\ Len(puts) \in Nat /\ gets \in Nat /\ Len(puts) - gets = MaxDepth
      /\ MaxDepth \in Nat \ {0} /\ gets + 1 \in Unread
  <2>1. Len(puts) \in Nat /\ gets \in Nat /\ Len(puts) - gets <= MaxDepth
    BY DEF ServiceInv, IInv, TypeOK
  <2>2. Len(puts) - gets >= MaxDepth
    BY <1>1 DEF Full, Depth
  <2>3. QED
    BY <2>1, <2>2, QueueAssumption DEF Unread
<1>5. stage # "setup"
  <2> SUFFICES ASSUME stage = "setup" PROVE FALSE
    OBVIOUS
  <2>1. \A q \in Jobs : Active(q) => q = warm
    BY DEF TestInv, Active
  <2>2. QED
    BY <1>1, <1>3, <1>4, <2>1
<1>6. r \in Crowd /\ \A i \in Unread : puts[i] \in Crowd \ {r}
  BY <1>1, <1>3, <1>5 DEF CrowdInv, Crowd
<1>7. IsFiniteSet(Crowd)
  BY FS_Subset DEF Crowd, SweepInv, TestInv, Active
<1>8. /\ IsFiniteSet(Crowd \ {r}) /\ Cardinality(Crowd \ {r}) = Cardinality(Crowd) - 1
      /\ Cardinality(Crowd) \in Nat
  BY <1>6, <1>7, FS_RemoveElement, FS_CardinalityType
<1>9. IsFiniteSet(Unread) /\ Cardinality(Unread) = MaxDepth
  BY <1>4, FS_Interval DEF Unread
<1>10. Cardinality(Unread) <= Cardinality(Crowd \ {r})
  <2> DEFINE g == [i \in Unread |-> puts[i]]
  <2>1. g \in [Unread -> Crowd \ {r}]
    BY <1>6
  <2>2. \A i, k \in Unread : g[i] = g[k] => i = k
    BY <1>4 DEF Unread, ServiceInv, IInv, PutsInv
  <2> HIDE DEF g
  <2>3. g \in Injection(Unread, Crowd \ {r})
    BY <2>1, <2>2 DEF Injection, IsInjective
  <2>4. QED
    BY <1>8, <2>3, FS_Injection
<1>11. Cardinality(VUs) \in Nat /\ Cardinality(Crowd) <= Cardinality(VUs)
  BY UsersAssumption, FS_CardinalityType DEF CrowdInv
<1>12. QED
  BY <1>4, <1>8, <1>9, <1>10, <1>11

(* With no more users than places in the queue, a 503 is the trace of an     *)
(* earlier timeout, never of the load alone.                                 *)
THEOREM RefusalsComeOfTimeouts == TestSpec => []FullOnlyOfAbandoned
<1>1. TestInit => FullOnlyOfAbandoned
  BY DEF TestInit, ServiceInit, FullOnlyOfAbandoned, Answers
<1>2. ASSUME ServiceInv, TestInv, SweepInv, CrowdInv, AnswersCounted, FullOnlyOfAbandoned,
             [TestNext]_testVars
      PROVE  FullOnlyOfAbandoned'
  <2>1. counted \in [Answers -> Nat]
    BY <1>2 DEF ServiceInv, ServiceTypeOK
  <2>2. \/ counted' = counted
        \/ \E r \in Jobs : SubmitRefused(r) \/ Respond(r)
    BY <1>2, TestStepIsServiceStep DEF ServiceNext, Reject, BeginUpload, ReadChunk, UploadFails,
       Submit, TimerFires, ThreadStarts, OpenMedia, MediaMissing, RunReturns, RunFails, WorkerWakes,
       WorkerSettles, BeginDrain, EnterStop, PutResumes, Leave, Down, handlerVars, serviceVars
  <2>3. CASE counted' = counted
    BY <1>2, <2>3 DEF FullOnlyOfAbandoned
  <2>4. ASSUME NEW r \in Jobs, SubmitRefused(r)
        PROVE  FullOnlyOfAbandoned'
    <3>1. counted'["timeout"] = counted["timeout"] /\ counted["timeout"] \in Nat
      BY <2>1, <2>4 DEF SubmitRefused, Reply, Answers
    <3>2. Cardinality(VUs) <= MaxDepth => counted["timeout"] # 0
      BY <1>2, <2>4, RefusalNeedsTimeout
    <3>3. QED
      BY <3>1, <3>2 DEF FullOnlyOfAbandoned
  <2>5. ASSUME NEW r \in Jobs, Respond(r)
        PROVE  FullOnlyOfAbandoned'
    <3>1. /\ counted' = [counted EXCEPT ![Answer(r)] = @ + 1]
          /\ Answer(r) \in Answers \ {"full"}
      BY <2>5 DEF Respond, Reply, Answer, Answers
    <3>2. counted'["full"] = counted["full"] /\ (counted["timeout"] > 0 => counted'["timeout"] > 0)
      BY <2>1, <3>1 DEF Answers
    <3>3. QED
      BY <1>2, <3>2 DEF FullOnlyOfAbandoned
  <2>6. QED
    BY <2>2, <2>3, <2>4, <2>5
<1>3. ServiceInv /\ TestInv /\ SweepInv /\ CrowdInv /\ AnswersCounted /\ FullOnlyOfAbandoned
        /\ [TestNext]_testVars => FullOnlyOfAbandoned'
  BY <1>2
<1>4. QED
  BY <1>1, <1>3, CrowdInvariance, PTL DEF TestSpec

=============================================================================
