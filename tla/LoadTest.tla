------------------------------- MODULE LoadTest -------------------------------
(***************************************************************************)
(* The benchmark (loadtest/load.js): a closed loop of k6's virtual users    *)
(* around a service that has no other client.  An iteration is a request of *)
(* Service; its sample file is well-formed and below the cap, so reading it *)
(* is the one step that ends in Submit.                                     *)
(*                                                                         *)
(* External: k6's constant-vus executor, which lets iterations under way    *)
(* finish once the duration is over, until gracefulStop interrupts them;    *)
(* and its connections, any of which may fail before the request is sent.   *)
(***************************************************************************)
EXTENDS Service, Report

CONSTANT VUs  \* k6's virtual users

ASSUME JobsAssumption == Jobs \cap {"ready", "sleeping"} = {}

ASSUME UsersAssumption == IsFiniteSet(VUs)

VARIABLES
  stage,   \* "setup", "sweep", "stopping" or "written"
  warm,    \* the request of setup(), once it is under way
  fired,   \* the iterations begun, and that request
  vu,      \* per user, the request it awaits, or "ready" or "sleeping"
  tally,   \* the counters of load.js
  cut,     \* the requests whose iterations k6 interrupted
  garbled  \* the requests whose 200 came without a body load.js can use

k6Vars == <<stage, warm, fired, vu, tally, cut, garbled>>

testVars == <<serviceVars, k6Vars>>

Counters == {"completed", "queue_full_503", "timeout_504", "hard_errors"}

TestTypeOK ==
  /\ stage \in {"setup", "sweep", "stopping", "written"}
  /\ warm \in Jobs \cup {None}
  /\ fired \subseteq Jobs
  /\ vu \in [VUs -> Jobs \cup {"ready", "sleeping"}]
  /\ tally \in [Counters -> Nat]
  /\ cut \subseteq Jobs
  /\ garbled \subseteq Jobs

(* The service is healthy, as setup() has found by polling /health.          *)
TestInit ==
  /\ ServiceInit
  /\ stage = "setup"
  /\ warm = None
  /\ fired = {}
  /\ vu = [v \in VUs |-> "ready"]
  /\ tally = [c \in Counters |-> 0]
  /\ cut = {}
  /\ garbled = {}

(* The next iteration, Jobs being the bound on their number.  They are all   *)
(* alike, so which one is no choice.                                         *)
Fresh == CHOOSE r \in Jobs : r \notin fired

-----------------------------------------------------------------------------
(* setup() *)

(* "burn one throwaway request", which no counter sees.                      *)
BeginWarmUp ==
  /\ stage = "setup"
  /\ warm = None
  /\ Jobs \ fired # {}
  /\ BeginUpload(Fresh)
  /\ warm' = Fresh
  /\ fired' = {Fresh}
  /\ UNCHANGED <<stage, vu, tally, cut, garbled>>

\* Mutant: setup() does not wait for its request.
EndSetupAtOnce ==
  /\ stage = "setup"
  /\ warm # None
  /\ stage' = "sweep"
  /\ UNCHANGED <<serviceVars, warm, fired, vu, tally, cut, garbled>>

(* Whatever its answer was.                                                  *)
EndSetup ==
  /\ stage = "setup"
  /\ warm # None
  /\ handler[warm] \in Statuses
  /\ stage' = "sweep"
  /\ UNCHANGED <<serviceVars, warm, fired, vu, tally, cut, garbled>>

-----------------------------------------------------------------------------
(* The default function *)

MayFire(v) ==
  /\ stage = "sweep"
  /\ vu[v] = "ready"
  /\ Jobs \ fired # {}

Fire(v) ==
  /\ MayFire(v)
  /\ BeginUpload(Fresh)
  /\ fired' = fired \cup {Fresh}
  /\ vu' = [vu EXCEPT ![v] = Fresh]
  /\ UNCHANGED <<stage, warm, tally, cut, garbled>>

(* k6 reports status 0 (a reused connection the server has just closed).     *)
ConnectionFails(v) ==
  /\ MayFire(v)
  /\ fired' = fired \cup {Fresh}
  /\ tally' = [tally EXCEPT !["hard_errors"] = @ + 1]
  /\ UNCHANGED <<serviceVars, stage, warm, vu, cut, garbled>>

\* Mutant: a server-side timeout is a hard error.
TimeoutIsHard(s) ==
  CASE s = "200" -> "completed"
    [] s = "503" -> "queue_full_503"
    [] OTHER -> "hard_errors"

(* What an iteration has come to: a status, or a 200 without a usable body.  *)
Outcome(r) == IF r \in garbled THEN "garbled" ELSE handler[r]

(* Which counter an outcome goes to.                                         *)
CounterOf(s) ==
  CASE s = "200" -> "completed"
    [] s = "503" -> "queue_full_503"
    [] s = "504" -> "timeout_504"
    [] OTHER -> "hard_errors"

\* Mutant: the user of a timed-out request waits until the run is over.
ReadAnswerOnceRun(v) ==
  /\ vu[v] \in Jobs
  /\ handler[vu[v]] \in Statuses
  /\ ~InFlight(vu[v])
  /\ tally' = [tally EXCEPT ![CounterOf(handler[vu[v]])] = @ + 1]
  /\ vu' = [vu EXCEPT ![v] = IF handler[vu[v]] = "503" THEN "sleeping" ELSE "ready"]
  /\ UNCHANGED <<serviceVars, stage, warm, fired, cut, garbled>>

(* The answer is counted; after a 503 the user backs off.                    *)
ReadAnswer(v) ==
  /\ vu[v] \in Jobs
  /\ handler[vu[v]] \in Statuses
  /\ tally' = [tally EXCEPT ![CounterOf(handler[vu[v]])] = @ + 1]
  /\ vu' = [vu EXCEPT ![v] = IF handler[vu[v]] = "503" THEN "sleeping" ELSE "ready"]
  /\ UNCHANGED <<serviceVars, stage, warm, fired, cut, garbled>>

(* A 200 whose body does not parse, or has no `tokens`: the connection died  *)
(* while it was read.                                                        *)
ReadGarbled(v) ==
  /\ vu[v] \in Jobs
  /\ handler[vu[v]] = "200"
  /\ garbled' = garbled \cup {vu[v]}
  /\ tally' = [tally EXCEPT !["hard_errors"] = @ + 1]
  /\ vu' = [vu EXCEPT ![v] = "ready"]
  /\ UNCHANGED <<serviceVars, stage, warm, fired, cut>>

BackOffEnds(v) ==
  /\ vu[v] = "sleeping"
  /\ vu' = [vu EXCEPT ![v] = "ready"]
  /\ UNCHANGED <<serviceVars, stage, warm, fired, tally, cut, garbled>>

-----------------------------------------------------------------------------
(* The end of the sweep *)

TimeIsUp ==
  /\ stage = "sweep"
  /\ stage' = "stopping"
  /\ UNCHANGED <<serviceVars, warm, fired, vu, tally, cut, garbled>>

\* Mutant: an interrupted iteration goes on.
CutOffUnheard ==
  /\ stage = "stopping"
  /\ \E v \in VUs : vu[v] # "ready"
  /\ cut' = cut \cup {r \in Jobs : \E v \in VUs : vu[v] = r}
  /\ UNCHANGED <<serviceVars, stage, warm, fired, vu, tally, garbled>>

(* gracefulStop is over.  The service does not notice that k6 hangs up.      *)
CutOff ==
  /\ stage = "stopping"
  /\ \E v \in VUs : vu[v] # "ready"
  /\ cut' = cut \cup {r \in Jobs : \E v \in VUs : vu[v] = r}
  /\ vu' = [v \in VUs |-> "ready"]
  /\ UNCHANGED <<serviceVars, stage, warm, fired, tally, garbled>>

(* handleSummary().                                                          *)
WriteSummary ==
  /\ stage = "stopping"
  /\ \A v \in VUs : vu[v] = "ready"
  /\ stage' = "written"
  /\ UNCHANGED <<serviceVars, warm, fired, vu, tally, cut, garbled>>

-----------------------------------------------------------------------------
(* The service meanwhile: its event loop, and the GPU thread.                *)
LoopStep ==
  /\ \/ \E r \in Jobs :
          \/ UploadFails(r)
          \/ Submit(r)
          \/ SubmitRefused(r)
          \/ Respond(r)
          \/ TimerFires(r)
     \/ WorkerWakes
     \/ WorkerSettles
  /\ UNCHANGED k6Vars

ThreadStep ==
  /\ \E r \in Jobs :
       \/ ThreadStarts(r)
       \/ OpenMedia(r)
       \/ MediaMissing(r)
       \/ RunReturns(r)
       \/ RunFails(r)
  /\ UNCHANGED k6Vars

(* The benchmark is over.                                                    *)
Over ==
  /\ stage = "written"
  /\ UNCHANGED testVars

(* A step k6 takes without being asked to fire.                              *)
k6Step ==
  \/ BeginWarmUp
  \/ EndSetup
  \/ \E v \in VUs : ReadAnswer(v) \/ ReadGarbled(v) \/ BackOffEnds(v)
  \/ TimeIsUp
  \/ WriteSummary

TestNext ==
  \/ k6Step
  \/ \E v \in VUs : Fire(v) \/ ConnectionFails(v)
  \/ CutOff
  \/ LoopStep
  \/ ThreadStep
  \/ Over

TestSpec == TestInit /\ [][TestNext]_testVars

(* The event loop and k6 go on while there is something for them to do; the  *)
(* GPU thread need not.  Nothing makes k6 cut an iteration off, or begin one. *)
TestFairness ==
  /\ WF_testVars(LoopStep)
  /\ WF_testVars(k6Step)

FairTest == TestSpec /\ TestFairness

-----------------------------------------------------------------------------
(* Safety *)

(* k6's counters and the service's agree: cosmos_requests_total has counted  *)
(* what k6 has, and beyond that only the warm-up, answers not read yet,      *)
(* answers that cannot be read and iterations cut off.  "This threshold      *)
(* fires only on connection failures and 5xx-other": a hard error is an      *)
(* iteration that never reached the service or whose answer was lost on the  *)
(* way, or a 500.                                                            *)
SummaryReconciles ==
  LET Untallied(s) == {r \in {warm} \cup cut \cup garbled \cup {vu[v] : v \in VUs} :
                         r \in Jobs /\ handler[r] = s}
      Answered(s) == {r \in Jobs : handler[r] = s}
  IN /\ \A a \in {"ok", "full", "timeout"} :
          counted[a] = tally[CounterOf(StatusOf(a))] + Cardinality(Untallied(StatusOf(a)))
     /\ tally["hard_errors"] =
          Cardinality({r \in fired : handler[r] = "new"}) + Cardinality(garbled)
            + Cardinality(Answered("500")) - Cardinality(Untallied("500"))

(* With no more users than places in the queue, a 503 is no sign of load but *)
(* of earlier timeouts: only requests abandoned in the queue can fill it.    *)
FullOnlyOfAbandoned ==
  Cardinality(VUs) <= MaxDepth /\ counted["full"] > 0 => counted["timeout"] > 0

(* What the worker deals with before it comes to a queued request.           *)
Ahead(r) ==
  {j \in Jobs : \/ worker = "serving" /\ current = j
                \/ \E i, k \in Unread : i < k /\ puts[i] = j /\ puts[k] = r}

(* "With one serial GPU worker, latency under concurrency is mostly other    *)
(* people's requests": a sample waits behind one request of each other user, *)
(* and beyond these only behind the abandoned run or queued job of an        *)
(* earlier timeout.  So a row of one user has no queue wait, and none of the *)
(* warm-up's, unless something has timed out.                                *)
WaitsForOthers ==
  \A v \in VUs : vu[v] \in Jobs /\ Queued(vu[v]) =>
    Cardinality(Ahead(vu[v])) < Cardinality(VUs) + counted["timeout"]

(* The counts that handleSummary() writes if `t` of the answers are cut short.  *)
Summary(t) ==
  [c \in Counters \cup {"truncated"} |-> IF c = "truncated" THEN t ELSE tally[c]]

(* "A run where most requests timed out still produces a table full of       *)
(* plausible-looking figures" (render_warnings()): its caveats tell what     *)
(* happened to the iterations of the sweep, each kind of loss if and only if *)
(* there was one, however answers, timeouts and dead connections interleave. *)
(* They tell nothing of an iteration that k6 has cut off.                    *)
CaveatsTellTheRun ==
  stage = "written" =>
    LET Ended(A) == {r \in fired \ ({warm} \cup cut) : Outcome(r) \in A}
        Said(t) == Caveats(Summary(t))
    IN \A t \in 0 .. tally["completed"] :
         /\ "hard_errors" \in Said(t) <=> Ended({"new", "garbled", "500"}) # {}
         /\ "timeout_504" \in Said(t) <=> Ended({"504"}) # {}
         /\ "queue_full_503" \in Said(t) <=> Ended({"503"}) # {}
         /\ "few_samples" \in Said(t) <=> Cardinality(Ended({"200"})) < Enough

(* The inductive invariant: every request belongs to setup(), to the one     *)
(* user that awaits it, or to nobody any more.                               *)
TestInv ==
  /\ TestTypeOK
  /\ \A r \in Jobs \ fired : handler[r] = "new"
  /\ stage = "setup" => fired = {warm} \ {None} /\ \A v \in VUs : vu[v] = "ready"
  /\ stage # "setup" => warm # None
  /\ warm # None => warm \in fired /\ handler[warm] # "new"
  /\ \A v \in VUs : vu[v] \in Jobs =>
       /\ vu[v] \in fired \ (cut \cup {warm})
       /\ handler[vu[v]] # "new"
       /\ \A w \in VUs : vu[w] = vu[v] => w = v
  /\ cut \subseteq fired \ {warm}
  /\ \A r \in cut : handler[r] # "new"
  /\ garbled \subseteq fired \ ({warm} \cup cut \cup {vu[v] : v \in VUs})
  /\ cut # {} => stage \in {"stopping", "written"}
  /\ stage = "written" => \A v \in VUs : vu[v] = "ready"

-----------------------------------------------------------------------------
(* The benchmark uses the service as Service says.                           *)
ServiceBehaviour == ServiceInit /\ [][ServiceNext]_serviceVars

(* "Fixed duration rather than fixed iterations, because wall clock is what  *)
(* costs money": the summary is written even if a run hangs on the GPU, and  *)
(* with no iteration cut off.                                                *)
SweepEnds == <>(stage = "written")

=============================================================================
