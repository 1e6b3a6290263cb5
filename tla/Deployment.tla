------------------------------ MODULE Deployment ------------------------------
(***************************************************************************)
(* The container around the service: lifespan's part before its yield       *)
(* (app/main.py), the exits of the process, and Docker's restarts           *)
(* (docker-compose.yml).  Every start runs load_model() as ModelLoad says.  *)
(*                                                                         *)
(* External: Docker's on-failure policy, which restarts a container whose   *)
(* process exited with another code than 0, unless its operator stopped it, *)
(* up to a number of times that success does not set back; and uvicorn,     *)
(* which exits with such a code when the start-up raises.                   *)
(***************************************************************************)
EXTENDS ModelLoad

CONSTANT MaxRestarts  \* the number behind `restart: on-failure:`

ASSUME RestartAssumption == MaxRestarts \in Nat

VARIABLES
  process,   \* the container's process
  restarts,  \* Docker's restart count
  loads      \* the starts that came to from_pretrained(), over all restarts

deployVars == <<loadVars, process, restarts, loads>>

DeployTypeOK ==
  /\ process \in {"starting", "serving", "exited", "down"}
  /\ restarts \in 0 .. MaxRestarts
  /\ loads \in 0 .. MaxRestarts + 1

DeployInit ==
  /\ LoadInit
  /\ process = "starting"
  /\ restarts = 0
  /\ loads = 0

-----------------------------------------------------------------------------
(* lifespan *)

(* load_model() goes on.  It is on the event loop, so nothing else happens.  *)
Load ==
  /\ process = "starting"
  /\ LoadStep
  /\ loads' = IF phase = "loading" THEN loads + 1 ELSE loads
  /\ UNCHANGED <<process, restarts>>

(* The yield: uvicorn accepts requests.                                      *)
Yield ==
  /\ process = "starting"
  /\ phase = "loaded"
  /\ process' = "serving"
  /\ UNCHANGED <<loadVars, restarts, loads>>

\* Mutant: the except branch prints and goes on.
ServeAnyway ==
  /\ process = "starting"
  /\ phase \in {"refused", "rejected"}
  /\ process' = "serving"
  /\ UNCHANGED <<loadVars, restarts, loads>>

(* A ModelLoadError is printed and becomes SystemExit(1); any other exception *)
(* leaves lifespan as it is.                                                  *)
Exit ==
  /\ process = "starting"
  /\ phase \in {"refused", "rejected", "raised"}
  /\ process' = "exited"
  /\ UNCHANGED <<loadVars, restarts, loads>>

-----------------------------------------------------------------------------
(* Docker *)

(* The kernel's OOM killer, or a crash in native code.                       *)
Crash ==
  /\ process \in {"starting", "serving"}
  /\ process' = "exited"
  /\ UNCHANGED <<loadVars, restarts, loads>>

(* docker compose stop.                                                      *)
Stop ==
  /\ process \in {"starting", "serving"}
  /\ process' = "down"
  /\ UNCHANGED <<loadVars, restarts, loads>>

\* Mutants: `restart: always`, and a policy that restarts once too often.
RestartAlways ==
  /\ process = "exited"
  /\ process' = "starting"
  /\ Begin
  /\ UNCHANGED <<given, restarts, loads>>

RestartOnceMore ==
  /\ process = "exited"
  /\ restarts <= MaxRestarts
  /\ process' = "starting"
  /\ restarts' = restarts + 1
  /\ Begin
  /\ UNCHANGED <<given, loads>>

(* The same settings in a new process.                                       *)
Restart ==
  /\ process = "exited"
  /\ restarts < MaxRestarts
  /\ process' = "starting"
  /\ restarts' = restarts + 1
  /\ Begin
  /\ UNCHANGED <<given, loads>>

StayDown ==
  /\ process = "exited"
  /\ restarts = MaxRestarts
  /\ process' = "down"
  /\ UNCHANGED <<loadVars, restarts, loads>>

(* Nothing restarts a container that is down.                                *)
Remain ==
  /\ process = "down"
  /\ UNCHANGED deployVars

DeployNext ==
  \/ Load
  \/ Yield
  \/ Exit
  \/ Crash
  \/ Stop
  \/ Restart
  \/ StayDown
  \/ Remain

DeploySafety == DeployInit /\ [][DeployNext]_deployVars

(* A load step ends, lifespan goes on, and the Docker daemon does its part;  *)
(* nothing has to crash, and nobody has to stop the container.               *)
DeployFairness ==
  /\ WF_deployVars(Load)
  /\ WF_deployVars(Yield \/ Exit)
  /\ WF_deployVars(Restart \/ StayDown)

DeploySpec == DeploySafety /\ DeployFairness

-----------------------------------------------------------------------------
(* "There is no mock, no stub, and no silent fallback" (app/model.py): over  *)
(* all restarts and failures, what serves has passed the whole pipeline in   *)
(* this very process, and is what the settings ask for.                      *)
ServesWhatWasAsked == process = "serving" => phase = "loaded" /\ LoadedAsAsked

(* The inductive invariant: each restart has had one load at most.           *)
DeployInv ==
  /\ LoadInv
  /\ DeployTypeOK
  /\ phase \in {"placing", "loading"} => loads <= restarts
  /\ loads <= restarts + 1
  /\ process = "serving" => phase = "loaded"

(* "With an always-on policy a bad HF_TOKEN produced an infinite crash loop" *)
(* (docker-compose.yml): however the starts and the serving processes fail,  *)
(* the container comes to rest, serving or down.                             *)
Settles == <>[](process = "serving") \/ <>[](process = "down")

(* "Three attempts, then stay down." (docker-compose.yml)                    *)
ThreeAttempts == loads <= 3

=============================================================================
