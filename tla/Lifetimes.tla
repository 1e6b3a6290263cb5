------------------------------- MODULE Lifetimes -------------------------------
(***************************************************************************)
(* The service over the lives of its process.  A kill (the OOM killer, a    *)
(* crash in native code, Docker after the grace period of a stop) may come  *)
(* between any two steps: the memory is gone, no finally clause runs, and   *)
(* the client of a request under way sees its connection drop.  What the    *)
(* process had in /tmp stays in the container, which Docker restarts        *)
(* (docker-compose.yml) unless its operator stopped it.                     *)
(*                                                                         *)
(* What a start may do wrong is Deployment's subject; here it succeeds.     *)
(***************************************************************************)
EXTENDS Service

CONSTANT MaxRestarts  \* the number behind `restart: on-failure:`

ASSUME RestartAssumption == MaxRestarts \in Nat

VARIABLES
  process,   \* "up", "exited" (Docker will restart it) or "down"
  restarts,  \* Docker's restart count
  gone,      \* the requests that earlier lives had begun
  lost,      \* those of them that were under way at a kill
  orphans    \* those whose temporary file earlier lives have left behind

lifeVars == <<process, restarts, gone, lost, orphans>>

allVars == <<serviceVars, lifeVars>>

LifeTypeOK ==
  /\ process \in {"up", "exited", "down"}
  /\ restarts \in 0 .. MaxRestarts
  /\ gone \subseteq Jobs
  /\ lost \subseteq gone
  /\ orphans \subseteq Jobs

LifeInit ==
  /\ ServiceInit
  /\ process = "up"
  /\ restarts = 0
  /\ gone = {}
  /\ lost = {}
  /\ orphans = {}

(* The service goes on; a request is begun in one life at most.              *)
Live ==
  /\ process = "up"
  /\ ServiceNext
  /\ \A r \in gone : handler'[r] = "new"
  /\ UNCHANGED lifeVars

(* The memory of a process that has run lifespan up to its yield: ServiceInit *)
(* for the next state.                                                        *)
Reborn ==
  /\ caller' = [r \in Jobs |-> "idle"]
  /\ future' = [r \in Jobs |-> "none"]
  /\ expired' = [r \in Jobs |-> FALSE]
  /\ puts' = <<>>
  /\ gets' = 0
  /\ depthGauge' = 0
  /\ worker' = "idle"
  /\ current' = None
  /\ pool' = [r \in Jobs |-> "out"]
  /\ stopper' = "none"
  /\ handler' = [r \in Jobs |-> "new"]
  /\ written' = [r \in Jobs |-> 0]
  /\ disk' = {}
  /\ media' = [r \in Jobs |-> "unread"]
  /\ counted' = [a \in Answers |-> 0]
  /\ observed' = 0
  /\ accepting' = TRUE
  /\ loaded' = TRUE

\* Mutant: `restart: always`.
KillRestarts ==
  /\ process = "up"
  /\ Reborn
  /\ process' = "exited"
  /\ gone' = gone \cup {r \in Jobs : handler[r] # "new"}
  /\ lost' = lost \cup {r \in Jobs : Active(r)}
  /\ orphans' = orphans \cup disk
  /\ UNCHANGED restarts

(* SIGKILL: what the process knew is gone, what it had on the disk is not.   *)
Kill ==
  /\ process = "up"
  /\ Reborn
  /\ process' = IF accepting /\ restarts < MaxRestarts THEN "exited" ELSE "down"
  /\ gone' = gone \cup {r \in Jobs : handler[r] # "new"}
  /\ lost' = lost \cup {r \in Jobs : Active(r)}
  /\ orphans' = orphans \cup disk
  /\ UNCHANGED restarts

Restart ==
  /\ process = "exited"
  /\ process' = "up"
  /\ restarts' = restarts + 1
  /\ UNCHANGED <<serviceVars, gone, lost, orphans>>

(* lifespan has finished, and the process exits with 0: no restart.          *)
Finish ==
  /\ process = "up"
  /\ stopper = "done"
  /\ process' = "down"
  /\ UNCHANGED <<serviceVars, restarts, gone, lost, orphans>>

Rest ==
  /\ process = "down"
  /\ UNCHANGED allVars

LifeNext ==
  \/ Live
  \/ Kill
  \/ Restart
  \/ Finish
  \/ Rest

LifeSpec == LifeInit /\ [][LifeNext]_allVars

(* A kill needs no fairness: nothing has to crash.  In a process that is     *)
(* not up no action of the service is enabled, so ServerFairness asks        *)
(* nothing of it.                                                            *)
FairLives == LifeSpec /\ ServerFairness /\ WF_allVars(Finish)

-----------------------------------------------------------------------------
(* The temporary files in the container are one for each request that is     *)
(* under way, or was when its process was killed: a kill, wherever it comes, *)
(* finds no file of a request that had its answer, and none of an oversized  *)
(* or failed upload.  (Nothing ever removes the files of the lost.)          *)
FilesOfTheUnfinished == disk \cup orphans = {r \in Jobs : Active(r)} \cup lost

(* Every request that any life has begun is answered, also while the server  *)
(* drains and when the GPU hangs, unless a kill takes it.                    *)
AnsweredOrLost == \A r \in Jobs : Active(r) ~> handler[r] \in Statuses \/ r \in lost

(* SIGTERM brings the container down, in whatever life and although          *)
(* abandoned jobs may fill the queue, unless a run hangs.                    *)
DrainEndsTheContainer == GpuHangs \/ (~accepting ~> process = "down")

(* The inductive invariant: ServiceInv of the present life.                  *)
LifeInv ==
  /\ ServiceInv
  /\ LifeTypeOK
  /\ process = "exited" => restarts < MaxRestarts
  /\ \A r \in gone : handler[r] = "new"
  /\ orphans = lost

=============================================================================
