--------------------------- MODULE DeploymentProofs ---------------------------
(***************************************************************************)
(* What holds of the deployed service over all its restarts, for every     *)
(* number of them.                                                         *)
(***************************************************************************)
EXTENDS Deployment, ModelLoadProofs

USE RestartAssumption

(* The container's first start.                                            *)
LEMMA DeployInitInv == DeployInit => DeployInv
BY LoadInitInv DEF DeployInit, DeployInv, DeployTypeOK, LoadInit

(* A step of load_model() that is a load is counted, and leaves "loading".   *)
LEMMA LoadKeepsDeployInv == DeployInv /\ Load => DeployInv'
<1> SUFFICES ASSUME DeployInv, Load
             PROVE  DeployInv'
  OBVIOUS
<1>1. LoadInv'
  BY LoadStepKeepsLoadInv DEF DeployInv, Load
<1>2. /\ process = "starting" /\ process' = "starting"
      /\ restarts' = restarts /\ restarts \in 0 .. MaxRestarts
      /\ loads \in 0 .. MaxRestarts + 1
      /\ loads' = IF phase = "loading" THEN loads + 1 ELSE loads
  BY DEF DeployInv, DeployTypeOK, Load
<1>3. /\ phase = "loading" => phase' \notin {"placing", "loading"}
      /\ phase' \in {"placing", "loading"} => phase \in {"placing", "loading"}
  BY DEF Load, LoadStep, ResolvePlacement, LoadWeights, WeightsFail, LoadProcessor,
         ProcessorFails, AttachAdapter, AdapterFails, Verify, WarmUp, CallRaises
<1>4. CASE phase = "loading"
  <2>1. loads <= restarts /\ loads' = loads + 1
    BY <1>2, <1>4 DEF DeployInv
  <2> QED
    BY <1>1, <1>2, <1>3, <1>4, <2>1 DEF DeployInv, DeployTypeOK
<1>5. CASE phase # "loading"
  BY <1>1, <1>2, <1>3, <1>5 DEF DeployInv, DeployTypeOK
<1> QED
  BY <1>4, <1>5

(* A restart begins load_model() anew and may load once more.              *)
LEMMA RestartKeepsDeployInv == DeployInv /\ Restart => DeployInv'
<1> SUFFICES ASSUME DeployInv, Restart
             PROVE  DeployInv'
  OBVIOUS
<1>1. LoadInv'
  BY DEF DeployInv, Restart, Begin, given, LoadInv, LoadTypeOK
<1>2. /\ restarts \in 0 .. MaxRestarts /\ restarts < MaxRestarts /\ restarts' = restarts + 1
      /\ loads' = loads /\ loads \in 0 .. MaxRestarts + 1 /\ loads <= restarts + 1
      /\ process' = "starting"
  BY DEF DeployInv, DeployTypeOK, Restart
<1> QED
  BY <1>1, <1>2 DEF DeployInv, DeployTypeOK

(* The steps that change the process alone.                                  *)
LEMMA ProcessKeepsDeployInv ==
  DeployInv /\ (Yield \/ Exit \/ Crash \/ Stop \/ StayDown) => DeployInv'
<1> SUFFICES ASSUME DeployInv, Yield \/ Exit \/ Crash \/ Stop \/ StayDown
             PROVE  DeployInv'
  OBVIOUS
<1>1. UNCHANGED <<loadVars, restarts, loads>>
  BY DEF Yield, Exit, Crash, Stop, StayDown
<1>2. LoadInv'
  BY <1>1, StutterKeepsLoadInv DEF DeployInv
<1>3. /\ process' \in {"serving", "exited", "down"}
      /\ process' = "serving" => phase = "loaded"
  BY DEF Yield, Exit, Crash, Stop, StayDown
<1> QED
  BY <1>1, <1>2, <1>3 DEF DeployInv, DeployTypeOK, loadVars

(* Nothing happens.                                                        *)
LEMMA IdleKeepsDeployInv == DeployInv /\ UNCHANGED deployVars => DeployInv'
BY StutterKeepsLoadInv DEF DeployInv, DeployTypeOK, deployVars, loadVars

(* Every state of the deployed service satisfies DeployInv.                  *)
THEOREM DeployInvariance == DeploySafety => []DeployInv
<1>1. DeployInv /\ [DeployNext]_deployVars => DeployInv'
  BY LoadKeepsDeployInv, RestartKeepsDeployInv, ProcessKeepsDeployInv, IdleKeepsDeployInv
     DEF DeployNext, Remain
<1> QED
  BY DeployInitInv, <1>1, PTL DEF DeploySafety

(* Restarts and loads stay within the bound of the restart policy, which     *)
(* allows one load more than it counts restarts.                             *)
THEOREM RestartsAreBounded == DeploySafety => []DeployTypeOK
<1>1. DeployInv => DeployTypeOK
  BY DEF DeployInv
<1> QED
  BY DeployInvariance, <1>1, PTL

(* Through any crashes and restarts, what serves is what was asked for.      *)
THEOREM WhatServesWasAskedFor == DeploySafety => []ServesWhatWasAsked
<1>1. DeployInv => ServesWhatWasAsked
  BY InvGivesAsAsked DEF DeployInv, ServesWhatWasAsked
<1> QED
  BY DeployInvariance, <1>1, PTL

-----------------------------------------------------------------------------
(* Termination.  What is left of a start of load_model(), of the process     *)
(* around it, and of the container with the restarts it still has.           *)

PhasesLeft(p) ==
  IF p = "placing" THEN 7 ELSE IF p = "loading" THEN 6 ELSE IF p = "processor" THEN 5
  ELSE IF p = "adapter" THEN 4 ELSE IF p = "verifying" THEN 3 ELSE IF p = "warming" THEN 2 ELSE 1

ProcessLeft ==
  IF process = "starting" THEN 2 + PhasesLeft(phase)
  ELSE IF process = "serving" THEN 2 ELSE IF process = "exited" THEN 1 ELSE 0

StepsLeft == 9 * (MaxRestarts - restarts) + ProcessLeft

(* What is left is a number.                                                 *)
LEMMA StepsLeftIsNat == DeployInv => StepsLeft \in Nat
<1> SUFFICES ASSUME DeployInv PROVE StepsLeft \in Nat
  OBVIOUS
<1>1. ProcessLeft \in 0 .. 9
  BY DEF ProcessLeft, PhasesLeft
<1>2. restarts \in Nat /\ MaxRestarts - restarts \in Nat
  BY DEF DeployInv, DeployTypeOK
<1> QED
  BY <1>1, <1>2 DEF StepsLeft

(* load_model() never goes back to a phase, nor stays in one.                *)
LEMMA LoadGoesOn == LoadStep => PhasesLeft(phase)' < PhasesLeft(phase)
<1> SUFFICES ASSUME LoadStep PROVE PhasesLeft(phase)' < PhasesLeft(phase)
  OBVIOUS
<1>1. \/ phase = "placing" /\ phase' \in {"loading", "refused"}
      \/ phase = "loading" /\ phase' \in {"processor", "refused", "raised"}
      \/ phase = "processor" /\ phase' \in {"verifying", "adapter", "refused", "raised"}
      \/ phase = "adapter" /\ phase' \in {"verifying", "refused"}
      \/ phase = "verifying" /\ phase' \in {"warming", "rejected"}
      \/ phase = "warming" /\ phase' \in {"loaded", "raised"}
  BY DEF LoadStep, ResolvePlacement, LoadWeights, WeightsFail, LoadProcessor, ProcessorFails,
         AttachAdapter, AdapterFails, Verify, WarmUp, CallRaises
<1> QED
  BY <1>1 DEF PhasesLeft

(* There is no crash loop: whatever fails, at start-up or while serving, and *)
(* in whatever order, each step that changes anything uses up one of at most *)
(* 9 * (MaxRestarts + 1), so the container comes to rest.  Settles adds, by  *)
(* fairness, that it does not come to rest anywhere but in serving or down.  *)
THEOREM NoCrashLoop ==
  DeploySafety => [](StepsLeft \in Nat) /\ [][StepsLeft' < StepsLeft]_deployVars
<1>1. ASSUME DeployInv, DeployNext
      PROVE  StepsLeft' < StepsLeft \/ UNCHANGED deployVars
  <2>1. restarts \in Nat /\ MaxRestarts \in Nat
    BY <1>1 DEF DeployInv, DeployTypeOK
  <2>2. CASE Load
    <3>1. PhasesLeft(phase)' < PhasesLeft(phase)
      BY <2>2, LoadGoesOn DEF Load
    <3>2. PhasesLeft(phase) \in Nat /\ PhasesLeft(phase)' \in Nat
      BY DEF PhasesLeft
    <3>3. process = "starting" /\ process' = "starting" /\ restarts' = restarts
      BY <2>2 DEF Load
    <3>4. QED
      BY <2>1, <3>1, <3>2, <3>3 DEF StepsLeft, ProcessLeft
  <2>3. CASE Yield \/ Exit \/ Crash \/ Stop \/ StayDown
    <3>1. /\ \/ process = "starting" /\ process' \in {"serving", "exited", "down"}
             \/ process = "serving" /\ process' \in {"exited", "down"}
             \/ process = "exited" /\ process' = "down"
          /\ restarts' = restarts
      BY <2>3 DEF Yield, Exit, Crash, Stop, StayDown
    <3>2. PhasesLeft(phase) \in 1 .. 7
      BY DEF PhasesLeft
    <3>3. QED
      BY <2>1, <3>1, <3>2 DEF StepsLeft, ProcessLeft
  <2>4. CASE Restart
    <3>1. ProcessLeft = 1 /\ ProcessLeft' = 9 /\ restarts' = restarts + 1
      BY <2>4 DEF Restart, Begin, ProcessLeft, PhasesLeft
    <3>2. QED
      BY <2>1, <3>1 DEF StepsLeft
  <2>5. CASE Remain
    BY <2>5 DEF Remain
  <2>6. QED
    BY <1>1, <2>2, <2>3, <2>4, <2>5 DEF DeployNext
<1>2. DeployInv /\ [DeployNext]_deployVars => [StepsLeft' < StepsLeft]_deployVars
  BY <1>1
<1>3. QED
  BY <1>2, StepsLeftIsNat, DeployInvariance, PTL DEF DeploySafety

=============================================================================
