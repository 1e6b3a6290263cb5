-------------------------- MODULE MCInferenceQueue --------------------------
(* Model checking of InferenceQueue on a handful of jobs.                    *)
EXTENDS InferenceQueue, TLC

(* Jobs differ only by name: sound for the safety runs, which use no WF.     *)
JobSymmetry == Permutations(Jobs)

(* The behaviours without fairness, for the safety runs.                     *)
SafetySpec == Init /\ [][Next]_vars

=============================================================================
