------------------------------ MODULE MCService ------------------------------
(* Model checking of Service on a few requests.                              *)
EXTENDS Service, TLC

(* Requests differ only by name: sound for the safety runs.                  *)
JobSymmetry == Permutations(Jobs)

=============================================================================
