----------------------------- MODULE MCModelLoad -----------------------------
(* Model checking of ModelLoad: parameter counts in units of 10^8.           *)
EXTENDS ModelLoad

(* The real checkpoint (about 2.1e9), one whose packed form falls below the  *)
(* floor of 2.0e9 by far, one exactly at the floor, and one just below it.   *)
MCCheckpoints == {[linear |-> 14, other |-> 7], [linear |-> 16, other |-> 4],
                  [linear |-> 12, other |-> 7]}

MCAdapterSizes == {0, 1}

=============================================================================
