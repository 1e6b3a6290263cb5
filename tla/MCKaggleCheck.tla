---------------------------- MODULE MCKaggleCheck ----------------------------
(* Model checking of KaggleCheck: parameter counts in units of 10^8.         *)
EXTENDS KaggleCheck

(* The real checkpoint, and one that is larger.                              *)
MCCheckpoints == {[linear |-> 14, other |-> 7], [linear |-> 16, other |-> 7]}

MCAdapterSizes == {0}

=============================================================================
