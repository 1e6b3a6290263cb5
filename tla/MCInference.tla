----------------------------- MODULE MCInference -----------------------------
(* Model checking of Inference: budgets below, at and above the default.     *)
EXTENDS Inference

MCAsked == {-1, 0, 1, 4, 6}

=============================================================================
