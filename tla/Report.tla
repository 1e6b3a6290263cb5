-------------------------------- MODULE Report --------------------------------
(***************************************************************************)
(* What loadtest/render_results.py says against the numbers of a summary:   *)
(* its caveats.  The numbers, the hardware block, the grouping of rows and  *)
(* the wording are left out.                                                *)
(***************************************************************************)
EXTENDS Naturals

CONSTANT Enough  \* the samples below which a p95 is called unstable

ASSUME ReportAssumption == Enough \in Nat

\* Mutant: timeouts are a column of the table only.
CaveatsWithoutTimeouts(counts) ==
  {c \in {"hard_errors", "queue_full_503", "truncated"} : counts[c] > 0}
    \cup IF counts["completed"] < Enough THEN {"few_samples"} ELSE {}

(* render_warnings(), for the counts of one summary.                         *)
Caveats(counts) ==
  {c \in {"hard_errors", "timeout_504", "queue_full_503", "truncated"} : counts[c] > 0}
    \cup IF counts["completed"] < Enough THEN {"few_samples"} ELSE {}

=============================================================================
