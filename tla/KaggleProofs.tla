----------------------------- MODULE KaggleProofs -----------------------------
(***************************************************************************)
(* The verdict of the T4 check, for every checkpoint, every expected count *)
(* of parameters, every machine and all arguments.                         *)
(***************************************************************************)
EXTENDS KaggleCheck, ModelLoadProofs

(* Neither spelling that main() expects is one that a report can have.       *)
LEMMA ReportNeverMatches ==
  ASSUME LoadInv, phase = "loaded"
  PROVE  ReportedDtype # "float16" /\ ReportedQuantization # "none"
<1>1. placement.torch_dtype \in {"float16", "bfloat16", "float32"}
  BY DEF LoadInv, Placements, DTypes
<1>2. QED
  BY <1>1 DEF ReportedDtype, ReportedQuantization

(* Once the report has been compared, two of its fields are listed as wrong, *)
(* and whatever ends the check makes it fail.                                *)
VerdictInv ==
  /\ LoadInv
  /\ stage \in {"gpu", "loading", "measuring", "over"}
  /\ stage = "measuring" => {<<"report", "dtype">>, <<"report", "quantization">>} \subseteq problems
  /\ stage = "over" => exit = 1

(* No step of the check takes a problem off the list.                        *)
LEMMA CheckKeepsVerdictInv == VerdictInv /\ [CheckNext]_checkVars => VerdictInv'
<1> SUFFICES ASSUME VerdictInv, [CheckNext]_checkVars PROVE VerdictInv'
  OBVIOUS
<1> USE DEF VerdictInv
<1>1. CASE CheckGpu \/ LoadFailed
  <2>1. LoadInv'
    BY <1>1, StutterKeepsLoadInv DEF CheckGpu, LoadFailed
  <2>2. QED
    BY <1>1, <2>1 DEF CheckGpu, LoadFailed, Quit
<1>2. CASE Load
  <2>1. LoadInv'
    BY <1>2, LoadStepKeepsLoadInv DEF Load
  <2>2. QED
    BY <1>2, <2>1 DEF Load
<1>3. CASE CompareReport
  <2>1. LoadInv'
    BY <1>3, StutterKeepsLoadInv DEF CompareReport
  <2>2. ReportedDtype # "float16" /\ ReportedQuantization # "none"
    BY <1>3, ReportNeverMatches DEF CompareReport
  <2>3. /\ stage' = "measuring"
        /\ {<<"report", "dtype">>, <<"report", "quantization">>} \subseteq problems'
    BY <1>3, <2>2 DEF CompareReport
  <2>4. QED
    BY <2>1, <2>3
<1>4. CASE MeasureLeg
  <2>1. LoadInv'
    BY <1>4, StutterKeepsLoadInv DEF MeasureLeg
  <2>2. problems \subseteq problems' /\ stage' = "measuring" /\ stage = "measuring"
    BY <1>4 DEF MeasureLeg
  <2>3. QED
    BY <2>1, <2>2
<1>5. CASE Conclude
  <2>1. LoadInv'
    BY <1>5, StutterKeepsLoadInv DEF Conclude
  <2>2. problems # {}
    BY <1>5 DEF Conclude
  <2>3. QED
    BY <1>5, <2>1, <2>2 DEF Conclude, Quit
<1>6. CASE Finished \/ UNCHANGED checkVars
  <2>1. LoadInv'
    BY <1>6, StutterKeepsLoadInv DEF Finished, checkVars
  <2>2. QED
    BY <1>6, <2>1 DEF Finished, checkVars
<1>7. QED
  BY <1>1, <1>2, <1>3, <1>4, <1>5, <1>6 DEF CheckNext

(* The check cannot pass: on no GPU, with no checkpoint and after no run     *)
(* does it exit with 0, because a loaded model always has two problems.      *)
THEOREM CheckNeverPasses ==
  CheckSpec => [](/\ stage = "measuring" =>
                       {<<"report", "dtype">>, <<"report", "quantization">>} \subseteq problems
                  /\ stage = "over" => exit = 1)
<1>1. CheckInit => VerdictInv
  BY LoadInitInv DEF CheckInit, VerdictInv
<1>2. VerdictInv /\ [CheckNext]_checkVars => VerdictInv'
  BY CheckKeepsVerdictInv
<1>3. VerdictInv => /\ stage = "measuring" =>
                         {<<"report", "dtype">>, <<"report", "quantization">>} \subseteq problems
                    /\ stage = "over" => exit = 1
  BY DEF VerdictInv
<1>4. QED
  BY <1>1, <1>2, <1>3, PTL DEF CheckSpec

=============================================================================
