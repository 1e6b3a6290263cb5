----------------------------- MODULE KaggleCheck -----------------------------
(***************************************************************************)
(* The T4 check (scripts/kaggle_t4_check.py): main() refuses the wrong GPU, *)
(* loads the model by load_model(), compares its report with what the run   *)
(* is to confirm, measures every leg and profile, and ends with an exit     *)
(* code.  A number it measures is left out; that it could is kept.          *)
(***************************************************************************)
EXTENDS ModelLoad

CONSTANT ExpectedTotalParams  \* EXPECTED_TOTAL_PARAMS

VARIABLES
  t4,        \* the GPU's name has "T4" and its capability is sm_75
  args,      \* --allow-any-gpu and --skip-video
  assets,    \* the sample files make_assets.py has left
  stage,     \* where main() is
  todo,      \* the legs still to be measured, each media kind under each profile
  problems,  \* what is listed as wrong
  results,   \* the legs measured
  exit       \* the exit code, or None

inputs == <<t4, args, assets>>

checkVars == <<loadVars, inputs, stage, todo, problems, results, exit>>

Legs == {"image", "video"} \X {"A", "B"}

(* build_settings() fixes three settings; the environment may set the rest.  *)
CheckInit ==
  /\ LoadInit
  /\ settings.quant = "none" /\ settings.device = "cuda" /\ settings.dtype = "float16"
  /\ t4 \in BOOLEAN
  /\ t4 => machine.cuda /\ ~machine.sm_80
  /\ args \in [allow_any : BOOLEAN, skip_video : BOOLEAN]
  /\ assets \in SUBSET {"image", "video"}
  /\ stage = "gpu"
  /\ todo = {}
  /\ problems = {}
  /\ results = {}
  /\ exit = None

Quit(code) == stage' = "over" /\ exit' = code

(* check_gpu(), and the test for the image: SystemExit with a message is 1.  *)
CheckGpu ==
  /\ stage = "gpu"
  /\ IF machine.cuda /\ (t4 \/ args.allow_any) /\ "image" \in assets
     THEN stage' = "loading" /\ UNCHANGED exit
     ELSE Quit(1)
  /\ UNCHANGED <<loadVars, inputs, todo, problems, results>>

Load ==
  /\ stage = "loading"
  /\ LoadStep
  /\ UNCHANGED <<inputs, stage, todo, problems, results, exit>>

(* A ModelLoadError is reported, anything else is a traceback.               *)
LoadFailed ==
  /\ stage = "loading"
  /\ phase \in Ends \ {"loaded"}
  /\ Quit(1)
  /\ UNCHANGED <<loadVars, inputs, todo, problems, results>>

(* The LoadReport has str() of a torch.dtype, and a phrase.                  *)
ReportedDtype ==
  CASE placement.torch_dtype = "float16" -> "torch.float16"
    [] placement.torch_dtype = "bfloat16" -> "torch.bfloat16"
    [] placement.torch_dtype = "float32" -> "torch.float32"

ReportedQuantization ==
  IF settings.quant = "nf4" THEN "bitsandbytes-nf4" ELSE "none (full precision weights)"

CompareReport ==
  /\ stage = "loading"
  /\ phase = "loaded"
  /\ problems' = (IF ReportedDtype # "float16" THEN {<<"report", "dtype">>} ELSE {})
                 \cup (IF ReportedQuantization # "none" THEN {<<"report", "quantization">>} ELSE {})
                 \cup (IF CountParameters(model) # ExpectedTotalParams THEN {<<"report", "params">>} ELSE {})
  /\ todo' = {leg \in Legs : /\ leg[1] \in assets
                             /\ args.skip_video => leg[1] # "video"}
  /\ stage' = "measuring"
  /\ UNCHANGED <<loadVars, inputs, results, exit>>

(* measure(): its runs either all return, or one raises and the leg is given *)
(* up.  The order of the legs is that of the code: images first.             *)
MeasureLeg ==
  /\ stage = "measuring"
  /\ \E leg \in todo :
       /\ \A other \in todo : other[1] = "image" => leg[1] = "image"
       /\ \A other \in todo : other[1] = leg[1] /\ other[2] = "A" => leg[2] = "A"
       /\ todo' = todo \ {leg}
       /\ \/ results' = results \cup {leg} /\ UNCHANGED problems
          \/ problems' = problems \cup {leg} /\ UNCHANGED results
  /\ UNCHANGED <<loadVars, inputs, stage, exit>>

(* The results are written, and the verdict follows.                         *)
Conclude ==
  /\ stage = "measuring"
  /\ todo = {}
  /\ Quit(IF problems # {} \/ results = {} THEN 1 ELSE 0)
  /\ UNCHANGED <<loadVars, inputs, todo, problems, results>>

Finished ==
  /\ stage = "over"
  /\ UNCHANGED checkVars

CheckNext ==
  \/ CheckGpu
  \/ Load
  \/ LoadFailed
  \/ CompareReport
  \/ MeasureLeg
  \/ Conclude
  \/ Finished

CheckSpec == CheckInit /\ [][CheckNext]_checkVars

-----------------------------------------------------------------------------
(* "The script exits non-zero and lists problems if any of these are wrong": *)
(* GPU, dtype, quantization, parameter count, decode rate (docs/KAGGLE.md).  *)
(* It exits non-zero for nothing else than these, a load that failed, or an  *)
(* image that is missing.                                                    *)
FailsOnlyIfWrong ==
  exit = 1 =>
    \/ ~t4
    \/ "image" \notin assets
    \/ phase # "loaded"
    \/ placement.torch_dtype # "float16"
    \/ settings.quant # "none"
    \/ CountParameters(model) # ExpectedTotalParams
    \/ results # {leg \in Legs : /\ leg[1] \in assets
                                 /\ args.skip_video => leg[1] # "video"}

=============================================================================
