------------------------------ MODULE Inference ------------------------------
(***************************************************************************)
(* One request on the GPU thread (app/inference.py): the budget infer()     *)
(* gives it, the tokens generate() emits one after the other, and what      *)
(* run_inference() makes of them when it returns.  In Service this is what   *)
(* lies between OpenMedia and RunReturns or RunFails.                        *)
(*                                                                         *)
(* Text is a sequence of its parts: the tags of a reasoning block, white     *)
(* space and words.  External: generate(), which is greedy, ends on the     *)
(* end-of-sequence token or at the budget, and raises ValueError for a       *)
(* budget below 1.                                                          *)
(***************************************************************************)
EXTENDS Integers, SequencesExt

CONSTANTS
  Words,    \* what the text is made of besides tags and white space
  Default,  \* COSMOS_MAX_NEW_TOKENS
  Asked,    \* the values of the form field max_new_tokens
  Absent    \* the field is missing

ASSUME BudgetAssumption ==
  /\ Default \in Nat \ {0}
  /\ Asked \subseteq Int
  /\ Absent \notin Int

Tokens == {"<think>", "</think>", "space"} \cup Words

VARIABLES
  asked,   \* max_new_tokens of the request
  phase,   \* "asked", "generating", "returned" or "raised"
  output,  \* the tokens emitted so far, the end of sequence included
  result   \* the InferenceResult, once there is one

inferenceVars == <<asked, phase, output, result>>

-----------------------------------------------------------------------------
(* split_reasoning() *)

IsSpace(t) == t = "space"

(* str.strip(), and the \s* around the groups of the two expressions.        *)
Strip(s) ==
  LET solid == {i \in 1 .. Len(s) : ~IsSpace(s[i])}
  IN IF solid = {} THEN <<>> ELSE SubSeq(s, Min(solid), Max(solid))

(* \s*<think>, at the start of the text.                                     *)
Opens(text) == Strip(text) # <<>> /\ Head(Strip(text)) = "<think>"

Body(text) == Tail(Strip(text))

\* Mutant: (.*)</think>, which is greedy.
LastClose(body) == SelectLastInSeq(body, LAMBDA t : t = "</think>")

(* (.*?)</think>: the end of the block, or 0.                                *)
Close(body) == SelectInSeq(body, LAMBDA t : t = "</think>")

(* _THINK_RE, then _OPEN_THINK_RE, then the text as it is.                   *)
split_reasoning(text) ==
  LET body == Body(text)
      end == Close(body)
  IN IF ~Opens(text)
     THEN [answer |-> Strip(text), reasoning |-> <<>>]
     ELSE IF end = 0
          THEN [answer |-> <<>>, reasoning |-> Strip(body)]
          ELSE [answer |-> Strip(SubSeq(body, end + 1, Len(body))),
                reasoning |-> Strip(SubSeq(body, 1, end - 1))]

-----------------------------------------------------------------------------
(* The run *)

InferenceInit ==
  /\ asked \in Asked \cup {Absent}
  /\ phase = "asked"
  /\ output = <<>>
  /\ result = Absent

\* Mutant: the default is a ceiling.
CappedBudget == IF asked \in {Absent, 0} \/ asked > Default THEN Default ELSE asked

(* `max_new_tokens or settings.max_new_tokens`: 0 is as good as none.        *)
Budget == IF asked \in {Absent, 0} THEN Default ELSE asked

GenerateRaises ==
  /\ phase = "asked"
  /\ Budget < 1
  /\ phase' = "raised"
  /\ UNCHANGED <<asked, output, result>>

Begin ==
  /\ phase = "asked"
  /\ Budget >= 1
  /\ phase' = "generating"
  /\ UNCHANGED <<asked, output, result>>

Ended == (output # <<>> /\ Last(output) = "eos") \/ Len(output) = Budget

Emit ==
  /\ phase = "generating"
  /\ ~Ended
  /\ \E t \in Tokens \cup {"eos"} : output' = Append(output, t)
  /\ UNCHANGED <<asked, phase, result>>

(* batch_decode(), skip_special_tokens=True: the end of sequence, after which *)
(* generate() emits nothing, is not part of the text.                        *)
Text(out) == IF out # <<>> /\ Last(out) = "eos" THEN Front(out) ELSE out

\* Mutant: `>` for `>=`.
NeverTruncated == Len(output) > Budget

Truncated == Len(output) >= Budget

Return ==
  /\ phase = "generating"
  /\ Ended
  /\ phase' = "returned"
  /\ result' = [answer |-> split_reasoning(Text(output)).answer,
                reasoning |-> split_reasoning(Text(output)).reasoning,
                truncated |-> Truncated,
                output_tokens |-> Len(output)]
  /\ UNCHANGED <<asked, output>>

(* infer() goes on with the result, or with a 500.                           *)
HandedOver ==
  /\ phase \in {"returned", "raised"}
  /\ UNCHANGED inferenceVars

InferenceNext ==
  \/ GenerateRaises
  \/ Begin
  \/ Emit
  \/ Return
  \/ HandedOver

InferenceSpec == InferenceInit /\ [][InferenceNext]_inferenceVars

-----------------------------------------------------------------------------
(* Correctness *)

(* What the docstring of split_reasoning() asks for, said for a reader who   *)
(* takes the text part by part: a block opens at most once, before anything  *)
(* else is said, and closes at most once.                                    *)
Hear(s, t) ==
  CASE s.where = "start" /\ IsSpace(t) -> s
    [] s.where = "start" /\ t = "<think>" -> [s EXCEPT !.where = "block"]
    [] s.where = "block" /\ t = "</think>" -> [s EXCEPT !.where = "answer"]
    [] s.where = "block" /\ t # "</think>" -> [s EXCEPT !.reasoning = Append(@, t)]
    [] OTHER -> [s EXCEPT !.where = "answer", !.answer = Append(@, t)]

Heard(text) ==
  LET heard[n \in 0 .. Len(text)] ==
        IF n = 0 THEN [where |-> "start", answer |-> <<>>, reasoning |-> <<>>]
        ELSE Hear(heard[n - 1], text[n])
  IN heard[Len(text)]

(* The expressions find the block that a reader would, in every text cut at  *)
(* any point: one that is not closed, closed twice, opened again in the      *)
(* answer, empty, or preceded by other text.                                 *)
SplitsAsHeard ==
  /\ split_reasoning(Text(output)).answer = Strip(Heard(Text(output)).answer)
  /\ split_reasoning(Text(output)).reasoning = Strip(Heard(Text(output)).reasoning)

(* "Returning the partial reasoning as the answer would be worse than        *)
(* returning nothing" (tests/test_inference.py): decoding being greedy, a    *)
(* longer run only continues what a shorter one had returned, word for word. *)
(* So no budget makes anything an answer that a larger one shows to be       *)
(* reasoning.                                                                *)
NothingTakenBack ==
  [][LET now == split_reasoning(Text(output))
         then == split_reasoning(Text(output'))
     IN IsPrefix(now.answer, then.answer) /\ IsPrefix(now.reasoning, then.reasoning)]_inferenceVars

(* A result that is not called truncated is complete, it is never longer     *)
(* than was asked for, and one that came to its end before what was asked    *)
(* for is not called truncated.  (One whose end of sequence is the very last *)
(* token allowed is.)                                                        *)
TruncationIsTold ==
  phase = "returned" =>
    /\ ~result.truncated => Last(output) = "eos"
    /\ asked \notin {Absent, 0} =>
         /\ result.output_tokens <= asked
         /\ Last(output) = "eos" /\ result.output_tokens < asked => ~result.truncated
    /\ result.truncated => result.output_tokens = IF asked \in {Absent, 0} THEN Default ELSE asked

=============================================================================
