------------------------------ MODULE ModelLoad ------------------------------
(***************************************************************************)
(* load_model() (app/model.py): placement, weights, processor, adapter, the *)
(* guards of _verify(), warm-up.  One action is one call that can fail.     *)
(*                                                                         *)
(* The guards do not trust torch, transformers and peft, and neither does   *)
(* the model: what they return may be of any class, on any device the       *)
(* machine has, packed or not, wrapped or not, and whether they raise is a  *)
(* choice.  A checkpoint is its two kinds of parameters: the linear layers, *)
(* which bitsandbytes packs two to a byte, and all others.  The dtype of    *)
(* the tensors is left out: no guard asks for it.                           *)
(***************************************************************************)
EXTENDS Naturals, FiniteSets

CONSTANTS Checkpoints,        \* what COSMOS_MODEL_ID or COSMOS_MODEL_PATH names
          AdapterSizes,       \* parameters an adapter may add
          MinExpectedParams,  \* MIN_EXPECTED_PARAMS (app/config.py)
          Classes,            \* the classes a loaded model may have
          ExpectedClass,      \* EXPECTED_MODEL_CLASS (app/config.py)
          PeftClass,          \* the class of a model wrapped by peft
          BackboneClass,      \* what transformers' own base_model leads to
          None

ASSUME LoadAssumption ==
  /\ Checkpoints \subseteq [linear : Nat, other : Nat]
  /\ \A c \in Checkpoints : c.linear % 2 = 0
  /\ AdapterSizes \subseteq Nat
  /\ MinExpectedParams \in Nat
  /\ ExpectedClass \in Classes /\ PeftClass \notin Classes

VARIABLES
  settings,    \* the Settings that matter here, the same for every start
  machine,     \* what torch.cuda says of the machine
  checkpoint,  \* what the configured source holds
  phase,       \* the next step of load_model(), or how it ended
  placement,   \* the Placement, once resolved
  model        \* the model object, once loaded

given == <<settings, machine, checkpoint>>

loadVars == <<given, phase, placement, model>>

Devices == {"cuda", "cpu"}

DTypes == {"float16", "bfloat16", "float32"}

Settings == [device : {"auto", "cuda", "cpu"}, quant : {"nf4", "none"}, dtype : DTypes,
             attn_impl : {"sdpa", "flash_attention_2"},
             adapter : {"disabled", "unset", "given"}]

(* A machine without CUDA has neither of the other two.  The bfloat16 flag   *)
(* does not follow from the compute capability.                              *)
Machines == {m \in [cuda : BOOLEAN, sm_80 : BOOLEAN, bf16 : BOOLEAN] :
               m.sm_80 \/ m.bf16 => m.cuda}

Placements == [device : Devices, torch_dtype : DTypes, noted : BOOLEAN]

(* What the guards can see of a model: its class, and that of its base: the  *)
(* model inside a peft wrapper, the backbone inside a model; what its        *)
(* tensors' numel() add up to; whether it has a peft_config; and the devices *)
(* of its first parameter and of all of them.                                *)
Models == [class : Classes \cup {PeftClass}, base : Classes \cup {BackboneClass}, packed : BOOLEAN,
           linear : Nat, other : Nat, adapter : Nat, peft_config : BOOLEAN,
           first : Devices, devices : SUBSET Devices]

(* How load_model() ends: it returns, a ModelLoadError says why not (in      *)
(* _verify(), or earlier), or another exception escapes.                     *)
Ends == {"loaded", "rejected", "refused", "raised"}

LoadTypeOK ==
  /\ settings \in Settings
  /\ machine \in Machines
  /\ checkpoint \in Checkpoints
  /\ phase \in {"placing", "loading", "processor", "adapter", "verifying", "warming"} \cup Ends
  /\ placement \in Placements \cup {None}
  /\ model \in Models \cup {None}

(* A new process calls load_model().                                         *)
Begin ==
  /\ phase' = "placing"
  /\ placement' = None
  /\ model' = None

LoadInit ==
  /\ settings \in Settings
  /\ machine \in Machines
  /\ checkpoint \in Checkpoints
  /\ phase = "placing"
  /\ placement = None
  /\ model = None

-----------------------------------------------------------------------------
(* resolve_placement() *)

Device ==
  IF settings.device = "cuda" \/ (settings.device = "auto" /\ machine.cuda) THEN "cuda" ELSE "cpu"

CannotWork ==
  \/ settings.device = "cuda" /\ ~machine.cuda
  \/ Device = "cuda" /\ settings.dtype = "bfloat16" /\ ~machine.bf16
  \/ Device = "cuda" /\ settings.attn_impl = "flash_attention_2" /\ ~machine.sm_80
  \/ Device = "cpu" /\ settings.quant = "nf4"

(* On a CPU another dtype than float32 is overridden, with a note.           *)
ResolvePlacement ==
  /\ phase = "placing"
  /\ IF CannotWork
     THEN phase' = "refused" /\ UNCHANGED placement
     ELSE /\ phase' = "loading"
          /\ placement' = [device |-> Device,
                           torch_dtype |-> IF Device = "cuda" THEN settings.dtype ELSE "float32",
                           noted |-> Device = "cpu" /\ settings.dtype # "float32"]
  /\ UNCHANGED <<given, model>>

-----------------------------------------------------------------------------
(* Weights and processor *)

Available == IF machine.cuda THEN Devices ELSE {"cpu"}

(* Whatever was asked of it, from_pretrained() may pack the linear layers or *)
(* not (the checkpoint itself may say so), and put the parameters anywhere;  *)
(* a CPU placement then moves them with model.to("cpu").                     *)
LoadWeights ==
  /\ phase = "loading"
  /\ \E class \in Classes, packed \in BOOLEAN, where \in SUBSET Available \ {{}} :
       LET devices == IF placement.device = "cpu" THEN {"cpu"} ELSE where
       IN \E first \in devices :
            model' = [class |-> class, base |-> BackboneClass, packed |-> packed,
                      linear |-> IF packed THEN checkpoint.linear \div 2 ELSE checkpoint.linear,
                      other |-> checkpoint.other, adapter |-> 0, peft_config |-> FALSE,
                      first |-> first, devices |-> devices]
  /\ phase' = "processor"
  /\ UNCHANGED <<given, placement>>

(* No access to a gated repository, no network, no memory, ...               *)
WeightsFail ==
  /\ phase = "loading"
  /\ phase' = "refused"
  /\ UNCHANGED <<given, placement, model>>

(* The processor is loaded, and the vision budget applied to it.             *)
LoadProcessor ==
  /\ phase = "processor"
  /\ phase' = IF settings.adapter = "disabled" THEN "verifying" ELSE "adapter"
  /\ UNCHANGED <<given, placement, model>>

ProcessorFails ==
  /\ phase = "processor"
  /\ phase' = "refused"
  /\ UNCHANGED <<given, placement, model>>

-----------------------------------------------------------------------------
(* _load_adapter() *)

\* Mutant: nobody looks whether the adapter is there.
NeverAsked(m) == TRUE

HasPeftConfig(m) == m.peft_config

(* peft returns the model with the adapter, or as it was; the second is      *)
(* found out by the missing peft_config.                                     *)
AttachAdapter ==
  /\ phase = "adapter"
  /\ settings.adapter = "given"
  /\ \/ \E n \in AdapterSizes, d \in Available :
          model' = [model EXCEPT !.class = PeftClass, !.base = model.class, !.adapter = n,
                                 !.peft_config = TRUE, !.devices = @ \cup {d}]
     \/ model' = model
  /\ phase' = IF HasPeftConfig(model') THEN "verifying" ELSE "refused"
  /\ UNCHANGED <<given, placement>>

(* No path, no peft, or a load that fails.                                   *)
AdapterFails ==
  /\ phase = "adapter"
  /\ phase' = "refused"
  /\ UNCHANGED <<given, placement, model>>

-----------------------------------------------------------------------------
(* _verify() and _warmup() *)

\* Mutant: packed tensors are counted as they are.
CountPacked(m) == m.linear + m.other + m.adapter

(* count_parameters(): two parameters to the byte of a packed tensor.        *)
CountParameters(m) == (IF m.packed THEN 2 * m.linear ELSE m.linear) + m.other + m.adapter

\* Mutant: a model that peft has not wrapped is unwrapped as well.
BaseClass(m) == m.base

(* The class behind a peft wrapper.                                          *)
InnerClass(m) == IF m.class = PeftClass THEN m.base ELSE m.class

(* The four guards.                                                          *)
PassesGuards(m) ==
  /\ InnerClass(m) = ExpectedClass
  /\ CountParameters(m) >= MinExpectedParams
  /\ m.first = placement.device
  /\ Cardinality(m.devices) <= 1

Verify ==
  /\ phase = "verifying"
  /\ phase' = IF PassesGuards(model) THEN "warming" ELSE "rejected"
  /\ UNCHANGED <<given, placement, model>>

WarmUp ==
  /\ phase = "warming"
  /\ phase' = "loaded"
  /\ UNCHANGED <<given, placement, model>>

(* A call outside every try raises, and nothing turns that into a            *)
(* ModelLoadError: model.to("cpu"), the vision budget, the warm-up and the   *)
(* queries that fill the report.                                             *)
CallRaises ==
  /\ phase \in {"loading", "processor", "warming"}
  /\ phase = "loading" => placement.device = "cpu"
  /\ phase' = "raised"
  /\ UNCHANGED <<given, placement, model>>

-----------------------------------------------------------------------------
LoadStep ==
  \/ ResolvePlacement
  \/ LoadWeights
  \/ WeightsFail
  \/ LoadProcessor
  \/ ProcessorFails
  \/ AttachAdapter
  \/ AdapterFails
  \/ Verify
  \/ WarmUp
  \/ CallRaises

(* load_model() has returned or raised.                                      *)
Ended ==
  /\ phase \in Ends
  /\ UNCHANGED loadVars

LoadNext == LoadStep \/ Ended

LoadSpec == LoadInit /\ [][LoadNext]_loadVars

-----------------------------------------------------------------------------
(* Safety *)

Params(c) == c.linear + c.other

(* "A service that starts successfully has, by construction, the real        *)
(* weights on the requested device", and no base model serves under an       *)
(* adapter's name: whatever class, devices, packing and wrapper the          *)
(* libraries returned, what is loaded is a model of the class asked for, of  *)
(* the size, with every parameter on the device asked for, and inside a peft *)
(* wrapper exactly if an adapter was asked for.  The guard on the size       *)
(* counts the adapter with the checkpoint.                                   *)
LoadedAsAsked ==
  phase = "loaded" =>
    /\ settings.adapter = "disabled" => model.class = ExpectedClass /\ model.adapter = 0
    /\ settings.adapter # "disabled" => model.base = ExpectedClass /\ model.peft_config
    /\ Params(checkpoint) + model.adapter >= MinExpectedParams
    /\ settings.device # "auto" => model.devices = {settings.device}
    /\ settings.device = "auto" => model.devices = {IF machine.cuda THEN "cuda" ELSE "cpu"}

(* What a healthy load is, said without the code's ways of measuring it.     *)
Genuine ==
  /\ ExpectedClass = IF model.peft_config THEN model.base ELSE model.class
  /\ Params(checkpoint) + model.adapter >= MinExpectedParams
  /\ model.devices = {placement.device}

(* The guards reject no healthy load: a 4-bit checkpoint is not mistaken for *)
(* one of half its size, nor a model for its wrapper or its backbone.        *)
NoFalseAlarm == phase = "rejected" => ~Genuine

(* The docstring of load_model(): "Raises ModelLoadError on any problem."    *)
OnlyModelLoadErrors == phase # "raised"

(* The inductive invariant: what each step of the pipeline leaves behind.    *)
LoadInv ==
  /\ LoadTypeOK
  /\ phase \notin {"placing", "refused", "raised"} =>
       /\ placement \in Placements
       /\ ~CannotWork
       /\ placement.device = Device
       /\ placement.torch_dtype = settings.dtype \/ placement.noted
  /\ phase \notin {"placing", "loading", "refused", "raised"} =>
       /\ model \in Models
       /\ model.first \in model.devices
       /\ model.other = checkpoint.other
       /\ checkpoint.linear = IF model.packed THEN 2 * model.linear ELSE model.linear
       /\ IF model.peft_config THEN model.class = PeftClass ELSE model.class \in Classes
  /\ phase \in {"processor", "adapter"} => model.adapter = 0 /\ ~model.peft_config
  /\ phase = "adapter" => settings.adapter # "disabled"
  /\ phase \in {"verifying", "warming", "loaded", "rejected"} =>
       /\ model.peft_config <=> settings.adapter # "disabled"
       /\ settings.adapter = "disabled" => model.adapter = 0
  /\ phase \in {"warming", "loaded"} => PassesGuards(model)
  /\ phase = "rejected" => ~PassesGuards(model)

=============================================================================
