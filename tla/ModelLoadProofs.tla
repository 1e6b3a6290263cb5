--------------------------- MODULE ModelLoadProofs ---------------------------
(***************************************************************************)
(* What load_model() guarantees for every set of checkpoints, adapters and *)
(* classes and every floor of the parameter count.                         *)
(***************************************************************************)
EXTENDS ModelLoad, FiniteSetTheorems, TLAPS

USE LoadAssumption

-----------------------------------------------------------------------------
(* The guard on split devices: at most one device, and one is known.         *)
LEMMA OneDevice ==
  ASSUME NEW S \in SUBSET Devices, NEW d \in S
  PROVE  Cardinality(S) <= 1 <=> S = {d}
<1>1. IsFiniteSet(S)
  <2>1. IsFiniteSet({"cuda"}) /\ Cardinality({"cuda"}) = 1
    BY FS_Singleton
  <2>2. IsFiniteSet({"cuda"} \cup {"cpu"})
    BY <2>1, FS_AddElement
  <2>3. S \subseteq {"cuda"} \cup {"cpu"}
    BY DEF Devices
  <2> QED
    BY <2>2, <2>3, FS_Subset
<1>2. ASSUME S = {d}
      PROVE  Cardinality(S) <= 1
  BY <1>2, FS_Singleton
<1>3. ASSUME Cardinality(S) <= 1
      PROVE  S = {d}
  <2>1. IsFiniteSet({d}) /\ Cardinality({d}) = 1
    BY FS_Singleton
  <2>2. Cardinality(S) \in Nat
    BY <1>1, FS_CardinalityType
  <2>3. {d} \subseteq S
    OBVIOUS
  <2>4. Cardinality({d}) <= Cardinality(S)
    BY <1>1, <2>3, FS_Subset
  <2>5. Cardinality({d}) = Cardinality(S)
    BY <1>3, <2>1, <2>2, <2>4
  <2> QED
    BY <1>1, <2>3, <2>5, FS_Subset
<1> QED
  BY <1>2, <1>3

(* A packed tensor holds two parameters to the byte.                         *)
LEMMA Halves ==
  ASSUME NEW c \in Checkpoints
  PROVE  /\ c.linear \in Nat /\ c.other \in Nat
         /\ c.linear \div 2 \in Nat
         /\ c.linear = 2 * (c.linear \div 2)
<1>1. c \in [linear : Nat, other : Nat] /\ c.linear % 2 = 0
  OBVIOUS
<1> QED
  BY <1>1

-----------------------------------------------------------------------------
(* The pipeline keeps LoadInv.                                               *)
LEMMA LoadInitInv == LoadInit => LoadInv
BY DEF LoadInit, LoadInv, LoadTypeOK, Ends

(* What resolve_placement() settles: device, dtype, and that they can work. *)
LEMMA ResolveKeepsLoadInv == LoadInv /\ ResolvePlacement => LoadInv'
<1> SUFFICES ASSUME LoadInv, ResolvePlacement
             PROVE  LoadInv'
  OBVIOUS
<1> USE DEF ResolvePlacement, given
<1>1. CASE CannotWork
  BY <1>1 DEF LoadInv, LoadTypeOK, Ends
<1>2. CASE ~CannotWork
  <2>1. /\ Device \in Devices
        /\ UNCHANGED <<Device, CannotWork>>
    BY DEF Device, Devices, CannotWork
  <2>2. settings.dtype \in DTypes
    BY DEF LoadInv, LoadTypeOK, Settings
  <2>a. PICK dtype \in DTypes, noted \in BOOLEAN :
          /\ placement' = [device |-> Device, torch_dtype |-> dtype, noted |-> noted]
          /\ dtype = settings.dtype \/ noted
    <3> DEFINE dt == IF Device = "cuda" THEN settings.dtype ELSE "float32"
               nt == Device = "cpu" /\ settings.dtype # "float32"
    <3>1. dt \in DTypes /\ nt \in BOOLEAN
      BY <2>2 DEF DTypes
    <3>2. dt = settings.dtype \/ nt
      BY <2>1 DEF Devices
    <3>3. placement' = [device |-> Device, torch_dtype |-> dt, noted |-> nt]
      BY <1>2
    <3> QED
      BY <3>1, <3>2, <3>3
  <2>3. placement' \in Placements
    BY <2>1, <2>a DEF Placements
  <2>4. /\ placement'.device = Device
        /\ placement'.torch_dtype = settings.dtype \/ placement'.noted
    BY <2>a
  <2>5. LoadTypeOK'
    BY <1>2, <2>3 DEF LoadInv, LoadTypeOK
  <2> QED
    BY <1>2, <2>1, <2>3, <2>4, <2>5 DEF LoadInv
<1> QED
  BY <1>1, <1>2

(* The tensors of a loaded model add up to its checkpoint.                 *)
LEMMA WeightsKeepLoadInv == LoadInv /\ LoadWeights => LoadInv'
<1> SUFFICES ASSUME LoadInv, LoadWeights
             PROVE  LoadInv'
  OBVIOUS
<1> USE DEF LoadWeights, given
<1>1. UNCHANGED <<Device, CannotWork>>
  BY DEF Device, CannotWork
<1>2. checkpoint \in Checkpoints /\ placement \in Placements
  BY DEF LoadInv, LoadTypeOK
<1> DEFINE Loaded(class, packed, devices, first) ==
             [class |-> class, base |-> BackboneClass, packed |-> packed,
              linear |-> IF packed THEN checkpoint.linear \div 2 ELSE checkpoint.linear,
              other |-> checkpoint.other, adapter |-> 0, peft_config |-> FALSE,
              first |-> first, devices |-> devices]
<1>a. PICK class \in Classes, packed \in BOOLEAN, devices \in SUBSET Devices :
        \E first \in devices : model' = Loaded(class, packed, devices, first)
  BY DEF Available, Devices
<1>3. PICK first \in devices : model' = Loaded(class, packed, devices, first)
  BY <1>a
<1>5. model' \in Models
  BY <1>2, <1>3, Halves DEF Models
<1>6. /\ model'.first \in model'.devices
      /\ model'.other = checkpoint.other
      /\ model'.class \in Classes
      /\ model'.adapter = 0 /\ ~model'.peft_config
  BY <1>3
<1>7. checkpoint.linear = IF model'.packed THEN 2 * model'.linear ELSE model'.linear
  BY <1>2, <1>3, Halves
<1>8. LoadTypeOK'
  BY <1>2, <1>5 DEF LoadInv, LoadTypeOK
<1> QED
  BY <1>1, <1>5, <1>6, <1>7, <1>8 DEF LoadInv

(* A wrapped model keeps what the guards are going to ask of its base.     *)
LEMMA AdapterKeepsLoadInv == LoadInv /\ AttachAdapter => LoadInv'
<1> SUFFICES ASSUME LoadInv, AttachAdapter
             PROVE  LoadInv'
  OBVIOUS
<1> USE DEF AttachAdapter, given
<1>1. UNCHANGED <<Device, CannotWork>>
  BY DEF Device, CannotWork
<1>2. model \in Models
  BY DEF LoadInv
<1>a. ASSUME NEW n \in AdapterSizes, NEW d \in Devices,
             model' = [model EXCEPT !.class = PeftClass, !.base = model.class, !.adapter = n,
                                    !.peft_config = TRUE, !.devices = @ \cup {d}]
      PROVE  /\ model' \in Models
             /\ model'.first = model.first /\ model.devices \subseteq model'.devices
             /\ model'.packed = model.packed
             /\ model'.linear = model.linear /\ model'.other = model.other
             /\ model'.class = PeftClass
  <2>1. n \in Nat
    OBVIOUS
  <2>2. model.class \in Classes
    BY DEF LoadInv
  <2>3. QED
    BY <1>2, <1>a, <2>1, <2>2 DEF Models
<1>3. LoadTypeOK'
  <2>1. phase' \in {"verifying", "refused"}
    OBVIOUS
  <2>2. model' \in Models
    BY <1>2, <1>a DEF Available, Devices
  <2>3. QED
    BY <2>1, <2>2 DEF LoadInv, LoadTypeOK, Ends
<1>4. CASE phase' = "refused"
  BY <1>3, <1>4 DEF LoadInv
<1>5. CASE phase' = "verifying"
  <2>1. model'.peft_config
    BY <1>5 DEF HasPeftConfig
  <2>2. model' # model
    BY <2>1 DEF LoadInv
  <2>3. PICK n \in AdapterSizes, d \in Devices :
          model' = [model EXCEPT !.class = PeftClass, !.base = model.class, !.adapter = n,
                                 !.peft_config = TRUE, !.devices = @ \cup {d}]
    BY <2>2 DEF Available, Devices
  <2>4. /\ model' \in Models
        /\ model'.first = model.first /\ model.devices \subseteq model'.devices
        /\ model'.packed = model.packed
        /\ model'.linear = model.linear /\ model'.other = model.other
        /\ model'.class = PeftClass
    BY <1>a, <2>3
  <2>5. QED
    BY <1>1, <1>3, <1>5, <2>1, <2>4 DEF LoadInv
<1> QED
  BY <1>4, <1>5

(* The steps that change the phase alone.                                    *)
LEMMA OtherStepsKeepLoadInv ==
  LoadInv /\ (\/ WeightsFail \/ LoadProcessor \/ ProcessorFails \/ AdapterFails
              \/ Verify \/ WarmUp \/ CallRaises) => LoadInv'
<1> SUFFICES ASSUME LoadInv,
                    \/ WeightsFail \/ LoadProcessor \/ ProcessorFails \/ AdapterFails
                    \/ Verify \/ WarmUp \/ CallRaises
             PROVE  LoadInv'
  OBVIOUS
<1>1. UNCHANGED <<given, placement, model>>
  BY DEF WeightsFail, LoadProcessor, ProcessorFails, AdapterFails, Verify, WarmUp, CallRaises
<1>2. UNCHANGED <<Device, CannotWork, PassesGuards(model)>>
  BY <1>1 DEF given, Device, CannotWork, PassesGuards, InnerClass, CountParameters
<1>3. LoadTypeOK'
  BY <1>1 DEF given, LoadInv, LoadTypeOK, Ends, WeightsFail, LoadProcessor, ProcessorFails,
              AdapterFails, Verify, WarmUp, CallRaises
<1> USE DEF given, LoadInv
<1>4. CASE WeightsFail \/ ProcessorFails \/ AdapterFails
  BY <1>1, <1>2, <1>3, <1>4 DEF WeightsFail, ProcessorFails, AdapterFails
<1>5. CASE LoadProcessor
  BY <1>1, <1>2, <1>3, <1>5 DEF LoadProcessor
<1>6. CASE Verify
  BY <1>1, <1>2, <1>3, <1>6 DEF Verify
<1>7. CASE WarmUp \/ CallRaises
  BY <1>1, <1>2, <1>3, <1>7 DEF WarmUp, CallRaises
<1> QED
  BY <1>4, <1>5, <1>6, <1>7

(* All steps together.                                                     *)
LEMMA LoadStepKeepsLoadInv == LoadInv /\ LoadStep => LoadInv'
BY ResolveKeepsLoadInv, WeightsKeepLoadInv, AdapterKeepsLoadInv, OtherStepsKeepLoadInv
   DEF LoadStep

(* Nothing happens.                                                        *)
LEMMA StutterKeepsLoadInv == LoadInv /\ UNCHANGED loadVars => LoadInv'
BY DEF LoadInv, LoadTypeOK, loadVars, given, Device, CannotWork, PassesGuards, InnerClass,
       CountParameters

(* Every state of load_model() satisfies LoadInv.                            *)
THEOREM LoadInvariance == LoadSpec => []LoadInv
<1>1. LoadInv /\ [LoadNext]_loadVars => LoadInv'
  BY LoadStepKeepsLoadInv, StutterKeepsLoadInv DEF LoadNext, Ended
<1> QED
  BY LoadInitInv, <1>1, PTL DEF LoadSpec

-----------------------------------------------------------------------------
(* The guards and what they are meant to find out.                           *)

(* The count of _verify() is that of the checkpoint and the adapter.         *)
LEMMA TrueCount ==
  ASSUME LoadInv, phase \notin {"placing", "loading", "refused", "raised"}
  PROVE  CountParameters(model) = Params(checkpoint) + model.adapter
<1>1. /\ model \in Models /\ checkpoint \in Checkpoints
      /\ model.other = checkpoint.other
      /\ checkpoint.linear = IF model.packed THEN 2 * model.linear ELSE model.linear
  BY DEF LoadInv, LoadTypeOK
<1>2. /\ checkpoint.linear \in Nat /\ checkpoint.other \in Nat
      /\ model.linear \in Nat /\ model.adapter \in Nat
  BY <1>1, Halves DEF Models
<1> QED
  BY <1>1, <1>2 DEF CountParameters, Params

(* A model passes the guards exactly if it is a healthy load.                *)
LEMMA GuardsFindGenuine ==
  ASSUME LoadInv, phase \notin {"placing", "loading", "refused", "raised"}
  PROVE  PassesGuards(model) <=> Genuine
<1>1. /\ model \in Models /\ model.first \in model.devices
      /\ IF model.peft_config THEN model.class = PeftClass ELSE model.class \in Classes
  BY DEF LoadInv
<1>2. model.devices \in SUBSET Devices
  BY <1>1 DEF Models
<1>3. Cardinality(model.devices) <= 1 <=> model.devices = {model.first}
  BY <1>1, <1>2, OneDevice
<1>4. InnerClass(model) = IF model.peft_config THEN model.base ELSE model.class
  BY <1>1 DEF InnerClass
<1>5. model.first = placement.device /\ model.devices = {model.first}
        <=> model.devices = {placement.device}
  BY <1>1
<1> QED
  BY <1>3, <1>4, <1>5, TrueCount DEF PassesGuards, Genuine

(* What the invariant says of a finished load.                               *)
LEMMA InvGivesAsAsked == LoadInv => LoadedAsAsked
<1> SUFFICES ASSUME LoadInv, phase = "loaded"
             PROVE  LoadedAsAsked
  BY DEF LoadedAsAsked
<1>1. Genuine
  BY GuardsFindGenuine DEF LoadInv
<1>2. /\ ~CannotWork /\ placement.device = Device
      /\ model.peft_config <=> settings.adapter # "disabled"
      /\ settings.adapter = "disabled" => model.adapter = 0
  BY DEF LoadInv
<1>3. settings.device \in {"auto", "cuda", "cpu"}
  BY DEF LoadInv, LoadTypeOK, Settings
<1>4. /\ settings.device # "auto" => model.devices = {settings.device}
      /\ settings.device = "auto" => model.devices = {IF machine.cuda THEN "cuda" ELSE "cpu"}
  BY <1>1, <1>2, <1>3 DEF Genuine, Device, CannotWork
<1> QED
  BY <1>1, <1>2, <1>4 DEF LoadedAsAsked, Genuine

(* A load that succeeds has a model of the class, the size and the device    *)
(* asked for, with the adapter or without as asked, whatever class, devices, *)
(* packing and wrapper the libraries returned.                               *)
THEOREM LoadedModelIsAsAsked == LoadSpec => []LoadedAsAsked
BY LoadInvariance, InvGivesAsAsked, PTL

(* The guards of _verify() reject no healthy load.                           *)
THEOREM GuardsRaiseNoFalseAlarm == LoadSpec => []NoFalseAlarm
<1>1. ASSUME LoadInv
      PROVE  NoFalseAlarm
  BY <1>1, GuardsFindGenuine DEF NoFalseAlarm, LoadInv
<1> QED
  BY LoadInvariance, <1>1, PTL

=============================================================================
