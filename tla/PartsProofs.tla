---------------------------- MODULE PartsProofs ----------------------------
(***************************************************************************)
(* The types of the parts together: a step is one of the part that a       *)
(* behaviour started with, which keeps its own inductive invariant, and    *)
(* leaves the others as they are.                                          *)
(***************************************************************************)
EXTENDS PartsMC, ChatProofs, FileMergeProofs, LunixModuleProofs, VirtioProofs

(* A merge that is over before it began has types and no more. *)
PartsInv ==
  /\ ChatTypeOK /\ RoomInv /\ StreamInv
  /\ MergeTypeOK /\ (part = "merge" => MergeInv)
  /\ ModuleTypeOK
  /\ TypesInv

LEMMA IdleTypes == MergeIdle => MergeTypeOK
<1> SUFFICES ASSUME MergeIdle PROVE MergeTypeOK
  OBVIOUS
<1>1. args = <<"one", "two", "three">> /\ args \in [1 .. 3 -> Names]
  BY DEF MergeIdle, Names
<1>2. Input \in Names /\ Output \in Names
  BY <1>1 DEF MergeIdle, Input, Output, Names
<1>3. before \in [Names -> Inputs] /\ file = before
  BY IdleAssumption DEF MergeIdle
<1>4. Len(file[Input]) = 0 /\ Len(chunk) = 0
  BY <1>2 DEF MergeIdle
<1>5. offset \in 0 .. Len(file[Input]) /\ Len(chunk) <= ReadMax
  BY <1>4, MergeAssumption DEF MergeIdle
<1>6. /\ mpc \in {"start", "open", "read", "write", "done"} /\ turn \in 1 .. 2
  BY DEF MergeIdle
<1>7. fd3 \in BOOLEAN /\ failed \in BOOLEAN
  BY Zenon DEF MergeIdle
<1> QED
  BY <1>1, <1>3, <1>5, <1>6, <1>7 DEF MergeTypeOK

LEMMA PartsStart == PartsInit => PartsInv
<1> SUFFICES ASSUME PartsInit PROVE PartsInv
  OBVIOUS
<1>1. ChatInit /\ ModuleInit /\ CryptoInit
  BY DEF PartsInit
<1>2. ChatTypeOK /\ RoomInv /\ StreamInv
  BY <1>1, InitChat
<1>3. ModuleTypeOK
  BY <1>1, InitModule
<1>4. TypesInv
  BY <1>1, InitCrypto
<1>5. CASE part = "merge"
  <2>1. MergeInv
    BY <1>5, InitInv DEF PartsInit
  <2> QED
    BY <1>2, <1>3, <1>4, <2>1, MergeTypesHold DEF PartsInv
<1>6. CASE part # "merge"
  <2>1. MergeTypeOK
    BY <1>6, IdleTypes DEF PartsInit
  <2> QED
    BY <1>2, <1>3, <1>4, <1>6, <2>1 DEF PartsInv
<1> QED
  BY <1>5, <1>6

(* Each part has variables of its own. *)
LEMMA PartsStep == PartsInv /\ [PartsNext]_partsVars => PartsInv'
<1> SUFFICES ASSUME PartsInv, [PartsNext]_partsVars PROVE PartsInv'
  OBVIOUS
<1>1. /\ [ChatNext]_chatVars /\ [ModuleNext]_moduleVars /\ [CryptoNext]_cryptoVars
      /\ part' = part
      /\ (part = "merge" /\ MergeNext) \/ UNCHANGED mergeVars
  BY DEF PartsNext, partsVars
<1>2. (ChatTypeOK /\ RoomInv /\ StreamInv)'
  BY <1>1, StepChatTypes, StepRoom, StepStream DEF PartsInv
<1>3. ModuleTypeOK'
  BY <1>1, StepModuleTypes DEF PartsInv
<1>4. TypesInv'
  BY <1>1, StepTypesHold DEF PartsInv
<1>5. part = "merge" => MergeInv'
  BY <1>1, StepMerge DEF PartsInv
<1>6. MergeTypeOK'
  <2>1. CASE UNCHANGED mergeVars
    BY <2>1 DEF PartsInv, MergeTypeOK, mergeVars, Input, Output
  <2>2. MergeInv => MergeTypeOK
    BY MergeTypesHold
  <2>3. MergeInv' => MergeTypeOK'
    BY MergeTypesHold, PTL
  <2> QED
    BY <1>1, <1>5, <2>1, <2>3
<1> QED
  BY <1>1, <1>2, <1>3, <1>4, <1>5, <1>6 DEF PartsInv

(* Every variable of every part has its type, for all the constants.       *)
(* (socket-server.c:194, write_file.c:14-25, lunix-module.c:29-101,        *)
(* crypto-module.c:42-100)                                                 *)
THEOREM PartsTypes == PartsSpec => []PartsTypeOK
<1>1. PartsInv => PartsTypeOK
  BY DEF PartsInv, PartsTypeOK, TypesInv
<1> QED
  BY <1>1, PartsStart, PartsStep, PTL DEF PartsSpec
=============================================================================
