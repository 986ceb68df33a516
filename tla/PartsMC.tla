------------------------------ MODULE PartsMC ------------------------------
(***************************************************************************)
(* Instances of five parts of the repository that share no state: the      *)
(* chat, the merging of files, the life of the Lunix:TNG module, the       *)
(* virtio cryptodev and a virtqueue.  A behaviour is one of the part it    *)
(* starts with; the others stay where they are.                            *)
(***************************************************************************)
EXTENDS ChatSession, FileMergeMC, LunixModule, VirtioCrypto, VirtQueue

VARIABLE part

partsVars == <<part, chatVars, mergeVars, moduleVars, cryptoVars, vqVars>>

(* The first client and the server talk more than the second. *)
MCSays == [s \in Sides |-> IF s[1] = "c1" THEN 2 ELSE 1]

ASSUME IdleAssumption == << >> \in Inputs

(* Three empty files have been merged. *)
MergeIdle ==
  /\ args = <<"one", "two", "three">> /\ before = [n \in Names |-> << >>] /\ file = before
  /\ mpc = "done" /\ fd3 = TRUE /\ turn = 2 /\ offset = 0 /\ chunk = << >> /\ failed = FALSE

PartsInit ==
  /\ part \in {"chat", "merge", "module", "crypto", "queue"}
  /\ ChatInit /\ ModuleInit /\ CryptoInit /\ QueueInit
  /\ IF part = "merge" THEN MergeInit ELSE MergeIdle

PartsNext ==
  \/ part = "chat" /\ ChatNext /\ UNCHANGED <<part, mergeVars, moduleVars, cryptoVars, vqVars>>
  \/ part = "merge" /\ MergeNext /\ UNCHANGED <<part, chatVars, moduleVars, cryptoVars, vqVars>>
  \/ part = "module" /\ ModuleNext /\ UNCHANGED <<part, chatVars, mergeVars, cryptoVars, vqVars>>
  \/ part = "crypto" /\ CryptoNext /\ UNCHANGED <<part, chatVars, mergeVars, moduleVars, vqVars>>
  \/ part = "queue" /\ VQNext /\ UNCHANGED <<part, chatVars, mergeVars, moduleVars, cryptoVars>>

PartsSpec ==
  PartsInit /\ [][PartsNext]_partsVars /\ ChatFairness /\ MergeFairness /\ CryptoFairness

(* Every variable of every part has its type. *)
PartsTypeOK == ChatTypeOK /\ MergeTypeOK /\ ModuleTypeOK /\ CryptoTypeOK
=============================================================================
