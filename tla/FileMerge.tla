----------------------------- MODULE FileMerge -----------------------------
(***************************************************************************)
(* fconc: two files copied one after the other into a third, which may be  *)
(* one of them.                                                            *)
(***************************************************************************)
EXTENDS Integers, Sequences, FiniteSets

CONSTANTS
  Bytes,      \* what a file is made of
  Inputs,     \* what the files may hold before
  Nul,        \* the byte that ends a string
  ReadMax,    \* sizeof(buff) - 1
  DiskRoom    \* bound: the bytes the output may have

ASSUME MergeAssumption == Inputs \subseteq Seq(Bytes) /\ ReadMax \in Nat \ {0} /\ DiskRoom \in Nat

(* The names the three arguments may be. *)
Names == {"one", "two", "three"}

VARIABLES
  args,      \* the names of the two inputs and the output
  before,    \* what the files held when the program was started
  file,      \* what they hold
  mpc,       \* where the program is
  fd3,       \* whether the output is open
  turn,      \* the input being copied, 1 or 2
  offset,    \* how much of it has been read
  chunk,     \* what doWrite has still to write
  failed     \* a system call has failed

mergeVars == <<args, before, file, mpc, fd3, turn, offset, chunk, failed>>

Output == args[3]
Input == args[turn]

MergeInit ==
  /\ args \in {a \in [1 .. 3 -> Names] : a[1] = "one"}
  /\ before \in [Names -> Inputs]
  /\ file = before
  /\ mpc = "start" /\ fd3 = FALSE /\ turn = 1 /\ offset = 0 /\ chunk = << >> /\ failed = FALSE

OpenOutput ==
  /\ mpc = "start" /\ mpc' = "open"
  /\ \/ fd3' = TRUE /\ file' = [file EXCEPT ![Output] = << >>] /\ UNCHANGED failed
     \/ failed' = TRUE /\ UNCHANGED <<fd3, file>>
  /\ UNCHANGED <<args, before, turn, offset, chunk>>

(* write_file returns, and main goes on with the second input or ends.     *)
NextInput ==
  /\ mpc' = IF turn = 1 THEN "open" ELSE "done"
  /\ turn' = 2 /\ offset' = 0 /\ chunk' = << >>

OpenInput ==
  /\ mpc = "open"
  /\ \/ mpc' = "read" /\ UNCHANGED <<turn, offset, chunk, failed>>
     \/ failed' = TRUE /\ NextInput        \* read(-1, ...) fails
  /\ UNCHANGED <<args, before, file, fd3>>

Unread == SubSeq(file[Input], offset + 1, Len(file[Input]))

(* What a read gets. *)
Piece(bytes) == SubSeq(bytes, 1, IF Len(bytes) < ReadMax THEN Len(bytes) ELSE ReadMax)

EndOfFile == Unread = << >>

(* strlen: up to the first NUL. *)
String(bytes) ==
  SubSeq(bytes, 1, CHOOSE n \in 0 .. Len(bytes) :
                     /\ \A i \in 1 .. n : bytes[i] # Nul
                     /\ n < Len(bytes) => bytes[n + 1] = Nul)

ReadPiece ==
  /\ mpc = "read" /\ ~EndOfFile
  /\ offset' = offset + Len(Piece(Unread))
  /\ chunk' = String(Piece(Unread))
  /\ mpc' = "write"
  /\ UNCHANGED <<args, before, file, fd3, turn, failed>>

ReadEnd ==
  /\ mpc = "read" /\ EndOfFile /\ NextInput
  /\ UNCHANGED <<args, before, file, fd3, failed>>

ReadFails ==
  /\ mpc = "read" /\ failed' = TRUE /\ NextInput
  /\ UNCHANGED <<args, before, file, fd3>>

(* Variant, for mutation: the place in the buffer is not moved on.         *)
RestFromStart(n) == IF n = Len(chunk) THEN << >> ELSE chunk

(* Variant: a write that takes a part is taken for the whole.              *)
RestForgotten(n) == << >>

Rest(n) == SubSeq(chunk, n + 1, Len(chunk))

(* doWrite: any part of what is left is written, and the loop ends when    *)
(* there is nothing left; an empty string is written once, too.            *)
WriteSome ==
  /\ mpc = "write" /\ fd3
  /\ \E n \in (IF chunk = << >> THEN {0} ELSE 1 .. Len(chunk)) :
       /\ Len(file[Output]) + n <= DiskRoom
       /\ file' = [file EXCEPT ![Output] = @ \o SubSeq(chunk, 1, n)]
       /\ chunk' = Rest(n)
       /\ mpc' = IF n = Len(chunk) THEN "read" ELSE "write"
  /\ UNCHANGED <<args, before, fd3, turn, offset, failed>>

(* Variant, for mutation: after an error doWrite tries again.              *)
WriteErrorRetried ==
  /\ mpc = "write" /\ failed' = TRUE
  /\ UNCHANGED <<args, before, file, mpc, fd3, turn, offset, chunk>>

(* An error ends doWrite, but not the copying. *)
WriteError ==
  /\ mpc = "write"
  /\ failed' = TRUE /\ mpc' = "read" /\ chunk' = << >>
  /\ UNCHANGED <<args, before, file, fd3, turn, offset>>

MergeNext ==
  \/ OpenOutput \/ OpenInput \/ ReadPiece \/ ReadEnd \/ ReadFails \/ WriteSome \/ WriteError

(* A single process that the system goes on running.                       *)
MergeFairness == WF_mergeVars(MergeNext)

MergeSpec == MergeInit /\ [][MergeNext]_mergeVars /\ MergeFairness

-----------------------------------------------------------------------------
MergeTypeOK ==
  /\ args \in [1 .. 3 -> Names] /\ before \in [Names -> Inputs]
  /\ \A n \in Names : file[n] = before[n] \/ (n = Output /\ Len(file[n]) <= DiskRoom)
  /\ mpc \in {"start", "open", "read", "write", "done"}
  /\ fd3 \in BOOLEAN /\ failed \in BOOLEAN
  /\ turn \in 1 .. 2 /\ offset \in 0 .. Len(file[Input])
  /\ Len(chunk) <= ReadMax

(* The elements of s at the places of S, in their order. *)
Picked(s, S) ==
  [k \in 1 .. Cardinality(S) |-> s[CHOOSE i \in S : Cardinality(S \cap (1 .. i)) = k]]

(* What the inputs held when the program was started; one that is the      *)
(* output is emptied before it is read.                                    *)
Given(k) == IF args[k] = Output THEN << >> ELSE before[args[k]]
BothInputs == Given(1) \o Given(2)

NulFree(bytes) == \A i \in DOMAIN bytes : bytes[i] # Nul

(* Without an error, and if the inputs have no NUL, the output is always a *)
(* beginning of the first input and then the second, and at the end it is  *)
(* both of them whole, whatever pieces they are read in and whatever the   *)
(* writes are cut into.  If it is itself the second, there is no such end  *)
(* unless the first is empty: it is read while it is written, over and     *)
(* over.  (fconc.c:18-20, write_file.c:14-25, dowrite.c:10-17)             *)
OutputAsRead ==
  (~failed /\ mpc # "start" /\ NulFree(BothInputs)) =>
    IF args[2] = Output THEN mpc = "done" => Given(1) = << >>
    ELSE /\ Len(file[Output]) <= Len(BothInputs)
         /\ file[Output] = SubSeq(BothInputs, 1, Len(file[Output]))
         /\ mpc = "done" => file[Output] = BothInputs

(* "creates a third file using system calls, that contains the two input   *)
(* files" (README.md of the program), whatever the files hold: when no     *)
(* call has failed and the third file is not one of them.                  *)
InputsInOutput ==
  (mpc = "done" /\ ~failed /\ Output \notin {args[1], args[2]}) => file[Output] = BothInputs

(* Errors and NULs leave gaps in the output, at any place, but nothing is  *)
(* written twice or out of order.  (dowrite.c:12-15, write_file.c:18-23)   *)
GapsOnly ==
  (fd3 /\ args[2] # Output) =>
    \E S \in SUBSET DOMAIN BothInputs : file[Output] = Picked(BothInputs, S)

(* The program ends, also when it copies the output to itself: the disk is *)
(* full some time, and the read overtakes the write.                       *)
(* (write_file.c:14-25, dowrite.c:12-15)                                   *)
MergeEnds == <>(mpc = "done")

=============================================================================
