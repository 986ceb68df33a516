---------------------------- MODULE RequestQueue ----------------------------
(***************************************************************************)
(* What a virtqueue promises to the guest driver and to the handler of the *)
(* device in QEMU: requests are popped and answered in the order in which  *)
(* they were added.  VirtioCrypto has one of these for each device, of     *)
(* which it needs only the lengths.                                        *)
(***************************************************************************)
EXTENDS Integers, Sequences

CONSTANT Requests

VARIABLES
  waiting,     \* the requests that the device has not popped
  fresh,       \* how many were added since the last kick
  answered,    \* those it has popped and the guest has not taken back
  told,        \* the device has been told
  called       \* its handler has been called

queueVars == <<waiting, fresh, answered, told, called>>

Members(s) == {s[i] : i \in DOMAIN s}

(* The device is told once when it starts. *)
Start ==
  /\ waiting = << >> /\ fresh = 0 /\ answered = << >>
  /\ told = TRUE /\ called = FALSE

AddRequest(r) ==
  /\ r \notin Members(waiting) \cup Members(answered)
  /\ waiting' = Append(waiting, r) /\ fresh' = fresh + 1
  /\ UNCHANGED <<answered, told, called>>

(* The first request that waits is the one the device asks to be told of.  *)
Tell ==
  /\ told' = (told \/ Len(waiting) \in 1 .. fresh) /\ fresh' = 0
  /\ UNCHANGED <<waiting, answered, called>>

CallHandler ==
  /\ told /\ ~called /\ told' = FALSE /\ called' = TRUE
  /\ UNCHANGED <<waiting, fresh, answered>>

(* A call answers one request, if there is one. *)
AnswerOne ==
  /\ called /\ called' = FALSE
  /\ IF waiting = << >> THEN UNCHANGED <<waiting, answered>>
     ELSE waiting' = Tail(waiting) /\ answered' = Append(answered, Head(waiting))
  /\ UNCHANGED <<fresh, told>>

TakeAnswer ==
  /\ answered # << >> /\ answered' = Tail(answered)
  /\ UNCHANGED <<waiting, fresh, told, called>>

QueueNext ==
  \/ \E r \in Requests : AddRequest(r)
  \/ Tell \/ CallHandler \/ AnswerOne \/ TakeAnswer
  \/ Start'
=============================================================================
