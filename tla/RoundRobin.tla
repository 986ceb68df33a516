----------------------------- MODULE RoundRobin -----------------------------
(***************************************************************************)
(* What the scheduler of Scheduler/ promises of its list, without signals, *)
(* processes or counters: a round robin over the tasks, in which HIGH      *)
(* tasks, while there are any, take all the turns.                         *)
(***************************************************************************)
EXTENDS TaskRing

CONSTANT NProc     \* the programs that are there at the start

VARIABLES queue,   \* the tasks, whose turn it is first
          high     \* those with HIGH priority

rrVars == <<queue, high>>

Init == queue = << >> /\ high = {}

Begin == queue = << >> /\ queue' = InitialRing(NProc) /\ UNCHANGED high

(* The tasks that may have the next turn. *)
Candidates(T, H) == IF H = {} THEN T ELSE H

(* The head's turn is over: the next candidate after it is the head.       *)
Turn ==
  /\ queue # << >>
  /\ queue' = Rotate(queue, FirstAfterHead(queue, Candidates(Range(queue), high)))
  /\ UNCHANGED high

(* A new task is LOW and has its turn next, priorities permitting.         *)
Admit(t) ==
  /\ queue # << >> /\ t \notin Range(queue)
  /\ queue' = InsertAfterHead(queue, t)
  /\ UNCHANGED high

(* A task leaves, and the turn passes on, as it must when it was the       *)
(* head's, or stays, as it may when it was another's.                      *)
Leave(t) ==
  LET heirs == Candidates(Range(queue) \ {t}, high \ {t})
      k == FirstAfterHead(queue, heirs)
  IN  /\ t \in Range(queue)
      /\ high' = high \ {t}
      /\ \/ heirs # {} /\ queue' = Without(Rotate(queue, k), t)
         \/ (heirs = {} \/ queue[1] # t) /\ queue' = Without(queue, t)

SetHigh(t) == t \in Range(queue) /\ high' = high \cup {t} /\ UNCHANGED queue
SetLow(t) == t \in high /\ high' = high \ {t} /\ UNCHANGED queue

Next == \/ Begin \/ Turn
        \/ \E t \in Range(queue) : Leave(t) \/ SetHigh(t) \/ SetLow(t)
        \/ \E t \in Range(queue') : Admit(t)

Spec == Init /\ [][Next]_rrVars
=============================================================================
