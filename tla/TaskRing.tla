------------------------------ MODULE TaskRing ------------------------------
(***************************************************************************)
(* The circular doubly linked list of struct node_list that the scheduler  *)
(* keeps (Scheduler/scheduler-prio.c), as a sequence of task ids read from *)
(* curr along the next pointers: s[1] is curr, s[2] is curr->next.         *)
(***************************************************************************)
EXTENDS Integers, SequencesExt

(* Variants, for mutation: one node too many, and curr unlinked instead of *)
(* the node that was looked for.                                           *)
InitialRingLong(n) == [i \in 1 .. n + 2 |-> i - 1]
WithoutHead(s, t) == Tail(s)

(* The list built from argv: the shell, then the programs in order. *)
InitialRing(n) == [i \in 1 .. n + 1 |-> i - 1]

(* The same list read from its k-th node: curr = that node. *)
Rotate(s, k) == SubSeq(s, k, Len(s)) \o SubSeq(s, 1, k - 1)

(* A new node is linked right after curr. *)
InsertAfterHead(s, t) == InsertAt(s, 2, t)

(* The position of task t, which the do-while over next finds. *)
PositionOf(s, t) == CHOOSE k \in 1 .. Len(s) : s[k] = t

(* The node of task t unlinked. *)
Without(s, t) == RemoveAt(s, PositionOf(s, t))

(* The first position after the head that holds a task of T, the head      *)
(* itself being looked at last; 0 when no position does.                   *)
FirstAfterHead(s, T) ==
  LET later == {k \in 2 .. Len(s) : s[k] \in T}
  IN  IF later # {} THEN Min(later)
      ELSE IF Len(s) > 0 /\ s[1] \in T THEN 1 ELSE 0
=============================================================================
