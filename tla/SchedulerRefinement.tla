------------------------ MODULE SchedulerRefinement ------------------------
(***************************************************************************)
(* The list the scheduler keeps by signals, reports of waitpid and the     *)
(* counter hashigh implements the round robin of module RoundRobin.        *)
(***************************************************************************)
EXTENDS Scheduler

RR == INSTANCE RoundRobin WITH queue <- ring, high <- HighTasks

(* Every step of the scheduler is a step of the round robin or leaves the  *)
(* list alone, up to the step that makes a freed node curr.                *)
ImplementsRoundRobin ==
  RR!Init /\ [][pc' # "wild" => [RR!Next]_(RR!rrVars)]_vars
=============================================================================
