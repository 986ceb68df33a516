--------------------------- MODULE SchedulerLive ---------------------------
(***************************************************************************)
(* What the scheduler eventually does, under the fairness that Linux and   *)
(* the timer give it.                                                      *)
(***************************************************************************)
EXTENDS Scheduler

(* Weak: a running timer expires, a pending signal has its handler run,    *)
(* and sigchld_handler goes on until it returns.  Strong, for what signals *)
(* keep interrupting: main runs on between two signals; a child is on the  *)
(* processor for a whole quantum, in which it acts on the signals it was   *)
(* sent, stops itself before its execve, and, the shell, reads a reply.    *)
(* Nobody need type a command and no program need end.                     *)
Fairness ==
  /\ WF_vars(AlarmExpires) /\ WF_vars(Sigalrm) /\ WF_vars(SigchldHandler)
  /\ SF_vars(Main)
  /\ \A t \in Tasks : SF_vars(TakeSignal(t))
  /\ SF_vars(GetReply)

FairSpec == Spec /\ Fairness

(* Round robin: while no task is HIGH, every task in the list gets the     *)
(* processor again and again until it has ended.                           *)
EveryTaskRuns ==
  \A t \in Tasks :
    Serving /\ t \in Listed ~>
      ~Alive \/ t \notin Listed \/ HighTasks # {} \/ (Curr = t /\ proc[t] = "run")

(* With priorities: as long as there is a HIGH task the processor goes to  *)
(* HIGH tasks in the end, and a single HIGH task is never passed over.     *)
HighTaskRuns ==
  \A t \in Tasks :
    Serving /\ HighTasks = {t} ~>
      ~Alive \/ HighTasks # {t} \/ (Curr = t /\ proc[t] = "run")

(* 'k id': the task is killed, even one that is stopped, and its node goes.*)
KillTakesEffect ==
  \A t \in Tasks :
    rq = [op |-> "kill", id |-> t] /\ Serving /\ t \in Listed ~> ~Alive \/ t \notin Listed

(* The shell blocks until it has a reply, and it gets one, unless there is *)
(* a HIGH task to keep it from the processor.                              *)
RequestAnswered ==
  shell = "waiting" ~> ~Alive \/ shell = "idle" \/ ShellClosed \/ HighTasks # {}

(* When all children have died, and no request for another is waiting, the *)
(* scheduler exits with success (or had a freed node for curr before).     *)
LastDeathExits ==
  Serving /\ rq.op # "exec" /\ (\A t \in Child : proc[t] = "zombie")
    ~> pc \in {"exit0", "wild"}
=============================================================================
