----------------------------- MODULE Scheduler -----------------------------
(***************************************************************************)
(* The process scheduler of Scheduler/: the main program with its two      *)
(* signal handlers (scheduler-prio.c, and scheduler-shell.c when           *)
(* Priorities is FALSE), the shell that sends it requests over a pipe      *)
(* (shell.c), its children as the kernel sees them, and the signals        *)
(* between them.  Task 0 is the shell, 1 .. nproc are the programs.        *)
(***************************************************************************)
EXTENDS TaskRing

CONSTANTS
  NProc,        \* programs named on the command line, argc - 1
  MaxTasks,     \* bound: the shell's user asks for no more programs than this
  Priorities,   \* TRUE: scheduler-prio.c, FALSE: scheduler-shell.c
  Ops,          \* the commands the shell's user may type
  Mortal,       \* the tasks whose program may end
  ForkMayFail   \* whether the fork of an 'e' command may fail

AllOps == {"print", "kill", "exec", "high", "low"}

ASSUME CountAssumption == /\ NProc \in Nat
                          /\ MaxTasks \in Nat
                          /\ NProc <= MaxTasks
ASSUME ModeAssumption == /\ Priorities \in BOOLEAN
                         /\ ForkMayFail \in BOOLEAN
                         /\ Ops \subseteq AllOps

Shell == 0
Tasks == 0 .. MaxTasks

Requests == [op : Ops \cap {"print", "exec"}, id : {Shell}]
            \cup [op : Ops \cap {"kill", "high", "low"}, id : Tasks]
NoRequest == [op |-> "none", id |-> Shell]

VARIABLES
  \* globals of the scheduler
  ring,      \* the list from curr
  prio,      \* the priority of each task
  hashigh,   \* how many tasks are HIGH, as the code counts them
  nproc,     \* how many programs there have been
  dead,      \* dead_children
  nopid,     \* tasks whose node holds the -1 of a failed fork as its pid
  \* where the scheduler is, and the signals it has not handled yet
  pc,        \* boot, read, reply, pause, exit0, exit1 or wild
  handler,   \* out, entry (of sigchld_handler) or loop (over waitpid)
  chld,      \* SIGCHLD is pending
  alrm,      \* SIGALRM is pending
  alarm,     \* the timer set by alarm() is running
  \* the children
  proc,      \* none, run, stopped, parked, zombie or gone
  fresh,     \* forked and not yet stopped by its own raise(SIGSTOP)
  pend,      \* the signals each child has not acted on yet
  \* the pipes and the shell
  rq,        \* what is in the request pipe
  ret,       \* the value process_request returned, until the shell reads it
  shell      \* idle, or waiting for the reply

listVars   == <<ring, prio, hashigh, nproc, dead, nopid>>
signalVars == <<chld, alrm, alarm>>
childVars  == <<proc, fresh, pend>>
pipeVars   == <<rq, ret, shell>>
vars == <<ring, prio, hashigh, nproc, dead, nopid, pc, handler,
          chld, alrm, alarm, proc, fresh, pend, rq, ret, shell>>

Curr == ring[1]
Listed == Range(ring)
HighTasks == {t \in Listed : prio[t] = "HIGH"}

(* The scheduler is running.  "wild" is where a freed node has become      *)
(* curr: what the program does from there on is undefined, and the model   *)
(* stops.                                                                  *)
Alive == pc \notin {"exit0", "exit1", "wild"}
Serving == pc \in {"read", "reply", "pause"}
Child == {t \in Tasks : proc[t] \notin {"none", "gone"}}
ShellClosed == proc[Shell] \in {"zombie", "gone"}

(***************************************************************************)
(* Signals to the children.  kill(-1, sig) reaches every process.          *)
(***************************************************************************)
Asleep(p) == p \in {"stopped", "parked"}

(* Variant, for mutation: the signal goes to the process group. *)
SentToGroup(t) == Tasks
SentTo(t) == IF t \in nopid THEN Tasks ELSE {t}

(* SIGSTOP and SIGKILL wait until the child acts on them. *)
Post(sig, T) == [q \in Tasks |-> IF q \in T /\ proc[q] \in {"run", "stopped", "parked"}
                                 THEN pend[q] \cup {sig} ELSE pend[q]]

(* SIGCONT acts at once: it wakes a stopped child, whether or not the stop *)
(* has been reported, and clears a SIGSTOP the child has not acted on.     *)
(* p is the state of the children it finds.  A child that continues sends  *)
(* SIGCHLD, as SA_NOCLDSTOP is not set.                                    *)
Cont(T, p) ==
  /\ proc' = [q \in Tasks |-> IF q \in T /\ Asleep(p[q]) THEN "run" ELSE p[q]]
  /\ pend' = [q \in Tasks |-> IF q \in T THEN pend[q] \ {"STOP"} ELSE pend[q]]
  /\ chld' = (chld \/ \E q \in T : Asleep(p[q]))

-----------------------------------------------------------------------------
Init ==
  /\ ring = << >>
  /\ prio = [t \in Tasks |-> "LOW"]
  /\ hashigh = 0 /\ nproc = NProc /\ dead = 0 /\ nopid = {}
  /\ pc = "boot" /\ handler = "out"
  /\ chld = FALSE /\ alrm = FALSE /\ alarm = FALSE
  /\ proc = [t \in Tasks |-> IF t <= NProc THEN "run" ELSE "none"]
  /\ fresh = 0 .. NProc
  /\ pend = [t \in Tasks |-> {}]
  /\ rq = NoRequest /\ ret = "none" /\ shell = "idle"

(***************************************************************************)
(* main, up to the request loop.  Until the handlers are installed SIGCHLD *)
(* is ignored.                                                             *)
(***************************************************************************)
WaitReady(t) ==
  /\ pc = "boot" /\ proc[t] = "stopped"
  /\ proc' = [proc EXCEPT ![t] = "parked"]
  /\ UNCHANGED <<listVars, pc, handler, signalVars, fresh, pend, pipeVars>>

WaitDead(t) ==
  /\ pc = "boot" /\ proc[t] = "zombie"
  /\ proc' = [proc EXCEPT ![t] = "gone"]
  /\ pc' = "exit1"
  /\ UNCHANGED <<listVars, handler, signalVars, fresh, pend, pipeVars>>

Start ==
  /\ pc = "boot" /\ \A t \in 0 .. NProc : proc[t] = "parked"
  /\ ring' = InitialRing(NProc)
  /\ Cont({Shell}, proc)
  /\ pc' = IF NProc = 0 THEN "exit1" ELSE "read"
  /\ UNCHANGED <<prio, hashigh, nproc, dead, nopid, handler, alrm, alarm,
                 fresh, pipeVars>>

(***************************************************************************)
(* sigalrm_handler and sigchld_handler.  Each runs with both signals       *)
(* masked and interrupts main anywhere but between signals_disable and     *)
(* signals_enable.  Linux delivers SIGALRM (14) before SIGCHLD (17) when   *)
(* both are pending.                                                       *)
(***************************************************************************)
(* The loop over waitpid takes less than the SCHED_TQ_SEC of the timer     *)
(* that is set before it.                                                  *)
AlarmExpires ==
  /\ Alive /\ alarm /\ handler # "loop"
  /\ alarm' = FALSE /\ alrm' = TRUE
  /\ UNCHANGED <<listVars, pc, handler, chld, childVars, pipeVars>>

Sigalrm ==
  /\ Serving /\ handler = "out" /\ alrm
  /\ alrm' = FALSE
  /\ pend' = Post("STOP", SentTo(Curr))
  /\ UNCHANGED <<listVars, pc, handler, chld, alarm, proc, fresh, pipeVars>>

Sigchld ==
  /\ Serving /\ handler = "out" /\ chld /\ ~alrm
  /\ chld' = FALSE /\ handler' = "entry"
  /\ UNCHANGED <<listVars, pc, alrm, alarm, childVars, pipeVars>>

(* Variant: the timer is not set. *)
RearmNoTimer ==
  /\ Alive /\ handler = "entry"
  /\ handler' = "loop"
  /\ UNCHANGED <<listVars, pc, signalVars, childVars, pipeVars>>

Rearm ==
  /\ Alive /\ handler = "entry"
  /\ handler' = "loop" /\ alarm' = TRUE
  /\ UNCHANGED <<listVars, pc, chld, alrm, childVars, pipeVars>>

(* Variant: priorities are ignored. *)
EligibleAll(h) == Listed

(* The tasks a turn may go to when h of them are HIGH. *)
Eligible(h) == IF h = 0 THEN Listed ELSE HighTasks

(* Variant: SIGCONT is sent before curr is moved. *)
DispatchThenMove(k, p) ==
  IF k = 0 THEN proc' = p /\ UNCHANGED <<pend, chld>>
           ELSE Cont(SentTo(Curr), p)

(* curr becomes the node at position k, which is sent SIGCONT; nothing     *)
(* happens when the search found no node (k = 0).                          *)
Dispatch(k, p) ==
  IF k = 0 THEN proc' = p /\ UNCHANGED <<pend, chld>>
           ELSE Cont(SentTo(ring[k]), p)

ReapStopped(t) ==
  LET k == FirstAfterHead(ring, Eligible(hashigh))
  IN  /\ Alive /\ handler = "loop" /\ proc[t] = "stopped"
      /\ ring' = IF k = 0 THEN ring ELSE Rotate(ring, k)
      /\ Dispatch(k, [proc EXCEPT ![t] = "parked"])
      /\ UNCHANGED <<prio, hashigh, nproc, dead, nopid, pc, handler, alrm, alarm,
                     fresh, pipeVars>>

(* Variants: the last death is looked for one too early and one too late.  *)
AllDeadEarly(d) == d = nproc
AllDeadLate(d) == d > nproc + 1

(* hashigh when task t has died. *)
HighLeft(t) == hashigh - (IF prio[t] = "HIGH" THEN 1 ELSE 0)

AllDead(d) == d = nproc + 1

(* The successor of curr is looked up before the dead node is unlinked.    *)
(* When HIGH tasks are left and it is that successor that died, the search *)
(* ends on it: a LOW one hides the rest of the list (nobody is dispatched) *)
(* and a HIGH one is made curr and freed.                                  *)
ReapDead(t) ==
  LET h == HighLeft(t)
      stale == h # 0 /\ Len(ring) > 1 /\ ring[2] = t
      k == IF stale THEN 0 ELSE FirstAfterHead(ring, Eligible(h) \ {t})
  IN  /\ Alive /\ handler = "loop" /\ proc[t] = "zombie"
      /\ ring' = Without(IF k = 0 THEN ring ELSE Rotate(ring, k), t)
      /\ hashigh' = h
      /\ dead' = dead + 1
      /\ Dispatch(k, [proc EXCEPT ![t] = "gone"])
      /\ pc' = IF AllDead(dead') THEN "exit0"
               ELSE IF stale /\ prio[t] = "HIGH" THEN "wild" ELSE pc
      /\ UNCHANGED <<prio, nproc, nopid, handler, alrm, alarm, fresh, pipeVars>>

SigchldReturn ==
  /\ Alive /\ handler = "loop"
  /\ Child # {} /\ \A t \in Tasks : proc[t] \notin {"stopped", "zombie"}
  /\ handler' = "out"
  /\ UNCHANGED <<listVars, pc, signalVars, childVars, pipeVars>>

(* waitpid fails when there is no child left to wait for. *)
NoChildren ==
  /\ Alive /\ handler = "loop" /\ Child = {}
  /\ pc' = "exit1"
  /\ UNCHANGED <<listVars, handler, signalVars, childVars, pipeVars>>

(***************************************************************************)
(* shell_request_loop.  A request is read and served in one step: what a   *)
(* handler does between the read and signals_disable it could have done    *)
(* before the read.                                                        *)
(***************************************************************************)
Serve(op) == /\ pc = "read" /\ handler = "out" /\ rq.op = op
             /\ rq' = NoRequest /\ pc' = "reply"

ServePrint ==
  /\ Serve("print") /\ ret' = "ok"
  /\ UNCHANGED <<listVars, handler, signalVars, childVars, shell>>

(* Variant: the search starts after curr and does not come round to it. *)
ServeKillNotCurr ==
  /\ Serve("kill") /\ ret' = "ok"
  /\ pend' = IF rq.id \in Listed \ {Curr} THEN Post("KILL", SentTo(rq.id)) ELSE pend
  /\ UNCHANGED <<listVars, handler, signalVars, proc, fresh, shell>>

ServeKill ==
  /\ Serve("kill") /\ ret' = "ok"
  /\ pend' = IF rq.id \in Listed THEN Post("KILL", SentTo(rq.id)) ELSE pend
  /\ UNCHANGED <<listVars, handler, signalVars, proc, fresh, shell>>

(* Variant: the node is linked at the end. *)
LinkedLast(t) == Append(ring, t)

Linked(t) == InsertAfterHead(ring, t)

(* The node is linked whether or not the fork made a child. *)
AddTask(forked) ==
  LET t == nproc + 1
  IN  /\ Serve("exec") /\ ret' = "ok"
      /\ ring' = Linked(t)
      /\ prio' = [prio EXCEPT ![t] = "LOW"]
      /\ nproc' = t
      /\ nopid' = IF forked THEN nopid ELSE nopid \cup {t}
      /\ proc' = IF forked THEN [proc EXCEPT ![t] = "run"] ELSE proc
      /\ fresh' = IF forked THEN fresh \cup {t} ELSE fresh
      /\ UNCHANGED <<hashigh, dead, handler, signalVars, pend, shell>>

ServeExec == AddTask(TRUE)
ServeExecNoFork == ForkMayFail /\ AddTask(FALSE)

(* Variant: a task that has the level already is counted again. *)
ChangesAlways(level) == rq.id \in Listed

Changes(level) == rq.id \in Listed /\ prio[rq.id] # level

SetPriority(op, level, step) ==
  /\ Priorities /\ Serve(op) /\ ret' = "ok"
  /\ prio' = IF Changes(level) THEN [prio EXCEPT ![rq.id] = level] ELSE prio
  /\ hashigh' = IF Changes(level) THEN hashigh + step ELSE hashigh
  /\ UNCHANGED <<ring, nproc, dead, nopid, handler, signalVars, childVars, shell>>

ServeHigh == SetPriority("high", "HIGH", 1)
ServeLow == SetPriority("low", "LOW", -1)

(* scheduler-shell.c knows no priorities: the default case. *)
ServeUnknown ==
  /\ ~Priorities /\ (Serve("high") \/ Serve("low")) /\ ret' = "nosys"
  /\ UNCHANGED <<listVars, handler, signalVars, childVars, shell>>

(* Variant: one request is served. *)
WriteReplyOnce ==
  /\ pc = "reply" /\ handler = "out" /\ pc' = "pause"
  /\ UNCHANGED <<listVars, handler, signalVars, childVars, pipeVars>>

(* The write fails with EPIPE when nobody holds the other end; main then   *)
(* gives up on requests for good.                                          *)
WriteReply ==
  /\ pc = "reply" /\ handler = "out"
  /\ pc' = IF ShellClosed THEN "pause" ELSE "read"
  /\ UNCHANGED <<listVars, handler, signalVars, childVars, pipeVars>>

ReadEof ==
  /\ pc = "read" /\ handler = "out" /\ rq = NoRequest /\ ShellClosed
  /\ pc' = "pause"
  /\ UNCHANGED <<listVars, handler, signalVars, childVars, pipeVars>>

(***************************************************************************)
(* The children.  A change of state of a child makes SIGCHLD pending, once *)
(* there is a handler for it.                                              *)
(***************************************************************************)
Becomes(t, state) ==
  /\ Alive
  /\ proc' = [proc EXCEPT ![t] = state]
  /\ chld' = (chld \/ pc # "boot")
  /\ UNCHANGED <<listVars, pc, handler, alrm, alarm, pipeVars>>

(* Between fork and execve a child stops itself.  SIGKILL goes first. *)
RaiseStop(t) ==
  /\ proc[t] = "run" /\ t \in fresh /\ "KILL" \notin pend[t]
  /\ Becomes(t, "stopped")
  /\ fresh' = fresh \ {t}
  /\ UNCHANGED pend

TakeStop(t) ==
  /\ proc[t] = "run" /\ pend[t] = {"STOP"}
  /\ Becomes(t, "stopped")
  /\ pend' = [pend EXCEPT ![t] = {}]
  /\ UNCHANGED fresh

TakeKill(t) ==
  /\ proc[t] \in {"run", "stopped", "parked"} /\ "KILL" \in pend[t]
  /\ Becomes(t, "zombie")
  /\ pend' = [pend EXCEPT ![t] = {}]
  /\ fresh' = fresh \ {t}

(* A program ends by itself; the shell does when it reads 'q' or an end of *)
(* file, which it does not while it waits for a reply.                     *)
Exit(t) ==
  /\ t \in Mortal /\ proc[t] = "run"
  /\ t = Shell => shell = "idle"
  /\ Becomes(t, "zombie")
  /\ pend' = [pend EXCEPT ![t] = {}]
  /\ fresh' = fresh \ {t}

(***************************************************************************)
(* The shell, when it is on the processor.                                 *)
(***************************************************************************)
ShellRuns == Alive /\ proc[Shell] = "run" /\ Shell \notin fresh

IssueRequest ==
  /\ ShellRuns /\ shell = "idle"
  /\ \E r \in Requests : /\ r.op = "exec" => nproc < MaxTasks
                         /\ rq' = r
  /\ shell' = "waiting"
  /\ UNCHANGED <<listVars, pc, handler, signalVars, childVars, ret>>

GetReply ==
  /\ ShellRuns /\ shell = "waiting" /\ ret # "none" /\ pc # "reply"
  /\ shell' = "idle" /\ ret' = "none"
  /\ UNCHANGED <<listVars, pc, handler, signalVars, childVars, rq>>

(* The scheduler has exited, or is past what C defines. *)
Stopped == ~Alive /\ UNCHANGED vars

-----------------------------------------------------------------------------
SigchldHandler == \/ Sigchld \/ Rearm \/ SigchldReturn \/ NoChildren
                  \/ \E t \in Tasks : ReapStopped(t) \/ ReapDead(t)

Main == \/ Start \/ \E t \in Tasks : WaitReady(t) \/ WaitDead(t)
        \/ ServePrint \/ ServeKill \/ ServeExec \/ ServeExecNoFork
        \/ ServeHigh \/ ServeLow \/ ServeUnknown
        \/ WriteReply \/ ReadEof

TakeSignal(t) == RaiseStop(t) \/ TakeStop(t) \/ TakeKill(t)

Next == \/ Main \/ AlarmExpires \/ Sigalrm \/ SigchldHandler
        \/ \E t \in Tasks : TakeSignal(t) \/ Exit(t)
        \/ IssueRequest \/ GetReply \/ Stopped

Spec == Init /\ [][Next]_vars

-----------------------------------------------------------------------------
Levels == {"LOW", "HIGH"}
ProcStates == {"none", "run", "stopped", "parked", "zombie", "gone"}

(* Every variable has its type. *)
TypeOK ==
  /\ ring \in Seq(Tasks)
  /\ prio \in [Tasks -> Levels]
  /\ hashigh \in Int /\ nproc \in NProc .. MaxTasks /\ dead \in Nat
  /\ nopid \in SUBSET Tasks
  /\ pc \in {"boot", "read", "reply", "pause", "exit0", "exit1", "wild"}
  /\ handler \in {"out", "entry", "loop"}
  /\ chld \in BOOLEAN /\ alrm \in BOOLEAN /\ alarm \in BOOLEAN
  /\ proc \in [Tasks -> ProcStates]
  /\ fresh \in SUBSET Tasks
  /\ pend \in [Tasks -> SUBSET {"STOP", "KILL"}]
  /\ rq \in Requests \cup {NoRequest}
  /\ ret \in {"none", "ok", "nosys"}
  /\ shell \in {"idle", "waiting"}

(* hashigh is the number of HIGH tasks in the list: every path that        *)
(* promotes, demotes or buries a task keeps the counter right.  The search *)
(* of sigchld_handler relies on it to find somebody.                       *)
HighCount == Serving => hashigh = Cardinality(HighTasks)

(* The list holds each child that waitpid has not yet reported dead, once, *)
(* and nothing else but the nodes of failed forks; so dead_children, nproc *)
(* and the length of the list add up, which is what exit(0) is decided on. *)
ListIsChildren ==
  Serving \/ pc = "exit0" =>
    /\ IsInjective(ring)
    /\ Listed = Child \cup nopid /\ Child \cap nopid = {}
    /\ dead + Len(ring) = nproc + 1

(* Whoever is curr has been sent SIGCONT since its last reported stop: the *)
(* next SIGSTOP of sigalrm_handler will stop somebody.  If curr were       *)
(* already stopped no SIGCHLD would follow and scheduling would end.       *)
CurrentNotParked ==
  Serving => \A t \in SentTo(Curr) : proc[t] # "parked"

(* Something will call a handler again: the timer runs, a signal is        *)
(* pending, or curr has a stop or a kill it has not acted on, which makes  *)
(* SIGCHLD pending when it does.  The timer is only ever set at the entry  *)
(* of sigchld_handler, so without this no task would be preempted again.   *)
WakeUpComing ==
  Serving /\ handler = "out" =>
    \/ alarm \/ alrm \/ chld
    \/ \E t \in SentTo(Curr) : proc[t] = "run" /\ pend[t] # {}

(* The scheduler reports success only when no child is left.               *)
ExitMeansAllDead == pc = "exit0" => Child = {}

(* Once the children were ready the scheduler never runs out of children   *)
(* in waitpid: the last death is recognised as the last.                   *)
NoFailureExit == [][pc' = "exit1" => pc \in {"boot", "exit1"}]_vars

(* While a HIGH task is in the list, no dispatch makes a LOW one curr.     *)
HighFirst ==
  [][Serving /\ Serving' /\ Curr' # Curr /\ HighTasks' # {}
       => Curr' \in HighTasks']_vars

(* A stopped task runs again only by being dispatched, and a dispatch goes *)
(* with the end of a task or of its turn: only one task is on the          *)
(* processor ("a scheduler with Round-robin algorithm", Readme).           *)
AtMostOneRuns == Serving => Cardinality({t \in Tasks : proc[t] = "run"}) <= 1

(* The node that is curr was never freed.                                  *)
CurrentIsListed == pc # "wild"

(* A task is sent SIGKILL only by a request that names it.                 *)
KillHitsNamedTask ==
  [][\A t \in Tasks : "KILL" \in pend'[t] \ pend[t] => rq = [op |-> "kill", id |-> t]]_vars

-----------------------------------------------------------------------------
(***************************************************************************)
(* The inductive invariant: the properties above and what they rest on.    *)
(***************************************************************************)
(* Before the list exists. *)
BootState ==
  pc = "boot" =>
    /\ hashigh = 0 /\ nproc = NProc /\ dead = 0 /\ nopid = {} /\ handler = "out"
    /\ prio = [t \in Tasks |-> "LOW"]
    /\ \A t \in Tasks : proc[t] # "gone" /\ (proc[t] = "none" <=> t > NProc)

(* The list is empty only at the end, and holds no number that is still to *)
(* be given.                                                               *)
ListedNumbers ==
  /\ pc = "exit0" => ring = << >>
  /\ Serving => /\ ring # << >>
                /\ \A t \in Listed : t <= nproc
                /\ ForkMayFail \/ nopid = {}

(* Inside sigchld_handler the timer runs; outside, a change that waitpid   *)
(* has not reported has its SIGCHLD pending, and there is a child left.    *)
HandlerState ==
  Serving =>
    /\ handler = "loop" => alarm
    /\ handler = "out" =>
         /\ Child # {}
         /\ chld \/ \A t \in Tasks : proc[t] \notin {"stopped", "zombie"}

ExecBound == rq.op = "exec" => nproc < MaxTasks

(* What the invariants of this module need to be inductive, all of it      *)
(* together: hashigh finds a task to dispatch only because it is the       *)
(* number of HIGH tasks in the list, which is exact only while the list    *)
(* is, and the wake-up comes only because the dispatch found a task.       *)
IInv == /\ TypeOK /\ BootState /\ ListedNumbers /\ HandlerState /\ ExecBound
        /\ HighCount /\ ListIsChildren /\ CurrentNotParked /\ WakeUpComing
=============================================================================
