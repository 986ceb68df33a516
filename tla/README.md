# Formal models of C-development-on-Linux

The repository holds the exercises of a course on operating systems: a user-level process
scheduler, a character device driver for a wireless sensor network, a paravirtual cryptographic
device for QEMU with an encrypted chat on top of it, and a small program that merges files. This
directory holds TLA+ models of that code, the configurations that check them with TLC, and theorems
about them that TLAPS checks. `PROJECT.json` maps every definition to the source lines it stands
for and lists the runs, the mutants that show what each property can catch, the hazards and the
theorems.

    tlc -config SchedulerPrio.cfg SchedulerRefinement.tla     # one run; PROJECT.json lists them all
    tlapm SchedulerProofs.tla                                 # the proofs

## 1. Inventory

| Component | State | Operations | Interacts with | Hard behaviour | What makes it correct |
|---|---|---|---|---|---|
| **Scheduler** (`Scheduler/scheduler-prio.c`; `scheduler-shell.c` is the same program without priorities) | circular list of tasks and `curr`, `hashigh`, `nproc`, `dead_children`, the timer, two pending signals | `main`, `sigalrm_handler`, `sigchld_handler`, five requests | children by signals and `waitpid`; shell by two pipes | handlers interrupt `main`; SIGCHLD does not queue; signals cross each other on their way to a child; forks fail | the list is the children; the counter is exact; turns go round, HIGH tasks first; preemption never ends; `exit(0)` when all are dead |
| **Shell** (`Scheduler/shell.c`, `request.h`) | waiting or not | `p k e h l q` | scheduler, by which it is itself scheduled | waits for a reply while it may be stopped | each request is answered and takes effect |
| **Process helpers** (`Scheduler/proc-common.c`) | none | `wait_for_ready_children` | children at start-up | a child that dies before it is ready | all are stopped before the list is built |
| **Lunix:TNG line discipline** (`lunix-ldisc.c`) | whether it is taken | `open`, `close`, `receive_buf` | TTY layer, protocol | a close in the middle of a packet | one TTY at a time |
| **Lunix:TNG protocol** (`lunix-protocol.c/.h`) | state, bytes read and to read, packet buffer | `lunix_protocol_received_buf`, `lunix_protocol_parse_state`, `lunix_protocol_update_sensors` | line discipline, sensors | packets split or glued over calls, bytes lost, escapes, any length byte | stays in its place in the buffer; a packet updates its sensor once, with its own values |
| **Lunix:TNG sensors and device** (`lunix-sensors.c`, `lunix-chrdev.c/.h`) | per sensor the measurement pages, a spinlock and a queue; per open file a semaphore, a buffer and a timestamp | sensor update; `open`, `read`, `release` | the protocol writes, readers wait in the queue | wake-ups, two readers of one file, signals in a wait, failing copies, timestamps of one second | no torn measurement, the semaphore excludes, readers wake up and read in order |
| **Lunix:TNG module** (`lunix-module.c`) | what has been initialised or registered, the pages of the sensors | `init`, `cleanup`, and the `init` and `destroy` of each part | all of the above; processes and terminals that meet it half set up | a failing step in the middle, opens that initialise a sensor anew, a second load | what was set up is undone; nobody follows a pointer to nothing |
| **Lunix:TNG attach, look-up tables** (`lunix-attach.c`, `mk_lookup_tables.c`, `lunix-lookup.h`) | none kept | sets a line discipline; generates tables | | pure I/O; floating-point arithmetic | |
| **Virtio cryptodev guest driver** (`crypto-chrdev.c`, `crypto-module.c`) | the devices with their minors; per device a semaphore and a virtqueue | load, `probe`, `remove`, unload, `open`; `release` and `ioctl` are never reached (section 9) | the QEMU device through the virtqueue | a semaphore that each `open` initialises anew, signals, several callers on one queue that spin for an answer, a device that is removed | every request is told to the device, every `open` returns |
| **Virtio cryptodev device** (`qemu-3.0.0/hw/char/virtio-cryptodev.c`) | host file descriptors | `vq_handle_output` | guest; the host's `/dev/crypto` | one element for each notification, and notifications that collapse | every element is pushed back |
| **Earlier guest driver and examples** (`Chat/virtio-cryptodev`, `Virtio/.../sockets`, `.../cryptodev`, `test_*.c`) | | | | unfinished or single-threaded course material | |
| **Chat** (`Chat/sockets`) | socket, crypto session, input buffers | connect/accept, `select` on keyboard and socket, encrypt, decrypt | peer by TCP | short reads and writes of fixed-size blocks, both writing at once, a peer that leaves, the next in line | what is typed is what is shown, in order; neither waits for the other for ever |
| **cryptodev-linux** (`Chat/cryptodev/cryptodev-linux-1.9`) | | | | vendored | |
| **File merge** (`Merging_two_files_into_a_third`) | two inputs, one output | `fconc`, `write_file`, `doWrite` | files | partial writes, a NUL in the buffer, output that is also an input | output is the first file, then the second, when neither has a NUL; what an error or a NUL takes away leaves a gap, and nothing is written twice or out of order |
| **QEMU virtio and serial devices** (`qemu-3.0.0`) | per virtqueue the indices of two rings in shared memory, what it knows of them, what it wants to be told of | notifier, `virtqueue_pop`, `virtqueue_push`, reset | the guest through memory and kicks, the handler | vendored; the guest runs at the same time, indices of 16 bits wrap | requests are answered once, in order, and told of |
| **Driver skeleton** (`original/`) | | | | what the driver was before it was written | |

## 2. Plan

1. **Scheduler** (done): the largest piece of original concurrent code. `TaskRing`, `Scheduler`,
   abstract specification `RoundRobin`, refinement, liveness, proofs.
2. **LunixProtocol** (done): line discipline and parser over packets cut into any calls. Theorem:
   it stays in its place in the buffer.
3. **LunixChrdev** (done): the sensor as the writer, open files as readers, with the semaphore, the
   spinlock, the wait queue and signals. Theorems: mutual exclusion where the code has it, no lost
   wake-up.
4. **ChatSession** (done): the server, its clients and TCP. Theorems: lines are shown in order, and
   two writers are never both stuck.
5. **FileMerge** (done): the copying loops, with partial writes and errors. Theorems: without errors
   and NULs the output is the two inputs; errors and NULs only leave gaps. Finding: a NUL does.
6. **LunixModule** (done): loading, with its unwinding, and unloading, met by opens and terminals.
   Theorems: a page is missing only during an open; what the kernel can go wrong by; pages come back.
7. **VirtioCrypto** (done): the guest's driver up to the failure of every `open`, its queue and the
   device. Theorem: every request is told to the device.
8. **VirtQueue** (done): the virtqueue of QEMU with event indices, which implements the abstract
   `RequestQueue` that `VirtioCrypto` takes for granted. Theorem: it does, for all sizes.
9. Proofs (done): every safety invariant, every action property and both refinements that a passing
   run checks are theorems for all values of the constants, under the hypotheses the sections name.

What stays with TLC is liveness, which is out of the prover's reach: `EveryTaskRuns`, `HighTaskRuns`,
`KillTakesEffect`, `RequestAnswered`, `LastDeathExits`, `WaitingEnds`, `SaidIsShown`,
`LeaverIsNoticed`, `MergeEnds` and `OpenReturns`.

`release`, `ioctl` and the sessions of the cryptographic device were in the plan and are dropped: no
`open` of the guest driver ever succeeds (section 9), so every property of sessions would hold of
nothing.

The order is that of how much original concurrent code a part has. One run per question: safety
of each component on its largest affordable instance, liveness on a smaller one, one run for each
disagreement between code and text.

## 3. The scheduler

### Modules

| Module | What it is |
|---|---|
| `TaskRing` | the circular list as a sequence read from `curr`, and what the code does to it |
| `Scheduler` | the program, its children, the signals and the pipes; the safety properties; the inductive invariant |
| `SchedulerLive` | fairness and liveness |
| `RoundRobin` | abstract specification: a queue, a set of HIGH tasks, turns |
| `SchedulerRefinement` | `Scheduler` implements `RoundRobin` |
| `SchedulerProofs` | the proofs: the list, the invariant, the order of turns, one task at a time |

### State

`ring` is the list: `ring[1]` is `curr`, `ring[2]` is `curr->next`, and so on; a task is its `id`
(0 is the shell). Moving `curr` along the list is a rotation. `prio` and `nopid` stand for what a
node holds (priority; whether its pid is the -1 of a failed fork); `hashigh`, `nproc` and `dead`
are the globals. `pc` is where `main` is (building the list, before `read`, between serving and
`write`, in `pause`) or how the program ended; `handler` is where `sigchld_handler` is
(`sigalrm_handler` is one step, since both signals are masked in it). `chld`, `alrm` and `alarm`
are the kernel's: pending signals and the running timer. Of each child, `proc` says whether it
runs, has stopped and not been reported (`stopped`), has stopped and been reported (`parked`), or
has died; `pend` holds the signals it has been sent and not acted on; `fresh` says that it has not
reached the `raise(SIGSTOP)` before its `execve`. `rq`, `ret` and `shell` are the pipes and the
shell.

### Actions

* `main`: `WaitReady`, `WaitDead` (the loop of `wait_for_ready_children`), `Start`; then
  `shell_request_loop`: one `Serve...` action per request, `WriteReply`, `ReadEof`.
* handlers: `Sigalrm`; `Sigchld` (delivery), `Rearm` (the call of `alarm`), `ReapStopped`,
  `ReapDead` (one round of the `waitpid` loop each), `SigchldReturn`, `NoChildren`.
* environment: `AlarmExpires`, the children (`RaiseStop`, `TakeStop`, `TakeKill`, `Exit`) and the
  shell (`IssueRequest`, `GetReply`).

What is taken from Linux, as the code uses it: SIGCONT acts at once, wakes a child whether or not
its stop has been reported (the report is then lost) and clears a SIGSTOP it has not acted on; a
child that stops, continues or dies makes SIGCHLD pending, which is one bit (`SA_NOCLDSTOP` is not
set, so continuing counts); SIGCHLD is ignored until its handler is installed; `waitpid` may return
any child that has something to report; of two pending signals SIGALRM (14) is delivered before
SIGCHLD (17); `kill(-1, sig)` reaches every process of the user; SIGKILL is acted on before SIGSTOP.

Choices that need a word:

* A request is read and served in one step. Between `read` and `signals_disable` a handler may run,
  and what it does it could have done before the `read`, since neither touches the request.
* `ReapDead` looks up the successor of `curr` before the dead node is unlinked, as line 234 does.
  With HIGH tasks left and that successor dead, the search ends on it: a LOW one hides the others
  and nobody is dispatched; a HIGH one is made `curr` and freed. From there the program's behaviour
  is undefined: `pc` becomes `"wild"` and the model stops.
* When the last child dies, the code sends SIGCONT to the pid in the node it has just freed and
  exits; that signal reaches no modelled process.
* The `waitpid` loop is taken to be shorter than the time quantum, so `AlarmExpires` waits for it.
* Forks, pipes and allocations of start-up are taken to succeed: a failure ends the program there.
* A task stopped from outside (by a user's ctrl-Z or another process) is not modelled.

### Properties

Every one is stated with the definition. Invariants: `TypeOK`; `HighCount` (the counter is the
number of HIGH nodes); `ListIsChildren` (the list, the children and the counters agree);
`CurrentNotParked` (the next SIGSTOP will stop somebody); `WakeUpComing` (the timer runs or a
signal is coming, though nothing but `sigchld_handler` ever sets the timer); `ExitMeansAllDead`;
`AtMostOneRuns`; `CurrentIsListed`. Action properties: `HighFirst`, `NoFailureExit`,
`ImplementsRoundRobin`, `KillHitsNamedTask`. Liveness: `EveryTaskRuns`, `HighTaskRuns`,
`KillTakesEffect`, `RequestAnswered`, `LastDeathExits`.

`ImplementsRoundRobin` is a refinement with `queue <- ring` and `high <- ` the HIGH tasks listed:
every step of the program is a step of `RoundRobin` or leaves queue and set alone, up to the step
that makes `pc` `"wild"`. `RoundRobin!Leave` lets the turn stay or pass when another task than the
head leaves, because the code does either. `RoundRobin` has a new task behind the head, as the code
does; that a user who goes on typing `e` cannot put off the other tasks for ever is not shown, since
creations are bounded by `MaxTasks`.

### Runs

| Run | Instance | Shows | Distinct states |
|---|---|---|---|
| `prio_turns` | priorities; shell and 2 programs; `k h l`; all may end | the counter, `curr`, the wake-up, HIGH first, exits, refinement | 802 495 |
| `shell_sched` | no priorities; shell, 1 program and 1 that `e` adds; `p k e h`; forks may fail; all may end | the list, `exit(0)`, refinement | 723 855 |
| `turns` | priorities; shell and 2 programs; `h l`; a program may end; fair | one task at a time, turns | 46 621 |
| `requests` | priorities; shell and 1 program; `p k h`; both may end; fair | kills, replies, the end | 28 264 |
| `freed_node` | as `prio_turns` | **violated**: a freed node is `curr` | |
| `kill_all` | as `shell_sched` | **violated**: a kill reaches everybody | |

Three tasks are the least with which the successor of `curr`, a task behind it and `curr` itself
are different, and with which HIGH and LOW tasks stand before and behind each other. Nothing else
is bounded but the number of tasks ever created (`MaxTasks`, a guard of `IssueRequest`); the state
space is finite because signals are bits and the pipes hold one request and one reply.
Deadlock is checked in every run: `Stopped` stutters only after the program's end.

Two runs fail, and show what the code does:

* `freed_node`: tasks 1 and 2 are HIGH, 1 is `curr`, `k 2`: line 234 looked up 2, line 247 unlinks
  it, line 259 makes it `curr`, line 264 frees it.
* `kill_all`: a failed fork in `sched_create_task` (line 118 prints and goes on) leaves a node with
  pid -1, and `k` on it is `kill(-1, SIGKILL)`.

Two more things are visible in the model and deliberate or harmless enough not to be called
failures: a kill of a task that is not `curr` dispatches a second one (`AtMostOneRuns` holds in
`turns`, without kills, and not in general); and an alarm that was pending when the timer was set
again ends a turn early.

### Fairness

`SchedulerLive!Fairness`. Weak: the timer expires; a pending signal is delivered; the handler goes
on. Strong: `main` goes on (handlers interrupt it again and again, but a quantum is seconds long);
a child acts on a signal it was sent (it must be on the processor for that, which it is again and
again); the shell reads a reply that is there. No fairness for `Exit` or `IssueRequest`: no program
need end and no user need type. A LOW shell is starved while there is a HIGH task, so
`RequestAnswered` makes an exception for that.

### Proofs

`SchedulerProofs` proves, for every number of programs and tasks, every set of commands and of
tasks that may end, with and without priorities:

* `Invariance`: `Spec => []IInv`, and from it `TypeCorrect`, `HighCountExact`, `ListExact`,
  `CurrentAwake`, `WakeUpAlwaysComing`, `ExitOnlyWhenAllDead`;
* `NoFailure`: `Spec => NoFailureExit`, assuming that no fork fails.

Assumptions: `CountAssumption` (naturals, `NProc <= MaxTasks`) and `ModeAssumption` (types).

None of the invariants is inductive by itself. That there is a wake-up to come after a stop needs
that the handler dispatched somebody; that it did needs that the search of `sigchld_handler` found
a node, hence that `hashigh` is zero exactly when there is no HIGH node; that the counter stays
exact needs that a task is in the list once; and that needs that a child reported dead is in the
list and that the numbers given by `e` are new. `IInv` is the conjunction, with the state of the
program before the list exists (`BootState`) and what holds inside and outside the handler
(`HandlerState`). One lemma per action or family of actions proves that it is kept (`ReapDeadStep`
is the longest); the lemmas before it prove what rotating, inserting and removing do to a sequence
without repetition.

With the same invariant:

* `HighTasksFirst`: `Spec => HighFirst`. The counter decides whether the search is for a HIGH task,
  and it is exact (`HighCount`); the search goes once round the list from behind `curr`, so it ends on
  a HIGH task when there is one, or, when the dead task is the successor of `curr`, on nobody.
* `ListIsRoundRobin`: `Spec => ImplementsRoundRobin`. Initial states map to initial states; each
  request maps to the step of `RoundRobin` of its name or to a stutter, a death to `Leave`, a stop to
  the end of a turn, and the rest leaves queue and set alone.
* `OneRunsAtATime`: `Spec => []AtMostOneRuns`, assuming that the commands have no `k` and no `e`, as in
  the run `turns`: the death of a task that is not `curr` dispatches a second one, and a new child runs
  until it stops itself. `OneBusy` counts with the task that runs those whose stop or death has not been
  reported: only the report dispatches the next.

Model-checked only: liveness (out of the prover's reach). `CurrentIsListed` and `KillHitsNamedTask` are
the properties of the two runs that fail.

## 4. The line discipline and the protocol of Lunix:TNG

`LunixProtocol` is the module; `LunixProtocolMC` has the packets of the runs; `LunixProtocolProofs`
the proofs. The run `lunix` checks it together with the device of section 5: `LunixMC` is the sum of
the two, a behaviour of which is one of the side it starts with (`side`), while the other stays as it
is. The two meet in the call of `lunix_sensor_update`, of which the protocol's part is how it comes
about and with which values, and the device's what it does to the sensor's pages.

### State and actions

`available` is `lunix_disc_available` (the code's atomic counter) and `attached` the terminals that
have the discipline. `state`, `bytes_read`, `bytes_to_read`, `pos`, `next_is_special` and `packet`
are the fields of `lunix_protocol_state_struct`. `parsing`, `buf` and `iter` are the call that is
running: the bytes it has not looked at and the round of its loop. `wire` is what the motes have
sent and the TTY layer has not handed over; `sent` and `updates` record the packets sent and the
calls of `lunix_sensor_update`.

* line discipline: `OpenTTY`, `CloseTTY`, `Receive`. The TTY layer calls `receive_buf` with any number of
  the bytes that are there, for one terminal at a time, and not after `close` (it serialises these
  calls); a failed open changes nothing.
* parser, all of `lunix_protocol_received_buf`: one step per round of the loop of
  `lunix_protocol_parse_state` (`ParseSpecial`, `ParseEscaped`, `ParsePlain`, `ParseStuck`) and one
  for each end of that loop (`OutOfBytes`, `NextState`, `PacketDone`). The states are tried once
  each, in order, in one call: `NextState` goes on with what is left of the call and `PacketDone`
  drops it, which is why `PacketDone` also returns (`CallReturns`).
* environment: `Send`, a mote sends a packet; all but its first two and its last byte are escaped
  on the line, which is what the parser undoes.

The Makefile's default is a build with `LUNIX_DEBUG`, in which `lunix_protocol_parse_state` gives up
in its 50th round (`MAX_ITER`); that is the build modelled. Without it only `ParseStuck` would go.

### Properties and runs

| Run | Instance | Shows | Distinct states |
|---|---|---|---|
| `lunix`, side `line` | two terminals; two packets out of four kinds; quiet line | `ProtocolTypeOK`, `PacketPlace`, `SingleTTY`, `EveryReadingOnce` | 353 298 of 583 984 |
| `lunix_busy_line` | one terminal; the same packets at any time | **violated**: `PacketsAreFramed` | |

The four packets are a measurement of a known node with bytes that are escaped, one of a node that
does not exist, a packet of another type with an empty payload, and one longer than `MAX_ITER`.
Two packets are enough for the second to find what the first has left behind, and two terminals for
one to try to take the discipline from the other. A call may be cut at every place, also after an
escape.

`QuietLine` says that a mote sends when the packet before has been received whole, and that a
terminal is not closed in the middle of one. On such a line `EveryReadingOnce` holds. On a busy one
the parser loses its place in the stream of packets and does not find it again, because it does not
look for the start byte its comments speak of: the finding of `lunix_busy_line`. It loses it in its
*packets* only: `PacketPlace`, its place in the *buffer*, holds on any line, and is proved.

### Proofs

`LunixProtocolProofs` proves, for any packets (sequences of bytes, `PacketAssumption`), any number
of terminals, sensors and packets, on a quiet or a busy line: `ParserTypes`
(`ProtocolTypeOK`), `BytesInPlace` (`PacketPlace`) and `OneTerminal` (`SingleTTY`). `ProtocolTypeOK`
says that nothing is stored outside the buffer, and is not inductive without `PacketPlace`, which gives the greatest place of
each state (`9 + 255` for the end byte); `PacketPlace` needs that the payload length is a byte and
stays as it is once it is stored. `ParserInv` is their conjunction. As a consequence the check
"Prevent buffer overflows" (line 151) never fires.

`ReadingsTold` is `EveryReadingOnce`, on a quiet line, assuming that every packet is whole: it has the
length that its length byte gives, and a measurement has all its values (`WholePacket`, which the
packets of the run satisfy). What a mote
puts on the line is defined by places and not by a fold over the bytes: the byte at place k of a packet
begins at place k plus the number of special bytes before it (`Begins`), and is an escape there if it
is special (`Frame`). `QuietInv` then says where a parser is that has taken a part of the last packet:
`Resting`, with everything told, or `UnderWay`, with what is left in the call and on the line being the
frame from where the parser's `pos` begins (one further after an escape), the bytes before it in the
buffer, no more rounds gone in this call than bytes taken of the frame, and all packets but the last
told. The bound on the rounds is what a frame shorter than `MAX_ITER` is needed for.

## 5. A sensor and its open files

`LunixChrdev` is the module, `LunixChrdevMC` gives its constants, `LunixChrdevProofs` has the proofs.

### State and actions

One measurement of one sensor. `sensor` is its page (value, `last_update`), `spin` the spinlock, `wq`
the wait queue, `writer` where `lunix_sensor_update` is. A file has a position `filp_pos` (kept by
the kernel) and the fields of `lunix_chrdev_state_struct`: `sem` (lock), `ts` (buf_timestamp),
`buf_data` and `lim` (buf_lim). A process has its place in `read` and the local values that live
across steps: `f_pos` (what `*f_pos` is), `cnt`, `data`. The k-th measurement is the number k and its text has
`TextLen[k]` bytes: what the digits are no property asks, how many there are decides where a read
ends. `fileOf` says which file a process reads: its own, or one that another process reads too,
as after a fork.

* sensor: `StoreValue`, `StoreTime`, `WakeSleepers`. The clock stays or goes on by one second
  between two measurements.
* files: `Open`, `Release`. `Open` initialises the *sensor* as well, as line 166 does.
* `read`: `Read` (entry), `Lock`, then at position 1 the update: `Unlock`, the wait (`Queue`, `Fresh`,
  `Sleep`, `Awake`), `Relock`, `GrabTime`, `GrabValue`, `Format`; then `CopyToUser`, `LastUp`, `Return`.
  The errors: `LockInterrupted`, `WaitInterrupted`, `RelockInterrupted`, `Fault`.

What is taken from Linux (the driver is built for 4.9): `read` works on a copy of the file position,
which is stored when it returns without an error; for a character device no lock protects that
position; `wait_event_interruptible` puts the process in the queue, looks at the condition once
more, and then sleeps or, when there is a signal, leaves; a wake-up empties the queue, as every
process takes itself out of it when it wakes; `wake_up` and the initialisation of a page are atomic
enough to be one step each. A copy that starts behind the end of the buffer has a negative length
and fails, as a copy to memory the process does not have.

Choices: `open` is one step (with `QuietOpens` nothing is there for it to interleave with, and
without it the one step is enough for the finding). Only processes of `Signalled` get signals, and
at most one wait on a file is ended by one (`hit`, reset by `open`): a second would raise the
semaphore to 3 and so on without a bound. An allocation of the file's state
that fails ends `open` there; the pages of the sensor that `open` may not get are in `LunixModule`.

`QuietOpens` says that a file is opened when no process is in a read and the sensor is not being
updated, and when either no other file is open or there has been no measurement.

### Properties and runs

| Run | Instance | Shows | Distinct states |
|---|---|---|---|
| `lunix`, side `device` | two processes, with a file each or one between them; one gets signals; two measurements, of 2 and of 5 bytes; reads of 2 bytes; `QuietOpens`; fair | `DeviceTypeOK`, `LockExcludes`, `CacheOfOneMeasurement`, `SleepersWoken`, `ReadsInOrder`, `WaitingEnds` | 230 686 of 583 984 |
| `lunix_open_loses_sleepers` | no signals; files are opened at any time | **violated**: `SleepersWoken` | |
| `lunix_signal_breaks_lock` | as `lunix`, not fair | **violated**: `LockAlwaysExcludes` | |

Reads of 2 bytes end in the middle of the text of 5, exactly at the end of the text of 2, and, when
another process has put the short text in place of the long one, behind the end. Two measurements
are the least for which one can be mistaken for the other. Deadlock is not checked: when the motes
fall silent, readers wait, and so does the parser, as they should.

`LockExcludes`, `CacheOfOneMeasurement` and `ReadsInOrder` are claimed until a signal ends a wait on
the file, because after that the code has no mutual exclusion: the finding of
`lunix_signal_breaks_lock`. `CacheOfOneMeasurement` is claimed after it too when the file has one
user. `ReadsInOrder` and `WaitingEnds` are claimed for files with one user: who shares a file shares
its position, and waits for ever for a semaphore that the other's failed copy has kept.

The two violations: a process waits in the sensor's queue, another opens the device, the queue is
initialised and the next measurement wakes nobody; and a process whose wait a signal ends goes on
without the semaphore and raises it all the same, so that two can have it from then on.

### Fairness

`DeviceFairness`. The serial side finishes what it has begun (weak). A process goes on (weak), a copy ends in success
or failure (`Goes \/ Fault`). A semaphore and a spinlock are given to everyone who waits (strong):
semaphores of Linux are first come, first served, and the spinlock's sections are short. No
fairness for `StoreValue`, `Read`, `Open`, `Release` or signals.

### Proofs

`LunixChrdevProofs` proves, for any number of processes and files, however shared, any lengths,
counts and signals: `SensorTypes` (`DeviceTypeOK`); `SemaphoreExcludes` (`LockExcludes`); and, under
`QuietOpens`, `NoLostWakeUp` (`SleepersWoken`) and `BufferOfOneMeasurement`
(`CacheOfOneMeasurement`). `LockExcludes` is not inductive because an `open`
sets the semaphore to 1: `LockInv` adds that nobody is in a closed file. `SleepersWoken` is not
because a process has looked before it sleeps: `SleepInv` adds that who has looked or sleeps is in
the queue or has been woken. `CacheOfOneMeasurement` speaks of a buffer that nobody is filling;
`CacheInv` says what the reader that fills it has in hand: under the spinlock the page holds one
measurement (`PageInv`, `SpinInv`), a reader between its two looks at the page keeps the update out,
and a reader that formats has the value of the time it has noted, unless a signal has let another
into the file (`Private`).

`TextsInOrder` is `ReadsInOrder`, under `QuietOpens`. `OrderInv` says, of a process alone with its
file, that its place is the end of what it has read or the start of the next text (`AtPlace`), and
that a text in the buffer of which it has read nothing is of a later time, as the page in the sensor
is when it goes to copy it (`Advances`): the comparison of timestamps in
`lunix_chrdev_state_needs_refresh` is what keeps it from reading a measurement twice.

Model-checked only: `WaitingEnds` (liveness).

## 6. The chat

`ChatSession` is the module, `ChatProofs` has the proofs. Its run is `other_programs` (section 10).

### State

A connection is named by its client and has two sides; the loops of `socket-server.c` and
`socket-client.c` are the same, so an action is one of a side, and differs where the two programs
do. `at` is where a side's program is: not connected (`none`), in `select`, in `insist_write`
(`write`), or `gone`. `said` counts the lines it has read from the keyboard, `todo` what is left to
write of the last, `shown` is what it has printed: line numbers, and 0 for what is no line of the
other side. `snd` and `rcv` are what TCP holds: the halves of blocks that have been written and not
delivered, and delivered and not read. `closed`, `reset` and `backlog` are the state of the
sockets, `session` whether the server's crypto session is open, `crypt` whether the line being
written has been encrypted, `short` whether a side has read less than a block.

A block of 256 bytes is two halves, the least for which a block can be written, delivered and read
in parts. A block decrypts to a line if it is both halves of the same line, encrypted, read by one
`read` under a session; everything else is 0, whatever AES makes of it.

### Actions

`Connect`, `Accept`, `Talk` (a line from the keyboard, encrypted), `Write` (one `write` of
`insist_write`), `ReadBlock`, `ReadEof`, `ReadError`, `SocketWriteFails`, `ClientEnds` and
`ServerEnds` (SIGINT); and `Deliver`, which is TCP. `Talk` waits until there is nothing to read,
since the loops look at the socket before the keyboard.

Taken from TCP, as the programs use it: bytes arrive in order and any number of them may be there
at a `read`; closing a socket that has unread data, or that was never accepted, resets the
connection, as does data that arrives at a closed socket; who closes reads and writes no more, and
what had been sent before arrives.

Where the programs differ: after a read that fails the server goes on with what its buffer holds,
the client ends; after a write that fails the server leaves the loop and its socket open, the
client is ended by SIGPIPE (the server ignores it). When the server leaves a connection it calls
`finishcrypto` and never opens a session again, so from the second client on it neither encrypts
nor decrypts: that is what the model does, and why the properties about lines are claimed while
`session` holds.

Choices: the listening queue holds all clients; opening the crypto device succeeds (else the
program ends there); the end of the keyboard's input is a line like any other, as it is for the
code. What a side has said and shown is forgotten when its program has left.

### Properties and proofs

`ShownAsSaid`: while two sides talk and have lost nothing, each has shown lines 1, 2, 3 ... of the
other, and the difference to what was said is exactly what is under way. `SomeoneCanWrite`: two
sides that are both in `write` are not both stuck in full buffers, where neither reads.
`SaidIsShown`, `LeaverIsNoticed`: liveness.

`ChatProofs` proves the first two and the types for any clients, any number of lines, and any sizes
of buffers that hold a block (`ChatAssumption`).

* `NeverBothStuck`: whoever starts to write has read all that had arrived at it, so the other's
  buffers have room for its block; and whoever has begun earlier has that room still. `RoomInv`
  says that of two who write, at least one has room for all that is under way from it. If that
  one's send buffer were full, its peer's receive buffer would have room. The check `MayTalk` is
  what the argument rests on, and its mutant (keyboard first) breaks both this property and
  `SaidIsShown`.
* `LinesAreShownInOrder`: `StreamInv` says that, as long as session and connection are whole, the
  halves under way from a side are numbered one after the other and go on where what was shown
  ends. It holds of a side before its connection is accepted, since clients talk into the backlog;
  for this, `StreamInv` also says that a side whose peer is not closed has not been reset and that
  a server that has left has no session.

Fairness (`ChatFairness`): `Accept`, TCP and every side's loop go on (weak). None for `Talk`,
`Connect` and the ends: nobody has to talk or to leave.

## 7. Merging files

`FileMerge` models `fconc.c`, `write_file.c` and `dowrite.c`. Three names of files; the output and
the second input may be any of them. `file` is what they hold and `before` what they held when the
program was started. A read gets at most `ReadMax` bytes of what is there (`ReadPiece`), of which
the program keeps what is before the first NUL (`String`, for `strlen`). `WriteSome` is one `write`
of `doWrite`: of what is left, any part; an empty piece is written once, with length zero. Every
call may fail (`OpenOutput`, `OpenInput`, `ReadFails`, `WriteError`); the program then prints a
message and goes on as written. `DiskRoom` bounds the output: a disk is full at some time.

### Properties and runs

`Given` is what an input held when the program was started (nothing, if it is the output, which is
emptied first), and `BothInputs` is one after the other.

* `OutputAsRead`: when no call has failed and the inputs have no NUL (`NulFree`), the output is always a
  beginning of `BothInputs` and at the end all of it, whatever the reads and writes are cut into. It is
  also about an output that is an input: as the first it is empty when it is read; as the second it is
  read while it grows, which only an error ends. Its mutant takes a short write for the whole.
* `GapsOnly`: whatever fails and whatever the files hold, the output is `Picked` from `BothInputs`, that
  is some of its bytes in their order; `Picked(s, S)` are the bytes of `s` at the places `S`.
* `MergeEnds`: the program ends. Fairness: the one process goes on (`MergeFairness`).

These are checked in `other_programs` (section 10). One more run takes the program at its word:

| Run | Instance | Shows |
|---|---|---|
| `merge_cuts_files` | the same contents, in `FileMergeMC` | **violated**: `InputsInOutput` |

`README.md:1` of the program says that the third file "contains the two input files". `InputsInOutput`
is that sentence, for an output that is no input and calls that do not fail. It is false of a file with
a NUL: `strlen` (`write_file.c:22`) ends each piece at its first NUL, and of `d NUL e` the output has
`d e`.

### Proofs

`FileMergeProofs` proves, for any set of bytes, any files and names for them, and any size of the buffer,
`OutputIsWhatWasRead` (`OutputAsRead`), `ErrorsOnlyLeaveGaps` (`GapsOnly`) and `MergeTypes`. Neither of
the first two is inductive: both speak of whole inputs, while a step moves a part of a piece. The
invariant compares the output with what the *code* keeps of the inputs, `Merged`. What a file keeps
(`Kept`) is defined by places: those of its bytes before which, in their own piece of `ReadMax` bytes,
there is no NUL (`KeptPlaces`). `MergeInv` (`MergeInvariance`) has, for an output that is no input or the
first, which is empty when it is read (`Steady`):

* `PieceInv`: a read begins where a piece begins, or at the end;
* `OutputInv`: what is still to be written is what comes next in `Merged`, and the output is
  picked from what comes before that, or is all of it while nothing has failed. A written part goes
  from the one side to the other; an error drops what was to be written, which is a gap;
* `ChaseInv`: an output that is the second input, with something in it, has no NUL and stays longer
  than what has been read of it, so that without an error the program does not come to its end.

From `Merged` to the inputs: without a NUL a file keeps all its bytes (`NulFreeMerged`), which gives
`OutputAsRead`; and with any bytes `Merged` is picked from `BothInputs` (`MergedEmbeds`). That picking
from what was picked is picking is proved with strictly increasing maps between places (`Embeds`,
`EmbedsTransitive`), into which `PickedEmbeds` and `EmbedsPicked` translate the sets of places.

`MergeEnds` is liveness and stays with TLC.

## 8. The life of the module

`LunixModule` is the module, `LunixModuleProofs` has the proofs.

### State and actions

`mod` is where `lunix_module_init` is: allocating (`out`), initialising sensors, the discipline, the
devices, then `in`, or on its way back (`undoLdisc`, `undo`). `up` is `si_done + 1`. `msr_data` has
the pages each sensor points to, `pages` counts all that were got and not given back. `registered`
is the line discipline's entry in the kernel's table, which may be that of a module that is gone
(`stale`); `taken` and `left` say whether a terminal has it, and whether one has that of a module
that is gone; `mapped` and `majors` are the kernel's character devices. Of each process, `call`,
`dev` and `next` say where it is in `lunix_chrdev_open`.

* loading and unloading: `Insmod`, `SensorInit`, `LdiscInit`, `ChrdevInit`, `ChrdevFails`,
  `LdiscDestroy`, `UndoSensors`, `Cleanup`;
* users: `Attach`, `Detach`, `OpenDevice`, `GetPage`, `NoPage`, `Touch`, `Close`; and what they do to a
  module that is not whole: `UpdateFaults`, `ReadFaults`, `LeftFaults`, which set `oops`.

`LunixChrdev` is about the data of one sensor whose pages are there; this module is about whether
they are. `open` is one step there and as many as it has allocations here. Each page may be
missing; the code ignores that (line 166) and follows the pointer three lines later.

What is as the code has it: the device numbers are registered under `MKDEV(0, 0)`, which lets the
kernel choose a major number that is never returned, while the devices are added under 60 and only
the last one is deleted, so that after an unload the others lead into freed memory; the discipline
is registered before the devices, and cannot be unregistered while a terminal has it, so a load
that fails at its last step may leave it behind.

Choices: `lunix_sensor_init` also follows the page that it has just got (`lunix-sensors.c:56`), and an
overlapping open may have taken its pointer away in between; the fault that this may be is not
modelled, as it is during an open, which is a cause that `OopsHasCause` allows anyway. When the array
of sensors cannot be allocated nothing has happened. `Cleanup` is one step,
because a module with users is not unloaded. Registering the discipline and `cdev_add` succeed.
After an `oops` the model stops: nothing is said of a kernel that has gone wrong.

### Properties and proofs

`PagesThere`: as long as the discipline is registered by a module that is there, a page is missing
only while somebody is in the middle of opening a device of that sensor. `OopsHasCause`: the kernel
goes wrong only during an open, or by something that an earlier load has left behind.
`UndoneGivesBack`: no page is given back twice, and every page comes back when no device was ever
opened and no sensor initialised halfway.

`LunixModuleProofs` proves all three and the types, for any number of sensors, processes, pages
and major numbers. `PagesThere` is not inductive: two opens of one sensor may overlap, and each
takes away what the other has got. `PagesInv` says who puts it right (`Fills`): for every page that
is missing there is a process that has not yet come to it, or that will find it missing before its
open returns. For `UndoneGivesBack`, `GiveInv` compares `pages` with the set of pages that sensors point
to (`PagesOf`): never fewer are counted than there are, exactly as many until something is lost
(`leaky`), and a module that is out has none.

## 9. The virtio cryptodev and its queue

`VirtioCrypto` is the driver and the device, `VirtQueue` the queue between them, and `RequestQueue` what
it promises; `VirtioProofs` has the proofs.

### What is not there to model

`crypto-chrdev.c` sends `&syscall_type` with `sizeof(syscall_type)` (lines 108 and 160), where
`syscall_type` is a pointer: the device gets the bytes of an address, compares them with three small
numbers (`virtio-cryptodev.c:64`), matches none and pushes the element back as it was. `host_fd` stays
-1, and every `open` returns `-ENODEV` (lines 122 to 124), though `README.md:15` presents the
device as working. So `release`, `ioctl` and the device's three calls are never reached. What is
left, and modelled, is the life of the driver and its devices and every `open` that fails, but for the
allocations of `syscall_type` and `host_fd` (lines 76 to 79), which are taken as successful: the code
follows what they return without a look.

### State and actions

`driver` is how far the module is loaded, `devs` the list of devices by their minors, `nextMinor`
the next. Of each device, `sema` and `sleepers` are the semaphore and who waits for it (`Unready` is
that of a device that nobody has opened, whose memory is zero), and `ring` is its queue: how many
requests the device has not popped, how many were added since the last kick, how many were pushed
back and not taken, whether the notifier is set, and whether the device has cleared it and not yet
looked. Of each process `opc` and `node` say where it is in `open`.

* driver: `RegisterRegion` (the nodes can be opened from here on), `RegisterDriver`, `Probe`,
  `RemoveDevice`, `Unload`;
* `open`: `Open` or `NoMemory`, then `SemaInit`, `Down` or `Interrupted`, `Add`, `Kick`, `Got`,
  `Fail`; `Dies` where the code uses memory that is gone;
* the device in QEMU: `Notice` clears the notifier, `Handle` is the call of `vq_handle_output` that
  follows.

As the code has it: each `open` sets the semaphore to 1 and empties its list before it takes it; the
path for `ENOMEM` raises it without having taken it; the result of `down_interruptible` is not looked
at; an `open` of a node without a device raises the semaphore of `NULL`; any answer in the queue ends
the loop of whoever looks. Taken from Linux and QEMU: a semaphore is given to who has waited longest;
a kick tells the device only if the request that it asked to be told of, the first that it has not
popped, is among those added since the last kick (`VIRTIO_RING_F_EVENT_IDX`, on by default); what it
is told is a flag, cleared before the handler runs, so two kicks may become one and one that comes
between makes the device look in vain; a queue is told once when it starts (`StartedRing`), with
nothing in it; the module is not unloaded while a process is in it.

### Properties and proofs

The handler pops one element for each notification, so two requests at once in a queue may leave one
there for ever: what saves `open` is its semaphore, and only while that is used as one. `misused`
records that it was not: initialised while somebody held it or waited for it, raised on the path for
`ENOMEM`, or passed by a signal. Until then `KickComing`: of every request that waits, the device has
been told or is about to be; and `OpenReturns`: an `open` returns, unless its device is removed.

`VirtioProofs` proves `RequestsAreTold` (`KickComing`) for any number of processes and devices.
`LockedInv` says that who is between `down` and `up` is alone and the semaphore is then 0
(`HolderInv`), that who is in its list is there once and asleep (`QueueInv`), and that the queue
holds exactly the one request of the holder, at the stage the holder has come to, whatever the
device is told late or in vain (`RequestInv`); `GoneInv` adds that nothing is left of a device that
is removed. `DriverTypes` is `CryptoTypeOK`, which holds also after a semaphore was misused: of a
driver that is not ready there are no devices. `OpenReturns` is liveness and stays with TLC.
Fairness (`CryptoFairness`): processes in `open` go on and QEMU's thread handles notifications
(weak); none for signals, devices and modules.

### The queue

`VirtioCrypto` counts requests. That a virtqueue may be counted like this is what `VirtQueue` shows:
it has the two rings in shared memory with their indices (`availIdx`, `usedIdx`), the event index,
QEMU's own copies (`lastAvail`, `shadowAvail`, `inuse`) and the guest's end, which runs between any two
steps of the handler: `NotifierRead` clears the notifier, `Look` is `virtio_queue_empty_rcu` and the
check of `inuse`, `Pop` the rest of `virtqueue_pop`, `Push` is `virtqueue_push`. The guest's `GuestAdd`,
`GuestKick` and `GuestTake` are Linux's split ring and external. `Reset` is `virtio_reset` and a new
queue of the guest. Indices are taken modulo `Span`, which stands for 2^16.

`ImplementsQueue` says that this is a `RequestQueue`: a queue of requests, told of the first that
waits, which are popped one for each call and taken back in order. The mapping reads the queues off
the rings, from QEMU's index to the guest's and from the guest's to QEMU's, and counts an element as
answered from when it is popped. So no head is lost, answered twice or overwritten in a ring, the
broken state is not reached, and `NeedEvent`, over indices that wrap, tells the device exactly when
the first request that waits was added since the last kick, which is the `Kick` of `VirtioCrypto`.
Left out: interrupts to the guest (`signalled_used`), as the driver's callback does nothing and
`open` spins; the content of descriptors.

`RingsAreAQueue` proves the refinement for rings of any size and any `Span` that is a greater
multiple of it (`QueueAssumption`; with 2^16 that is every power of two up to 2^15, and the device's
queue has 128). `VQInv` (`QueueInvariance`) says that every head is free, offered or answered, in
one place (`Apart`, `Counted`), that QEMU's copy of the guest's index lies between what it has
popped and that index, and that the event index is its own (`DeviceOK`). Two lemmas turn indices
into sequences: what a ring holds between two indices gains an entry at the end when the one goes
on, as long as it is not full, and loses its head when the other does, also where they wrap; the
rest is about sequences.

## 10. The run of the five parts

| Run | Instance | Shows | Distinct states |
|---|---|---|---|
| `other_programs` | chat: two clients, the first and the server say two lines to each other, the second one; room for one half on the way and two at the reader. Merge: contents `<< >>`, `abc`, `de` and `d NUL e`; reads of 2 bytes; room for 5. Module: two sensors, two processes, one major number, opens while at most 7 pages are in use. Cryptodev: two processes, one device that is attached, a node without one, a semaphore raised to 2 at most. Virtqueue: two elements, indices modulo 8 | all properties of sections 6 to 9 | 199 542 |

The five have no state in common. `PartsMC` is their sum: a behaviour is of the part it starts with,
and the other parts stay as they are; `PartsTypeOK` is the conjunction of their type invariants, and
`PartsProofs` proves it of the sum (`PartsTypes`) from the inductive invariants of the parts; the
other properties are proved of each part's own specification. Why these sizes are enough:

* chat: two lines per side are the least with which both write, read, and write again; a second
  client waits in line, is reset, or is served without a session. Buffers that do not hold what is
  said are what makes writers wait.
* merge: contents of up to three bytes, read two at a time, end in the middle and at the end of a
  piece; the NUL is the second byte of its piece, so a part of the piece is kept; a room of five
  bytes holds the output of two different inputs, and not of the longest one twice or of a file
  that copies itself.
* module: with two sensors one is up when the other fails; two processes overlap in one open or
  open different sensors; one major number lets the second load fail at its last step.
* cryptodev: two processes are one that holds the semaphore and one that waits or initialises it
  anew; one device that comes and goes is enough, as devices share nothing; two is the least that a
  semaphore has when it was raised without need.
* virtqueue: with two elements both rings are full, empty and half used at every index; modulo eight
  the indices wrap in every one of these. With two heads the guest adds at most three
  requests between two kicks, when it gets one back in between: far from the bound of `numAdded`,
  `Span - 1`.

Deadlock is not checked: programs end, people need not talk, the module stops at an oops, and an
`open` may wait for ever once its semaphore was misused.

## 11. Not modelled

* **Sessions of the virtio cryptodev**: `release`, `ioctl` and the calls of the device behind them,
  which no request of the guest driver reaches (section 9).
* **Signal safety.** Both handlers of the scheduler call `printf` and `free`, and may interrupt
  `main` in one of them. In the model a call of the C library is atomic.
* **A short packet.** A measurement packet with a payload under 17 bytes is read beyond its end
  (`lunix-protocol.c:68`). `LunixProtocol` models it as it is, the values are then those of the CRC
  or of an earlier packet, but no property is claimed for it.
* **Process helpers** other than `wait_for_ready_children`: they print, or are not called by the
  scheduler. **`lunix-attach.c`** only issues ioctls.
* **Vendored code**: `cryptodev-linux-1.9`, QEMU's virtio and character devices, but for the queue
  of section 9. Together with
  the generated table `lunix-lookup.h` (49 172 lines) they are more than nine tenths of the lines
  of the repository, so that the part of the lines that is modelled is small however much of
  the exercises is.
* **Skeletons and examples**: the course's driver before it was written (`original/`), the earlier
  guest driver under `Chat/virtio-cryptodev`, whose handlers are the unfinished skeleton, and the
  test programs.

`PROJECT.json` gives the reason for each component.
