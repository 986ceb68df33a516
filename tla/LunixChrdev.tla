---------------------------- MODULE LunixChrdev ----------------------------
(***************************************************************************)
(* A sensor of Lunix:TNG (lunix-sensors.c) and the open files of one of    *)
(* its measurements (lunix-chrdev.c): the serial side stores measurements  *)
(* and wakes up who waits for them; processes open the device, read it in  *)
(* pieces and close it.  Two processes with one file have inherited it.    *)
(***************************************************************************)
EXTENDS Integers, SequencesExt

CONSTANTS
  Procs, Files,
  Sharings,    \* the ways the processes may have the files: who reads which
  Counts,      \* the numbers of bytes it asks for
  TextLen,     \* the length of the text of each measurement
  MaxUpdates,  \* bound: the number of measurements
  Signalled,   \* the processes that get signals
  QuietOpens   \* TRUE: a file is opened only while no other file of the
               \* sensor is open, or before its first measurement

(* The k-th measurement is the number k; 0 is what a zeroed page holds.    *)
Measurements == 0 .. MaxUpdates
NoText == -1   \* the empty buffer of lunix_chrdev_open

ASSUME FileAssumption == Sharings \subseteq [Procs -> Files]
ASSUME CountAssumption == Counts \subseteq Nat /\ MaxUpdates \in Nat
ASSUME TextAssumption == TextLen \in [Measurements -> Nat \ {0}]
ASSUME SwitchAssumption == Signalled \subseteq Procs /\ QuietOpens \in BOOLEAN

VARIABLES
  sensor,    \* msr_data: value, time (last_update)
  spin,      \* the sensor's lock is taken
  wq, woken, \* who is in the sensor's wait queue, who has been woken
  writer,    \* where lunix_sensor_update is
  times,     \* when the measurements came, in seconds
  opened,    \* the open files; of each, the file position and the fields of
  filp_pos, sem, ts, buf_data, lim,  \* its state (lock, buf_timestamp, buf_data, buf_lim)
  pc, f_pos, cnt, data,     \* of each process: where it is in read, *f_pos, cnt, data
  fileOf,    \* one of Sharings
  last,      \* what a file has given last: of which measurement, from, to
  hit        \* the files on which a signal has ended a wait; bound: once each

sensorVars == <<sensor, spin, wq, woken, writer, times>>
fileVars   == <<opened, filp_pos, sem, ts, buf_data, lim>>
procVars   == <<pc, f_pos, cnt, data>>
notes      == <<fileOf, last, hit>>
deviceVars == <<sensor, spin, wq, woken, writer, times, opened, filp_pos, sem, ts,
                buf_data, lim, pc, f_pos, cnt, data, fileOf, last, hit>>

Zeroed == [value |-> 0, time |-> 0]
Nothing == [msr |-> NoText, from |-> 0, to |-> 0]

DeviceInit ==
  /\ sensor = Zeroed /\ spin = FALSE /\ wq = {} /\ woken = {}
  /\ writer = "idle" /\ times = << >>
  /\ opened = {} /\ filp_pos = [f \in Files |-> 1] /\ sem = [f \in Files |-> 1]
  /\ ts = [f \in Files |-> 0] /\ buf_data = [f \in Files |-> NoText] /\ lim = [f \in Files |-> 1]
  /\ pc = [p \in Procs |-> "idle"] /\ f_pos = [p \in Procs |-> 1]
  /\ cnt = [p \in Procs |-> 0] /\ data = [p \in Procs |-> 0]
  /\ fileOf \in Sharings /\ last = [f \in Files |-> Nothing] /\ hit = {}

Users(f) == {p \in Procs : fileOf[p] = f}
Idle(f) == \A p \in Users(f) : pc[p] = "idle"

-----------------------------------------------------------------------------
(***************************************************************************)
(* The sensor: lunix_sensor_update.                                        *)
(***************************************************************************)
StoreValue ==
  /\ writer = "idle" /\ Len(times) < MaxUpdates /\ ~spin
  /\ spin' = TRUE /\ writer' = "time"
  /\ sensor' = [sensor EXCEPT !.value = Len(times) + 1]
  /\ UNCHANGED <<wq, woken, times, fileVars, procVars, notes>>

(* get_seconds: the second of the last measurement or a later one.         *)
StoreTime ==
  /\ writer = "time"
  /\ \E now \in IF times = << >> THEN {1} ELSE {Last(times), Last(times) + 1} :
        times' = Append(times, now) /\ sensor' = [sensor EXCEPT !.time = now]
  /\ spin' = FALSE /\ writer' = "wake"
  /\ UNCHANGED <<wq, woken, fileVars, procVars, notes>>

(* Variant, for mutation: nobody is woken. *)
WakeUpSkipped == UNCHANGED <<wq, woken>>

WakeUp == wq' = {} /\ woken' = woken \cup wq

WakeSleepers ==
  /\ writer = "wake" /\ writer' = "idle"
  /\ WakeUp
  /\ UNCHANGED <<sensor, spin, times, fileVars, procVars, notes>>

-----------------------------------------------------------------------------
(***************************************************************************)
(* Opening and closing.  The sensor is initialised by every open: its lock,*)
(* its wait queue and its pages.                                           *)
(***************************************************************************)
Undisturbed ==
  /\ writer = "idle" /\ \A f \in Files : Idle(f)
  /\ opened = {} \/ times = << >>

SensorInit == sensor' = Zeroed /\ spin' = FALSE /\ wq' = {}

Open(f) ==
  /\ f \notin opened
  /\ QuietOpens => Undisturbed
  /\ SensorInit
  /\ opened' = opened \cup {f}
  /\ filp_pos' = [filp_pos EXCEPT ![f] = 1] /\ sem' = [sem EXCEPT ![f] = 1]
  /\ ts' = [ts EXCEPT ![f] = 0] /\ buf_data' = [buf_data EXCEPT ![f] = NoText]
  /\ lim' = [lim EXCEPT ![f] = 1] /\ last' = [last EXCEPT ![f] = Nothing]
  /\ hit' = hit \ {f}
  /\ UNCHANGED <<woken, writer, times, procVars, fileOf>>

Release(f) ==
  /\ f \in opened /\ Idle(f)
  /\ opened' = opened \ {f}
  /\ UNCHANGED <<sensorVars, filp_pos, sem, ts, buf_data, lim, procVars, notes>>

-----------------------------------------------------------------------------
(***************************************************************************)
(* lunix_chrdev_read, and lunix_chrdev_state_update in it.  A local        *)
(* variable is reset where it is not used any more.                        *)
(***************************************************************************)
Goto(p, label) == pc' = [pc EXCEPT ![p] = label]
At(p, label) == pc[p] = label
Up(f) == sem' = [sem EXCEPT ![f] = @ + 1]
Down(f) == sem[f] > 0 /\ sem' = [sem EXCEPT ![f] = @ - 1]

(* The kernel gives read a copy of the file position. *)
Read(p, n) ==
  /\ At(p, "idle") /\ fileOf[p] \in opened
  /\ Goto(p, "down") /\ cnt' = [cnt EXCEPT ![p] = n]
  /\ f_pos' = [f_pos EXCEPT ![p] = filp_pos[fileOf[p]]]
  /\ UNCHANGED <<sensorVars, fileVars, data, notes>>

Lock(p) ==
  /\ At(p, "down") /\ Down(fileOf[p])
  /\ Goto(p, IF f_pos[p] = 1 THEN "update" ELSE "copy")
  /\ UNCHANGED <<sensorVars, opened, filp_pos, ts, buf_data, lim, f_pos, cnt, data, notes>>

(* -ERESTARTSYS *)
LockInterrupted(p) ==
  /\ At(p, "down") /\ p \in Signalled /\ Goto(p, "idle")
  /\ f_pos' = [f_pos EXCEPT ![p] = 1] /\ cnt' = [cnt EXCEPT ![p] = 0]
  /\ UNCHANGED <<sensorVars, fileVars, data, notes>>

(* Variant: the lock is kept while waiting. *)
LetGoKept(f) == UNCHANGED sem

LetGo(f) == Up(f)

Unlock(p) ==
  /\ At(p, "update") /\ LetGo(fileOf[p]) /\ Goto(p, "wait")
  /\ UNCHANGED <<sensorVars, opened, filp_pos, ts, buf_data, lim, f_pos, cnt, data, notes>>

(* Variant: any time but the initial one is fresh. *)
NeedsRefreshAlways(f) == sensor.time # 0

NeedsRefresh(f) == sensor.time # ts[f]

(* wait_event_interruptible: the process queues itself before it looks     *)
(* again, and then sleeps.                                                 *)
Queue(p) ==
  /\ At(p, "wait")
  /\ IF NeedsRefresh(fileOf[p])
     THEN Goto(p, "relock") /\ wq' = wq \ {p}
     ELSE Goto(p, "check") /\ wq' = wq \cup {p}
  /\ UNCHANGED <<sensor, spin, woken, writer, times, fileVars, f_pos, cnt, data, notes>>

Fresh(p) ==
  /\ At(p, "check") /\ NeedsRefresh(fileOf[p])
  /\ Goto(p, "relock") /\ wq' = wq \ {p} /\ woken' = woken \ {p}
  /\ UNCHANGED <<sensor, spin, writer, times, fileVars, f_pos, cnt, data, notes>>

Sleep(p) ==
  /\ At(p, "check") /\ ~NeedsRefresh(fileOf[p])
  /\ Goto(p, "asleep")
  /\ UNCHANGED <<sensorVars, fileVars, f_pos, cnt, data, notes>>

Awake(p) ==
  /\ At(p, "asleep") /\ p \in woken \cup Signalled
  /\ Goto(p, "wait") /\ woken' = woken \ {p}
  /\ UNCHANGED <<sensor, spin, wq, writer, times, fileVars, f_pos, cnt, data, notes>>

Interrupted(p) == p \in Signalled /\ fileOf[p] \notin hit /\ hit' = hit \cup {fileOf[p]}

(* lunix_chrdev_state_update fails, and lunix_chrdev_read goes on.         *)
WaitInterrupted(p) ==
  /\ At(p, "check") /\ ~NeedsRefresh(fileOf[p]) /\ Interrupted(p)
  /\ Goto(p, "copy") /\ wq' = wq \ {p} /\ woken' = woken \ {p}
  /\ UNCHANGED <<sensor, spin, writer, times, fileVars, f_pos, cnt, data, fileOf, last>>

(* Variant: the lock is not taken again. *)
RelockForgotten(p) ==
  /\ At(p, "relock") /\ Goto(p, "spin")
  /\ UNCHANGED <<sensorVars, fileVars, f_pos, cnt, data, notes>>

Relock(p) ==
  /\ At(p, "relock") /\ Down(fileOf[p]) /\ Goto(p, "spin")
  /\ UNCHANGED <<sensorVars, opened, filp_pos, ts, buf_data, lim, f_pos, cnt, data, notes>>

RelockInterrupted(p) ==
  /\ At(p, "relock") /\ Interrupted(p) /\ Goto(p, "copy")
  /\ UNCHANGED <<sensorVars, fileVars, f_pos, cnt, data, fileOf, last>>

(* Variant: the sensor's lock is not waited for. *)
SpinFreeIgnored == TRUE

SpinFree == ~spin

GrabTime(p) ==
  /\ At(p, "spin") /\ SpinFree /\ spin' = TRUE
  /\ ts' = [ts EXCEPT ![fileOf[p]] = sensor.time]
  /\ Goto(p, "grab")
  /\ UNCHANGED <<sensor, wq, woken, writer, times, opened, filp_pos, sem, buf_data, lim,
                 f_pos, cnt, data, notes>>

GrabValue(p) ==
  /\ At(p, "grab") /\ spin' = FALSE
  /\ data' = [data EXCEPT ![p] = sensor.value]
  /\ Goto(p, "format")
  /\ UNCHANGED <<sensor, wq, woken, writer, times, fileVars, f_pos, cnt, notes>>

Format(p) ==
  /\ At(p, "format") /\ Goto(p, "copy")
  /\ buf_data' = [buf_data EXCEPT ![fileOf[p]] = data[p]]
  /\ lim' = [lim EXCEPT ![fileOf[p]] = TextLen[data[p]]]
  /\ data' = [data EXCEPT ![p] = 0]
  /\ UNCHANGED <<sensorVars, opened, filp_pos, sem, ts, f_pos, cnt, notes>>

(* Variant: the position the kernel starts with, where the code has 1. *)
RewoundToZero == 0

Rewound == 1

Exceeds(p) == f_pos[p] - 1 + cnt[p] >= lim[fileOf[p]]

(* The bytes that are copied end here. *)
To(p) == IF Exceeds(p) THEN lim[fileOf[p]] ELSE f_pos[p] - 1 + cnt[p]

CopyToUser(p) ==
  LET f == fileOf[p] IN
  /\ At(p, "copy") /\ f_pos[p] - 1 <= To(p)
  /\ last' = [last EXCEPT ![f] = IF To(p) = f_pos[p] - 1 THEN @
                                 ELSE [msr |-> buf_data[f], from |-> f_pos[p] - 1, to |-> To(p)]]
  /\ f_pos' = [f_pos EXCEPT ![p] = IF Exceeds(p) THEN Rewound ELSE @ + cnt[p]]
  /\ Goto(p, "up") /\ cnt' = [cnt EXCEPT ![p] = 0]
  /\ UNCHANGED <<sensorVars, fileVars, data, fileOf, hit>>

(* -EFAULT: the memory is not the process's, or the length is negative.    *)
(* The lock is kept, and so is the file position.                          *)
Fault(p) ==
  /\ At(p, "copy") /\ Goto(p, "idle")
  /\ f_pos' = [f_pos EXCEPT ![p] = 1] /\ cnt' = [cnt EXCEPT ![p] = 0]
  /\ UNCHANGED <<sensorVars, fileVars, data, notes>>

LastUp(p) ==
  /\ At(p, "up") /\ Up(fileOf[p]) /\ Goto(p, "back")
  /\ UNCHANGED <<sensorVars, opened, filp_pos, ts, buf_data, lim, f_pos, cnt, data, notes>>

(* The kernel stores the file position that read leaves. *)
Return(p) ==
  /\ At(p, "back") /\ Goto(p, "idle")
  /\ filp_pos' = [filp_pos EXCEPT ![fileOf[p]] = f_pos[p]]
  /\ f_pos' = [f_pos EXCEPT ![p] = 1]
  /\ UNCHANGED <<sensorVars, opened, sem, ts, buf_data, lim, cnt, data, notes>>

Update == StoreValue \/ StoreTime \/ WakeSleepers

Takes(p) == Lock(p) \/ Relock(p) \/ GrabTime(p)

Goes(p) == \/ Unlock(p) \/ Queue(p) \/ Fresh(p) \/ Sleep(p) \/ Awake(p)
           \/ GrabValue(p) \/ Format(p) \/ CopyToUser(p) \/ LastUp(p) \/ Return(p)

Fails(p) == LockInterrupted(p) \/ WaitInterrupted(p) \/ RelockInterrupted(p) \/ Fault(p)

DeviceNext ==
  \/ Update
  \/ \E f \in Files : Open(f) \/ Release(f)
  \/ \E p \in Procs : Takes(p) \/ Goes(p) \/ Fails(p) \/ \E n \in Counts : Read(p, n)

DeviceSpec == DeviceInit /\ [][DeviceNext]_deviceVars

(* A semaphore and a spinlock are given to everyone who waits for them; the *)
(* serial side and the processes go on.                                     *)
DeviceFairness ==
  /\ WF_deviceVars(StoreTime) /\ WF_deviceVars(WakeSleepers)
  /\ \A p \in Procs : SF_deviceVars(Takes(p)) /\ WF_deviceVars(Goes(p) \/ Fault(p))

-----------------------------------------------------------------------------
Labels == {"idle", "down", "update", "wait", "check", "asleep", "relock", "spin", "grab",
           "format", "copy", "up", "back"}

(* Every variable has its type. *)
DeviceTypeOK ==
  /\ sensor \in [value : Measurements, time : Nat] /\ spin \in BOOLEAN
  /\ wq \in SUBSET Procs /\ woken \in SUBSET Procs
  /\ writer \in {"idle", "time", "wake"} /\ times \in Seq(Nat)
  /\ opened \in SUBSET Files /\ filp_pos \in [Files -> Nat \ {0}] /\ sem \in [Files -> Nat]
  /\ ts \in [Files -> Nat] /\ buf_data \in [Files -> Measurements \cup {NoText}]
  /\ lim \in [Files -> Nat \ {0}]
  /\ pc \in [Procs -> Labels] /\ f_pos \in [Procs -> Nat \ {0}]
  /\ cnt \in [Procs -> Nat] /\ data \in [Procs -> Measurements]
  /\ fileOf \in [Procs -> Files] /\ hit \in SUBSET Files

(* Who is where the code holds its file's semaphore. *)
Holds(p) == pc[p] \in {"update", "spin", "grab", "format", "copy", "up"}

(* One process with the file at a time is there, and nobody can come in.   *)
Excludes(f) ==
  /\ sem[f] \in {0, 1}
  /\ \A p \in Users(f) : Holds(p) => sem[f] = 0 /\ \A q \in Users(f) : Holds(q) => q = p

(* "Updates the cached state of a character device ... Must be called with *)
(* the character device state lock held", and formats and copies "holding  *)
(* only the private state semaphore" (lunix-chrdev.c).                     *)
LockAlwaysExcludes == \A f \in Files : Excludes(f)

(* That is so until a signal ends a wait, whatever errors there are and    *)
(* though the semaphore is raised for the wait.                            *)
LockExcludes == \A f \in Files \ hit : Excludes(f)

OwnFile(f) == \A p, q \in Users(f) : p = q

(* The text in the buffer and the time beside it are of one measurement    *)
(* that has come: read and update never overlap in the sensor's pages, nor  *)
(* two reads in the buffer, unless a signal has ended the wait of one.     *)
CacheOfOneMeasurement ==
  \A f \in opened : ((f \in hit => OwnFile(f)) /\ \A p \in Users(f) : pc[p] \notin {"grab", "format"}) =>
     IF ts[f] = 0 THEN buf_data[f] = NoText
     ELSE buf_data[f] \in DOMAIN times /\ times[buf_data[f]] = ts[f]

(* "And wake up any sleepers who may be waiting on fresh data from this    *)
(* sensor" (lunix-sensors.c): nobody sleeps on fresh data, unless to be    *)
(* woken yet.                                                              *)
SleepersWoken ==
  \A p \in Procs : (At(p, "asleep") /\ p \notin woken /\ NeedsRefresh(fileOf[p])) =>
     p \in wq /\ writer = "wake"

(* What one process reads from its file is the text of a measurement from  *)
(* its first byte to its last, then that of a later one, however it cuts   *)
(* its reads and whatever other files do, until a signal ends a wait.      *)
ReadsInOrder ==
  [][ \A f \in opened \cap opened' : (OwnFile(f) /\ f \notin hit' /\ last'[f] # last[f]) =>
        \/ last'[f].msr = last[f].msr /\ last'[f].from = last[f].to
        \/ /\ last'[f].from = 0
           /\ last[f].msr = NoText \/ /\ last[f].to = TextLen[last[f].msr]
                                      /\ times[last'[f].msr] > times[last[f].msr] ]_deviceVars

(* A process that waits for a measurement of its own file returns from     *)
(* read once there is one.                                                 *)
WaitingEnds ==
  \A p \in Procs : OwnFile(fileOf[p]) =>
     (At(p, "asleep") /\ NeedsRefresh(fileOf[p])) ~> At(p, "idle")
=============================================================================
