------------------------- MODULE LunixChrdevProofs -------------------------
(***************************************************************************)
(* For any number of processes, files and measurements, however the files  *)
(* are shared: the semaphore excludes until a signal ends a wait, and, if  *)
(* files are opened quietly, nobody sleeps on fresh data, a buffer is of   *)
(* one measurement, and who has a file for himself reads text after text.  *)
(***************************************************************************)
EXTENDS LunixChrdev, SequenceTheorems, TLAPS

(* Nobody is in a closed file, and the semaphore excludes. *)
LockInv == /\ \A f \in Files \ opened : Idle(f)
           /\ LockExcludes

(* Who has looked and is about to sleep, or sleeps, can be woken. *)
SleepInv == /\ \A p \in Procs : pc[p] \in {"check", "asleep"} => p \in wq \cup woken
            /\ SleepersWoken

-----------------------------------------------------------------------------
(* The label is one of read's. *)
LEMMA GotoType ==
  ASSUME DeviceTypeOK, NEW p \in Procs, NEW l \in Labels, Goto(p, l)
  PROVE  pc' \in [Procs -> Labels]
  BY DEF DeviceTypeOK, Goto

(* The serial side stores what it has received. *)
LEMMA UpdateType ==
  ASSUME DeviceTypeOK, Update
  PROVE  DeviceTypeOK'
<1> USE DEF sensorVars, fileVars, procVars, notes
<1>1. CASE StoreValue
  <2>1. sensor' \in [value : Measurements, time : Nat]
    <3>1. Len(times) + 1 \in Measurements
      BY <1>1, CountAssumption, LenProperties DEF StoreValue, DeviceTypeOK, Measurements
    <3> QED
      BY <1>1, <3>1 DEF StoreValue, DeviceTypeOK
  <2>2. spin' \in BOOLEAN /\ writer' \in {"idle", "time", "wake"}
    BY <1>1 DEF StoreValue
  <2> QED
    BY <1>1, <2>1, <2>2 DEF StoreValue, DeviceTypeOK
<1>2. CASE StoreTime
  <2>1. PICK now \in IF times = << >> THEN {1} ELSE {Last(times), Last(times) + 1} :
          times' = Append(times, now) /\ sensor' = [sensor EXCEPT !.time = now]
    BY <1>2 DEF StoreTime
  <2>2. times \in Seq(Nat) /\ Len(times) \in Nat
    BY LenProperties DEF DeviceTypeOK
  <2>3. times # << >> => Last(times) \in Nat
    <3>1. times # << >> => Len(times) \in 1 .. Len(times)
      BY <2>2, EmptySeq
    <3> QED
      BY <2>2, <3>1, ElementOfSeq DEF Last
  <2>4. now \in Nat
    BY <2>1, <2>3
  <2>5. sensor' \in [value : Measurements, time : Nat] /\ times' \in Seq(Nat)
    BY <2>1, <2>2, <2>4, AppendProperties DEF DeviceTypeOK
  <2> QED
    BY <1>2, <2>5 DEF StoreTime, DeviceTypeOK
<1>3. CASE WakeSleepers
  BY <1>3 DEF WakeSleepers, WakeUp, DeviceTypeOK
<1> QED
  BY <1>1, <1>2, <1>3 DEF Update

(* Opening and closing. *)
LEMMA OpenType ==
  ASSUME DeviceTypeOK, NEW f \in Files, Open(f) \/ Release(f)
  PROVE  DeviceTypeOK'
<1> USE DEF sensorVars, fileVars, procVars, notes
<1>1. CASE Open(f)
  <2>1. sensor' \in [value : Measurements, time : Nat]
    BY <1>1, CountAssumption DEF Open, SensorInit, Zeroed, Measurements
  <2>2. spin' \in BOOLEAN
    BY <1>1 DEF Open, SensorInit
  <2>3. wq' \in SUBSET Procs /\ opened' \in SUBSET Files /\ hit' \in SUBSET Files
    BY <1>1 DEF Open, SensorInit, DeviceTypeOK
  <2>4. /\ filp_pos' \in [Files -> Nat \ {0}] /\ sem' \in [Files -> Nat] /\ ts' \in [Files -> Nat]
        /\ buf_data' \in [Files -> Measurements \cup {NoText}] /\ lim' \in [Files -> Nat \ {0}]
    BY <1>1 DEF Open, DeviceTypeOK
  <2> QED
    BY <1>1, <2>1, <2>2, <2>3, <2>4 DEF Open, DeviceTypeOK
<1>2. CASE Release(f)
  BY <1>2 DEF Release, DeviceTypeOK
<1> QED
  BY <1>1, <1>2

(* A step of read or of its interruption. *)
LEMMA ReadType ==
  ASSUME DeviceTypeOK, NEW p \in Procs,
         Takes(p) \/ Goes(p) \/ Fails(p) \/ \E n \in Counts : Read(p, n)
  PROVE  DeviceTypeOK'
<1> USE DEF sensorVars, fileVars, procVars, notes
<1>1. fileOf[p] \in Files
  BY DEF DeviceTypeOK
<1>2. CASE \E n \in Counts : Read(p, n)
  <2>1. PICK n \in Counts : Read(p, n)
    BY <1>2
  <2>2. pc' \in [Procs -> Labels]
    BY <2>1, GotoType DEF Read, Labels
  <2>3. cnt' \in [Procs -> Nat] /\ f_pos' \in [Procs -> Nat \ {0}]
    BY <1>1, <2>1, CountAssumption DEF Read, DeviceTypeOK
  <2> QED
    BY <2>1, <2>2, <2>3 DEF Read, DeviceTypeOK
<1>3. CASE Lock(p) \/ Relock(p)
  <2>1. pc' \in [Procs -> Labels]
    BY <1>3, GotoType DEF Lock, Relock, Labels
  <2>2. sem' \in [Files -> Nat]
    <3>1. sem \in [Files -> Nat] /\ sem[fileOf[p]] \in Nat /\ sem[fileOf[p]] > 0
      BY <1>1, <1>3 DEF Lock, Relock, Down, DeviceTypeOK
    <3>2. sem[fileOf[p]] - 1 \in Nat
      BY <3>1
    <3>3. sem' = [sem EXCEPT ![fileOf[p]] = sem[fileOf[p]] - 1]
      BY <1>3 DEF Lock, Relock, Down
    <3> QED
      BY <1>1, <3>1, <3>2, <3>3
  <2> QED
    BY <1>3, <2>1, <2>2 DEF Lock, Relock, DeviceTypeOK
<1>4. CASE Unlock(p) \/ LastUp(p)
  <2>1. pc' \in [Procs -> Labels]
    BY <1>4, GotoType DEF Unlock, LastUp, Labels
  <2>2. sem' \in [Files -> Nat]
    <3>1. sem \in [Files -> Nat] /\ sem[fileOf[p]] + 1 \in Nat
      BY <1>1 DEF DeviceTypeOK
    <3>2. sem' = [sem EXCEPT ![fileOf[p]] = sem[fileOf[p]] + 1]
      BY <1>4 DEF Unlock, LetGo, LastUp, Up
    <3> QED
      BY <1>1, <3>1, <3>2
  <2> QED
    BY <1>4, <2>1, <2>2 DEF Unlock, LastUp, DeviceTypeOK
<1>5. CASE Queue(p) \/ Fresh(p) \/ Sleep(p) \/ Awake(p)
  <2>1. pc' \in [Procs -> Labels]
    BY <1>5, GotoType DEF Queue, Fresh, Sleep, Awake, Labels
  <2>2. wq' \in SUBSET Procs /\ woken' \in SUBSET Procs
    BY <1>5 DEF Queue, Fresh, Sleep, Awake, DeviceTypeOK
  <2> QED
    BY <1>5, <2>1, <2>2 DEF Queue, Fresh, Sleep, Awake, DeviceTypeOK
<1>6. CASE GrabTime(p)
  <2>1. pc' \in [Procs -> Labels]
    BY <1>6, GotoType DEF GrabTime, Labels
  <2>2. spin' \in BOOLEAN
    BY <1>6 DEF GrabTime
  <2>3. ts' \in [Files -> Nat]
    BY <1>1, <1>6 DEF GrabTime, DeviceTypeOK
  <2> QED
    BY <1>6, <2>1, <2>2, <2>3 DEF GrabTime, DeviceTypeOK
<1>7. CASE GrabValue(p)
  <2>1. pc' \in [Procs -> Labels]
    BY <1>7, GotoType DEF GrabValue, Labels
  <2>2. spin' \in BOOLEAN
    BY <1>7 DEF GrabValue
  <2>3. data' \in [Procs -> Measurements]
    BY <1>7 DEF GrabValue, DeviceTypeOK
  <2> QED
    BY <1>7, <2>1, <2>2, <2>3 DEF GrabValue, DeviceTypeOK
<1>8. CASE Format(p)
  <2>1. pc' \in [Procs -> Labels]
    BY <1>8, GotoType DEF Format, Labels
  <2>2. data[p] \in Measurements /\ TextLen[data[p]] \in Nat \ {0}
    BY TextAssumption DEF DeviceTypeOK
  <2>3. buf_data' \in [Files -> Measurements \cup {NoText}] /\ lim' \in [Files -> Nat \ {0}]
    BY <1>1, <1>8, <2>2 DEF Format, DeviceTypeOK
  <2>4. 0 \in Measurements
    BY CountAssumption DEF Measurements
  <2>5. data' \in [Procs -> Measurements]
    BY <1>8, <2>4 DEF Format, DeviceTypeOK
  <2> QED
    BY <1>8, <2>1, <2>3, <2>5 DEF Format, DeviceTypeOK
<1>9. CASE CopyToUser(p)
  <2>1. pc' \in [Procs -> Labels]
    BY <1>9, GotoType DEF CopyToUser, Labels
  <2>2. f_pos' \in [Procs -> Nat \ {0}] /\ cnt' \in [Procs -> Nat]
    <3>1. f_pos \in [Procs -> Nat \ {0}] /\ f_pos[p] + cnt[p] \in Nat \ {0}
      BY DEF DeviceTypeOK
    <3>2. f_pos' = [f_pos EXCEPT ![p] = IF Exceeds(p) THEN 1 ELSE f_pos[p] + cnt[p]]
      BY <1>9 DEF CopyToUser, Rewound
    <3>3. f_pos' \in [Procs -> Nat \ {0}]
      BY <3>1, <3>2
    <3>4. cnt' \in [Procs -> Nat]
      BY <1>9 DEF CopyToUser, DeviceTypeOK
    <3> QED
      BY <3>3, <3>4
  <2> QED
    BY <1>9, <2>1, <2>2 DEF CopyToUser, DeviceTypeOK
<1>10. CASE Return(p)
  <2>1. pc' \in [Procs -> Labels]
    BY <1>10, GotoType DEF Return, Labels
  <2>2. filp_pos' \in [Files -> Nat \ {0}] /\ f_pos' \in [Procs -> Nat \ {0}]
    BY <1>1, <1>10 DEF Return, DeviceTypeOK
  <2> QED
    BY <1>10, <2>1, <2>2 DEF Return, DeviceTypeOK
<1>11. CASE LockInterrupted(p) \/ Fault(p)
  <2>1. pc' \in [Procs -> Labels]
    BY <1>11, GotoType DEF LockInterrupted, Fault, Labels
  <2>2. f_pos' \in [Procs -> Nat \ {0}] /\ cnt' \in [Procs -> Nat]
    <3>1. f_pos' = [f_pos EXCEPT ![p] = 1] /\ cnt' = [cnt EXCEPT ![p] = 0]
      BY <1>11 DEF LockInterrupted, Fault
    <3> QED
      BY <3>1 DEF DeviceTypeOK
  <2> QED
    BY <1>11, <2>1, <2>2 DEF LockInterrupted, Fault, DeviceTypeOK
<1>12. CASE WaitInterrupted(p) \/ RelockInterrupted(p)
  <2>1. pc' \in [Procs -> Labels]
    BY <1>12, GotoType DEF WaitInterrupted, RelockInterrupted, Labels
  <2>2. wq' \in SUBSET Procs /\ woken' \in SUBSET Procs /\ hit' \in SUBSET Files
    BY <1>1, <1>12 DEF WaitInterrupted, RelockInterrupted, Interrupted, DeviceTypeOK
  <2> QED
    BY <1>12, <2>1, <2>2 DEF WaitInterrupted, RelockInterrupted, DeviceTypeOK
<1> QED
  BY <1>2, <1>3, <1>4, <1>5, <1>6, <1>7, <1>8, <1>9, <1>10, <1>11, <1>12 DEF Takes, Goes, Fails

(* Every variable of a sensor and its files has its type, throughout.      *)
THEOREM SensorTypes == DeviceSpec => []DeviceTypeOK
<1>1. DeviceInit => DeviceTypeOK
  <2> SUFFICES ASSUME DeviceInit PROVE DeviceTypeOK
    OBVIOUS
  <2>1. 0 \in Measurements
    BY CountAssumption DEF Measurements
  <2>2. sensor \in [value : Measurements, time : Nat] /\ data \in [Procs -> Measurements]
    BY <2>1 DEF DeviceInit, Zeroed
  <2>3. spin \in BOOLEAN
    BY DEF DeviceInit
  <2>4. times \in Seq(Nat)
    BY EmptySeq DEF DeviceInit
  <2>5. fileOf \in [Procs -> Files]
    BY FileAssumption DEF DeviceInit
  <2> QED
    BY <2>2, <2>3, <2>4, <2>5 DEF DeviceInit, DeviceTypeOK, Labels
<1>2. DeviceTypeOK /\ [DeviceNext]_deviceVars => DeviceTypeOK'
  <2> SUFFICES ASSUME DeviceTypeOK, [DeviceNext]_deviceVars PROVE DeviceTypeOK'
    OBVIOUS
  <2>1. CASE UNCHANGED deviceVars
    BY <2>1 DEF deviceVars, DeviceTypeOK
  <2> QED
    BY <2>1, UpdateType, OpenType, ReadType DEF DeviceNext
<1> QED
  BY <1>1, <1>2, PTL DEF DeviceSpec

-----------------------------------------------------------------------------
HoldLabels == {"update", "spin", "grab", "format", "copy", "up"}

(* A step of one process leaves the other files as they are, and its own   *)
(* matters until a signal has hit it.                                      *)
LEMMA OneFile ==
  ASSUME DeviceTypeOK, LockInv, NEW p \in Procs, NEW l \in Labels, Goto(p, l),
         fileOf[p] \in opened, UNCHANGED <<opened, fileOf>>, hit \subseteq hit',
         \A g \in Files : g # fileOf[p] => sem'[g] = sem[g],
         fileOf[p] \notin hit' => Excludes(fileOf[p])'
  PROVE  LockInv'
<1> USE DEF Users
<1>1. \A q \in Procs : pc'[q] = IF q = p THEN l ELSE pc[q]
  BY DEF Goto, DeviceTypeOK
<1>2. \A g \in Files \ opened' : Idle(g)'
  BY <1>1 DEF LockInv, Idle
<1>3. ASSUME NEW g \in Files \ hit' PROVE Excludes(g)'
  <2>1. CASE g = fileOf[p]
    BY <2>1
  <2>2. CASE g # fileOf[p]
    <3>1. Excludes(g)
      BY DEF LockInv, LockExcludes
    <3>2. \A q \in Procs : fileOf[q] = g => (Holds(q)' <=> Holds(q))
      BY <1>1, <2>2 DEF Holds
    <3> HIDE DEF Holds
    <3> QED
      BY <2>2, <3>1, <3>2 DEF Excludes
  <2> QED
    BY <2>1, <2>2
<1> QED
  BY <1>2, <1>3 DEF LockInv, LockExcludes

(* A step that leaves the semaphore alone and does not come to hold it.    *)
LEMMA SameLock ==
  ASSUME DeviceTypeOK, LockInv, NEW p \in Procs, NEW l \in Labels, Goto(p, l),
         fileOf[p] \in opened, UNCHANGED <<opened, fileOf, sem, hit>>,
         l \in HoldLabels => Holds(p)
  PROVE  LockInv'
<1>1. \A q \in Procs : pc'[q] = IF q = p THEN l ELSE pc[q]
  BY DEF Goto, DeviceTypeOK
<1>2. \A q \in Procs : Holds(q)' => Holds(q)
  BY <1>1 DEF Holds, HoldLabels
<1>3. ASSUME fileOf[p] \notin hit' PROVE Excludes(fileOf[p])'
  <2>1. Excludes(fileOf[p])
    BY <1>3 DEF LockInv, LockExcludes, DeviceTypeOK
  <2> HIDE DEF Holds
  <2> QED
    BY <1>2, <2>1 DEF Excludes, Users
<1> QED
  BY <1>3, OneFile

(* down: the semaphore was 1, so nobody held it.                           *)
LEMMA LockTaken ==
  ASSUME DeviceTypeOK, LockInv, NEW p \in Procs, NEW l \in Labels, Goto(p, l),
         fileOf[p] \in opened, UNCHANGED <<opened, fileOf, hit>>, Down(fileOf[p])
  PROVE  LockInv'
<1>1. \A q \in Procs : pc'[q] = IF q = p THEN l ELSE pc[q]
  BY DEF Goto, DeviceTypeOK
<1>2. fileOf[p] \in Files /\ sem \in [Files -> Nat]
  BY DEF DeviceTypeOK
<1>3. \A g \in Files : sem'[g] = IF g = fileOf[p] THEN sem[g] - 1 ELSE sem[g]
  BY <1>2 DEF Down
<1>4. ASSUME fileOf[p] \notin hit' PROVE Excludes(fileOf[p])'
  <2>1. Excludes(fileOf[p])
    BY <1>2, <1>4 DEF LockInv, LockExcludes
  <2>2. sem[fileOf[p]] = 1
    BY <2>1, <1>2 DEF Excludes, Down
  <2>3. sem'[fileOf[p]] = 0
    BY <1>2, <1>3, <2>2
  <2>4. \A q \in Users(fileOf[p]) : ~Holds(q)
    BY <2>1, <2>2 DEF Excludes
  <2>5. \A q \in Procs : q # p => (Holds(q)' <=> Holds(q))
    BY <1>1 DEF Holds
  <2> HIDE DEF Holds
  <2> QED
    BY <2>3, <2>4, <2>5 DEF Excludes, Users
<1> QED
  BY <1>3, <1>4, OneFile

(* up: the process was the one that held it.                               *)
LEMMA LockGiven ==
  ASSUME DeviceTypeOK, LockInv, NEW p \in Procs, NEW l \in Labels \ HoldLabels, Goto(p, l),
         fileOf[p] \in opened, UNCHANGED <<opened, fileOf, hit>>, Up(fileOf[p]), Holds(p)
  PROVE  LockInv'
<1>1. \A q \in Procs : pc'[q] = IF q = p THEN l ELSE pc[q]
  BY DEF Goto, DeviceTypeOK
<1>2. fileOf[p] \in Files /\ sem \in [Files -> Nat]
  BY DEF DeviceTypeOK
<1>3. \A g \in Files : sem'[g] = IF g = fileOf[p] THEN sem[g] + 1 ELSE sem[g]
  BY <1>2 DEF Up
<1>4. ASSUME fileOf[p] \notin hit' PROVE Excludes(fileOf[p])'
  <2>1. Excludes(fileOf[p])
    BY <1>2, <1>4 DEF LockInv, LockExcludes
  <2>2. sem[fileOf[p]] = 0 /\ \A q \in Users(fileOf[p]) : Holds(q) => q = p
    BY <2>1 DEF Excludes, Users
  <2>3. sem'[fileOf[p]] = 1
    BY <1>2, <1>3, <2>2
  <2>4. ~Holds(p)' /\ \A q \in Procs : q # p => (Holds(q)' <=> Holds(q))
    BY <1>1 DEF Holds, HoldLabels
  <2> HIDE DEF Holds
  <2> QED
    BY <2>2, <2>3, <2>4 DEF Excludes, Users
<1> QED
  BY <1>3, <1>4, OneFile

(* A signal hits a file in a wait; what follows is not claimed to exclude. *)
LEMMA LockSkipped ==
  ASSUME DeviceTypeOK, LockInv, NEW p \in Procs, WaitInterrupted(p) \/ RelockInterrupted(p),
         fileOf[p] \in opened
  PROVE  LockInv'
<1>1. Goto(p, "copy") /\ "copy" \in Labels
  BY DEF WaitInterrupted, RelockInterrupted, Labels
<1>2. hit' = hit \cup {fileOf[p]} /\ UNCHANGED <<opened, fileOf, sem>>
  BY DEF WaitInterrupted, RelockInterrupted, Interrupted, sensorVars, fileVars
<1> QED
  BY <1>1, <1>2, OneFile

(* The semaphore keeps excluding.                                          *)
LEMMA LockInductive ==
  /\ DeviceInit => LockInv
  /\ DeviceTypeOK /\ LockInv /\ [DeviceNext]_deviceVars => LockInv'
<1> USE DEF sensorVars, fileVars, procVars, notes
<1>1. DeviceInit => LockInv
  BY FileAssumption DEF DeviceInit, LockInv, LockExcludes, Excludes, Idle, Users, Holds
<1>2. ASSUME DeviceTypeOK, LockInv, [DeviceNext]_deviceVars PROVE LockInv'
  <2>1. CASE UNCHANGED <<opened, sem, pc, fileOf, hit>>
    BY <1>2, <2>1 DEF LockInv, LockExcludes, Excludes, Idle, Users, Holds
  <2>2. CASE Update
    BY <2>1, <2>2 DEF Update, StoreValue, StoreTime, WakeSleepers
  <2>3. ASSUME NEW f \in Files, Open(f) PROVE LockInv'
    <3>1. Idle(f) /\ UNCHANGED <<pc, fileOf>> /\ opened' = opened \cup {f} /\ hit' = hit \ {f}
      BY <1>2, <2>3 DEF Open, LockInv
    <3>2. \A g \in Files : sem'[g] = IF g = f THEN 1 ELSE sem[g]
      BY <1>2, <2>3 DEF Open, DeviceTypeOK
    <3>3. Excludes(f)'
      BY <3>1, <3>2 DEF Excludes, Idle, Users, Holds
    <3>4. \A g \in Files \ hit : g # f => Excludes(g)'
      BY <1>2, <3>1, <3>2 DEF LockInv, LockExcludes, Excludes, Users, Holds
    <3>5. \A g \in Files \ opened' : Idle(g)'
      BY <1>2, <3>1 DEF LockInv, Idle, Users
    <3> QED
      BY <3>1, <3>3, <3>4, <3>5 DEF LockInv, LockExcludes
  <2>4. ASSUME NEW f \in Files, Release(f) PROVE LockInv'
    BY <1>2, <2>4 DEF Release, LockInv, LockExcludes, Excludes, Idle, Users, Holds
  <2>5. ASSUME NEW p \in Procs, NEW n \in Counts, Read(p, n) PROVE LockInv'
    BY <1>2, <2>5, SameLock DEF Read, Labels, HoldLabels
  <2>6. ASSUME NEW p \in Procs, Takes(p) \/ Goes(p) \/ Fails(p) PROVE LockInv'
    <3>1. fileOf[p] \in opened
      <4>1. pc[p] # "idle"
        BY <2>6 DEF Takes, Goes, Fails, At, Lock, Relock, GrabTime, Unlock, Queue, Fresh, Sleep,
           Awake, GrabValue, Format, CopyToUser, LastUp, Return, LockInterrupted,
           WaitInterrupted, RelockInterrupted, Fault
      <4> QED
        BY <1>2, <4>1 DEF LockInv, Idle, Users, DeviceTypeOK
    <3>2. CASE Lock(p) \/ Relock(p)
      BY <1>2, <3>1, <3>2, LockTaken DEF Lock, Relock, Labels
    <3>3. CASE Unlock(p) \/ LastUp(p)
      <4>1. Holds(p) /\ Up(fileOf[p]) /\ UNCHANGED <<opened, fileOf, hit>>
        BY <3>3 DEF Unlock, LastUp, LetGo, At, Holds
      <4>2. \E l \in {"wait", "back"} : Goto(p, l)
        BY <3>3 DEF Unlock, LastUp
      <4>3. {"wait", "back"} \subseteq Labels \ HoldLabels
        BY DEF Labels, HoldLabels
      <4> QED
        BY <1>2, <3>1, <4>1, <4>2, <4>3, LockGiven
    <3>4. CASE Queue(p) \/ Fresh(p) \/ Sleep(p) \/ Awake(p) \/ Return(p) \/ LockInterrupted(p) \/ Fault(p)
      <4>1. \E l \in {"relock", "check", "asleep", "wait", "idle"} : Goto(p, l)
        BY <3>4 DEF Queue, Fresh, Sleep, Awake, Return, LockInterrupted, Fault
      <4>2. UNCHANGED <<opened, fileOf, sem, hit>>
        BY <3>4 DEF Queue, Fresh, Sleep, Awake, Return, LockInterrupted, Fault
      <4>3. {"relock", "check", "asleep", "wait", "idle"} \subseteq Labels \ HoldLabels
        BY DEF Labels, HoldLabels
      <4> QED
        BY <1>2, <3>1, <4>1, <4>2, <4>3, SameLock
    <3>5. CASE GrabTime(p) \/ GrabValue(p) \/ Format(p) \/ CopyToUser(p)
      <4>1. Holds(p)
        BY <3>5 DEF GrabTime, GrabValue, Format, CopyToUser, At, Holds
      <4>2. UNCHANGED <<opened, fileOf, sem, hit>>
        BY <3>5 DEF GrabTime, GrabValue, Format, CopyToUser
      <4>3. \E l \in Labels : Goto(p, l)
        BY <3>5 DEF GrabTime, GrabValue, Format, CopyToUser, Labels
      <4> QED
        BY <1>2, <3>1, <4>1, <4>2, <4>3, SameLock
    <3>6. CASE WaitInterrupted(p) \/ RelockInterrupted(p)
      BY <1>2, <3>1, <3>6, LockSkipped
    <3> QED
      BY <2>6, <3>2, <3>3, <3>4, <3>5, <3>6 DEF Takes, Goes, Fails
  <2>7. CASE UNCHANGED deviceVars
    BY <2>1, <2>7 DEF deviceVars
  <2> QED
    BY <1>2, <2>2, <2>3, <2>4, <2>5, <2>6, <2>7 DEF DeviceNext
<1> QED
  BY <1>1, <1>2

(* One process with a file holds its semaphore at a time, through errors   *)
(* and waits, until a signal ends a wait.                                  *)
THEOREM SemaphoreExcludes == DeviceSpec => []LockExcludes
<1>1. LockInv => LockExcludes
  BY DEF LockInv
<1> QED
  BY <1>1, LockInductive, SensorTypes, PTL DEF DeviceSpec

-----------------------------------------------------------------------------
(* A step of one process wakes nobody and makes nothing fresh; it queues   *)
(* itself, and sleeps only on data it has found to be old.                 *)
LEMMA SleepStep ==
  ASSUME DeviceTypeOK, SleepInv, NEW p \in Procs, NEW l \in Labels, Goto(p, l),
         UNCHANGED <<sensor, writer, fileOf>>,
         \A q \in Procs : q # p => (q \in wq' <=> q \in wq) /\ (q \in woken' <=> q \in woken),
         \A g \in Files : ts'[g] \in {ts[g], sensor.time},
         l = "check" => p \in wq',
         l = "asleep" => At(p, "check") /\ ~NeedsRefresh(fileOf[p]) /\ UNCHANGED <<wq, woken, ts>>
  PROVE  SleepInv'
<1>1. \A q \in Procs : pc'[q] = IF q = p THEN l ELSE pc[q]
  BY DEF Goto, DeviceTypeOK
<1>2. \A q \in Procs : fileOf[q] \in Files /\ fileOf'[q] = fileOf[q]
  BY DEF DeviceTypeOK
<1>3. ASSUME NEW q \in Procs, pc'[q] \in {"check", "asleep"} PROVE q \in wq' \cup woken'
  <2>1. CASE q = p
    BY <1>1, <1>3, <2>1 DEF SleepInv, At
  <2>2. CASE q # p
    BY <1>1, <1>3, <2>2 DEF SleepInv
  <2> QED
    BY <2>1, <2>2
<1>4. ASSUME NEW q \in Procs, pc'[q] = "asleep", q \notin woken', NeedsRefresh(fileOf[q])'
      PROVE  q \in wq' /\ writer' = "wake"
  <2>1. NeedsRefresh(fileOf[q])
    BY <1>2, <1>4 DEF NeedsRefresh
  <2>2. q # p
    BY <1>1, <1>4, <2>1
  <2> QED
    BY <1>1, <1>4, <2>1, <2>2 DEF SleepInv, SleepersWoken, At
<1> QED
  BY <1>3, <1>4 DEF SleepInv, SleepersWoken, At

(* If files are opened quietly, whoever sleeps on fresh data is in the     *)
(* queue and the serial side is about to wake it: no wake-up is lost,      *)
(* between the look and the sleep or by a read of another file.            *)
THEOREM NoLostWakeUp ==
  ASSUME QuietOpens
  PROVE  DeviceSpec => []SleepersWoken
<1> USE DEF sensorVars, fileVars, procVars, notes
<1>1. DeviceInit => SleepInv
  BY DEF DeviceInit, SleepInv, SleepersWoken, At
<1>2. ASSUME DeviceTypeOK, SleepInv, [DeviceNext]_deviceVars PROVE SleepInv'
  <2>1. CASE UNCHANGED <<sensor, wq, woken, writer, ts, pc, fileOf>>
    BY <1>2, <2>1 DEF SleepInv, SleepersWoken, At, NeedsRefresh
  <2>2. CASE StoreValue
    <3>1. sensor'.time = sensor.time
      BY <1>2, <2>2 DEF StoreValue, DeviceTypeOK
    <3> QED
      BY <1>2, <2>2, <3>1 DEF StoreValue, SleepInv, SleepersWoken, At, NeedsRefresh
  <2>3. CASE StoreTime \/ WakeSleepers
    BY <1>2, <2>3 DEF StoreTime, WakeSleepers, WakeUp, SleepInv, SleepersWoken, At
  <2>4. ASSUME NEW f \in Files, Open(f) PROVE SleepInv'
    <3>1. \A q \in Procs : pc[q] = "idle" /\ pc'[q] = "idle"
      BY <1>2, <2>4 DEF Open, Undisturbed, Idle, Users, DeviceTypeOK
    <3> QED
      BY <3>1 DEF SleepInv, SleepersWoken, At
  <2>5. ASSUME NEW f \in Files, Release(f) PROVE SleepInv'
    BY <2>1, <2>5 DEF Release
  <2>6. ASSUME NEW p \in Procs, NEW n \in Counts, Read(p, n) PROVE SleepInv'
    BY <1>2, <2>6, SleepStep DEF Read, Labels
  <2>7. ASSUME NEW p \in Procs, Takes(p) \/ Goes(p) \/ Fails(p) PROVE SleepInv'
    <3>1. UNCHANGED <<sensor, writer, fileOf>>
      BY <2>7 DEF Takes, Goes, Fails, Lock, Relock, GrabTime, Unlock, Queue, Fresh, Sleep,
         Awake, GrabValue, Format, CopyToUser, LastUp, Return, LockInterrupted,
         WaitInterrupted, RelockInterrupted, Fault
    <3>2. \A q \in Procs : q # p => (q \in wq' <=> q \in wq) /\ (q \in woken' <=> q \in woken)
      BY <2>7 DEF Takes, Goes, Fails, Lock, Relock, GrabTime, Unlock, Queue, Fresh, Sleep,
         Awake, GrabValue, Format, CopyToUser, LastUp, Return, LockInterrupted,
         WaitInterrupted, RelockInterrupted, Fault
    <3>3. \A g \in Files : ts'[g] \in {ts[g], sensor.time}
      <4>1. CASE GrabTime(p)
        BY <1>2, <4>1 DEF GrabTime, DeviceTypeOK
      <4>2. CASE UNCHANGED ts
        BY <4>2
      <4> QED
        BY <2>7, <4>1, <4>2 DEF Takes, Goes, Fails, Lock, Relock, Unlock, Queue, Fresh, Sleep,
           Awake, GrabValue, Format, CopyToUser, LastUp, Return, LockInterrupted,
           WaitInterrupted, RelockInterrupted, Fault
    <3>4. CASE Queue(p)
      BY <1>2, <3>1, <3>2, <3>3, <3>4, SleepStep DEF Queue, Labels
    <3>5. CASE Sleep(p)
      BY <1>2, <3>1, <3>2, <3>3, <3>5, SleepStep DEF Sleep, Labels
    <3>6. CASE ~Queue(p) /\ ~Sleep(p)
      <4>1. \E l \in Labels \ {"check", "asleep"} : Goto(p, l)
        BY <2>7, <3>6 DEF Takes, Goes, Fails, Lock, Relock, GrabTime, Unlock, Fresh,
           Awake, GrabValue, Format, CopyToUser, LastUp, Return, LockInterrupted,
           WaitInterrupted, RelockInterrupted, Fault, Labels
      <4> QED
        BY <1>2, <3>1, <3>2, <3>3, <4>1, SleepStep
    <3> QED
      BY <3>4, <3>5, <3>6
  <2>8. CASE UNCHANGED deviceVars
    BY <2>1, <2>8 DEF deviceVars
  <2> QED
    BY <1>2, <2>2, <2>3, <2>4, <2>5, <2>6, <2>7, <2>8 DEF DeviceNext, Update
<1>3. SleepInv => SleepersWoken
  BY DEF SleepInv
<1> QED
  BY <1>1, <1>2, <1>3, SensorTypes, PTL DEF DeviceSpec

-----------------------------------------------------------------------------
(***************************************************************************)
(* What is in a file's buffer.                                             *)
(***************************************************************************)
(* No other process is in the file's matters.                              *)
Private(f) == f \in hit => OwnFile(f)

IsTimeOf(time, k) == time # 0 /\ k \in DOMAIN times /\ times[k] = time

(* The sensor's pages are of one measurement unless they are being stored. *)
PageInv ==
  /\ \A k \in DOMAIN times : times[k] > 0
  /\ IF writer = "time" THEN sensor.value = Len(times) + 1
                        ELSE sensor.time # 0 => IsTimeOf(sensor.time, sensor.value)
  /\ times = << >> => sensor.time = 0

(* The spinlock excludes; who has it has the time of what it will read.    *)
SpinInv ==
  /\ writer = "time" => spin
  /\ \A p \in Procs : pc[p] = "grab" =>
       /\ spin /\ writer # "time" /\ ts[fileOf[p]] = sensor.time
       /\ \A q \in Procs : pc[q] = "grab" => q = p

(* Who goes on to read the pages has seen something in them.               *)
SeenInv ==
  /\ sensor.time = 0 => \A f \in opened : ts[f] = 0
  /\ \A p \in Procs : pc[p] \in {"relock", "spin", "grab"} => sensor.time # 0

FormatInv ==
  \A p \in Procs : (pc[p] = "format" /\ Private(fileOf[p])) => IsTimeOf(ts[fileOf[p]], data[p])

BufferInv ==
  \A f \in opened : (Private(f) /\ \A p \in Users(f) : pc[p] \notin {"grab", "format"}) =>
     IF ts[f] = 0 THEN buf_data[f] = NoText ELSE IsTimeOf(ts[f], buf_data[f])

CacheInv == PageInv /\ SpinInv /\ SeenInv /\ FormatInv /\ BufferInv

-----------------------------------------------------------------------------
LEMMA InitCache == DeviceInit => CacheInv
<1> SUFFICES ASSUME DeviceInit PROVE CacheInv
  OBVIOUS
<1>1. DOMAIN times = {}
  BY EmptySeq DEF DeviceInit
<1> QED
  BY <1>1 DEF DeviceInit, Zeroed, CacheInv, PageInv, SpinInv, SeenInv, FormatInv, BufferInv

(* What matters is there as long as times grows.                           *)
LEMMA AppendedTimes ==
  ASSUME NEW t \in Seq(Nat), NEW now \in Nat
  PROVE  /\ Len(t) \in Nat /\ Len(Append(t, now)) = Len(t) + 1
         /\ DOMAIN t = 1 .. Len(t) /\ DOMAIN Append(t, now) = 1 .. Len(t) + 1
         /\ Append(t, now)[Len(t) + 1] = now
         /\ \A k \in DOMAIN t : Append(t, now)[k] = t[k]
  BY AppendProperties, LenProperties

LEMMA StoreTimeEffect ==
  ASSUME DeviceTypeOK, PageInv, StoreTime
  PROVE  \E now \in Nat \ {0} :
           /\ times' = Append(times, now) /\ sensor' = [sensor EXCEPT !.time = now]
           /\ times # << >> => Last(times) \in Nat /\ now >= Last(times)
<1>1. times \in Seq(Nat)
  BY DEF DeviceTypeOK
<1>2. times # << >> => Last(times) \in Nat \ {0}
  <2>1. times # << >> => Len(times) \in DOMAIN times /\ Last(times) = times[Len(times)]
    BY <1>1, EmptySeq, LenProperties DEF Last
  <2>2. \A k \in DOMAIN times : times[k] \in Nat
    BY <1>1, ElementOfSeq, LenProperties
  <2> QED
    BY <2>1, <2>2 DEF PageInv
<1>3. PICK now \in IF times = << >> THEN {1} ELSE {Last(times), Last(times) + 1} :
        times' = Append(times, now) /\ sensor' = [sensor EXCEPT !.time = now]
  BY DEF StoreTime
<1>4. now \in Nat \ {0}
  BY <1>2, <1>3
<1>5. times # << >> => Last(times) \in Nat /\ now >= Last(times)
  BY <1>2, <1>3
<1> QED
  BY <1>3, <1>4, <1>5

(* The serial side.                                                        *)
LEMMA UpdateCache ==
  ASSUME DeviceTypeOK, CacheInv, Update
  PROVE  CacheInv'
<1> USE DEF sensorVars, fileVars, procVars, notes
<1>1. CASE StoreValue
  <2>1. /\ sensor'.value = Len(times) + 1 /\ sensor'.time = sensor.time
        /\ writer' = "time" /\ spin' = TRUE /\ ~spin
        /\ UNCHANGED <<times, opened, ts, buf_data, pc, data, fileOf, hit>>
    BY <1>1 DEF StoreValue, DeviceTypeOK
  <2> QED
    BY <2>1 DEF CacheInv, PageInv, SpinInv, SeenInv, FormatInv, BufferInv, IsTimeOf, Private,
       OwnFile, Users
<1>2. CASE StoreTime
  <2>1. PICK now \in Nat \ {0} :
          times' = Append(times, now) /\ sensor' = [sensor EXCEPT !.time = now]
    BY <1>2, StoreTimeEffect DEF CacheInv
  <2>2. /\ writer = "time" /\ writer' = "wake"
        /\ UNCHANGED <<opened, ts, buf_data, pc, data, fileOf, hit>>
    BY <1>2 DEF StoreTime
  <2>3. /\ Len(times) \in Nat /\ DOMAIN times = 1 .. Len(times)
        /\ DOMAIN times' = 1 .. Len(times) + 1 /\ times'[Len(times) + 1] = now
        /\ \A k \in DOMAIN times : times'[k] = times[k]
    BY <2>1, AppendedTimes DEF DeviceTypeOK
  <2>4. sensor'.time = now /\ sensor'.value = Len(times) + 1
    BY <2>1, <2>2 DEF DeviceTypeOK, CacheInv, PageInv
  <2>5. \A time, k : IsTimeOf(time, k) => IsTimeOf(time, k)'
    BY <2>3 DEF IsTimeOf
  <2>6. Len(times) + 1 \in DOMAIN times' /\ times' # << >>
    BY <2>3, EmptySeq
  <2>7. ASSUME NEW k \in DOMAIN times' PROVE times'[k] > 0
    <3>1. CASE k \in DOMAIN times
      BY <2>3, <3>1 DEF CacheInv, PageInv
    <3>2. CASE k \notin DOMAIN times
      <4>1. k = Len(times) + 1
        BY <2>3, <3>2
      <4> QED
        BY <2>1, <2>3, <4>1
    <3> QED
      BY <3>1, <3>2
  <2>8. \A p \in Procs : pc[p] # "grab"
    BY <2>2 DEF CacheInv, SpinInv
  <2>9. PageInv'
    BY <2>1, <2>2, <2>3, <2>4, <2>6, <2>7 DEF PageInv, IsTimeOf
  <2>10. SpinInv' /\ SeenInv'
    BY <2>1, <2>2, <2>8, <2>4 DEF SpinInv, SeenInv
  <2>11. FormatInv' /\ BufferInv'
    BY <2>2, <2>5 DEF CacheInv, FormatInv, BufferInv, Private, OwnFile, Users
  <2> QED
    BY <2>9, <2>11, <2>10 DEF CacheInv
<1>3. CASE WakeSleepers
  BY <1>3 DEF WakeSleepers, CacheInv, PageInv, SpinInv, SeenInv, FormatInv, BufferInv, IsTimeOf,
     Private, OwnFile, Users
<1> QED
  BY <1>1, <1>2, <1>3 DEF Update

(* Opening quietly: nobody reads, and the other files have seen nothing.   *)
LEMMA OpenCache ==
  ASSUME DeviceTypeOK, CacheInv, QuietOpens, NEW f \in Files, Open(f) \/ Release(f)
  PROVE  CacheInv'
<1> USE DEF sensorVars, fileVars, procVars, notes
<1>1. CASE Open(f)
  <2>1. /\ sensor'.time = 0 /\ writer' = "idle" /\ opened' = opened \cup {f}
        /\ UNCHANGED <<times, pc, data, fileOf>>
        /\ \A g \in Files : ts'[g] = IF g = f THEN 0 ELSE ts[g]
        /\ \A g \in Files : buf_data'[g] = IF g = f THEN NoText ELSE buf_data[g]
        /\ hit' = hit \ {f}
    BY <1>1 DEF Open, SensorInit, Zeroed, Undisturbed, DeviceTypeOK
  <2>2. \A p \in Procs : pc[p] = "idle"
    BY <1>1 DEF Open, Undisturbed, Idle, Users, DeviceTypeOK
  <2>3. \A g \in opened : ts[g] = 0
    BY <1>1 DEF Open, Undisturbed, CacheInv, PageInv, SeenInv
  <2>4. PageInv' /\ SpinInv' /\ FormatInv'
    BY <2>1, <2>2 DEF CacheInv, PageInv, SpinInv, FormatInv
  <2>5. SeenInv'
    BY <2>1, <2>2, <2>3 DEF SeenInv, DeviceTypeOK
  <2>6. BufferInv'
    <3> SUFFICES ASSUME NEW g \in opened', Private(g)'
                 PROVE  ts'[g] = 0 /\ buf_data'[g] = NoText
      BY DEF BufferInv
    <3>1. CASE g = f
      BY <2>1, <3>1
    <3>2. CASE g # f
      <4>1. g \in opened /\ Private(g) /\ \A p \in Users(g) : pc[p] \notin {"grab", "format"}
        BY <2>1, <2>2, <3>2 DEF Private, OwnFile, Users
      <4> QED
        BY <2>1, <2>3, <3>2, <4>1 DEF CacheInv, BufferInv, DeviceTypeOK
    <3> QED
      BY <3>1, <3>2
  <2> QED
    BY <2>4, <2>5, <2>6 DEF CacheInv
<1>2. CASE Release(f)
  BY <1>2 DEF Release, CacheInv, PageInv, SpinInv, SeenInv, FormatInv, BufferInv, IsTimeOf,
     Private, OwnFile, Users
<1> QED
  BY <1>1, <1>2

(* A step of a process that neither reads the pages nor fills the buffer.  *)
LEMMA OtherCache ==
  ASSUME DeviceTypeOK, CacheInv, NEW p \in Procs, NEW l, Goto(p, l),
         pc[p] \notin {"grab", "format"}, l \notin {"grab", "format"},
         l \in {"relock", "spin"} => sensor.time # 0,
         UNCHANGED <<sensor, spin, writer, times, opened, ts, buf_data, data, fileOf>>,
         hit \subseteq hit'
  PROVE  CacheInv'
<1>1. \A q \in Procs : pc'[q] = IF q = p THEN l ELSE pc[q]
  BY DEF Goto, DeviceTypeOK
<1>2. \A g : Private(g)' => Private(g)
  BY DEF Private, OwnFile, Users
<1>3. PageInv' /\ SpinInv' /\ SeenInv'
  BY <1>1 DEF CacheInv, PageInv, SpinInv, SeenInv, IsTimeOf
<1>4. FormatInv'
  BY <1>1, <1>2 DEF CacheInv, FormatInv, IsTimeOf
<1>5. BufferInv'
  BY <1>1, <1>2 DEF CacheInv, BufferInv, IsTimeOf, Users
<1> QED
  BY <1>3, <1>4, <1>5 DEF CacheInv

(* Two processes are not both where the semaphore is held, or one alone    *)
(* has the file.                                                           *)
LEMMA OneHolder ==
  ASSUME DeviceTypeOK, LockInv, NEW p \in Procs, NEW q \in Procs, fileOf[q] = fileOf[p],
         Private(fileOf[p]), Holds(p), Holds(q)
  PROVE  q = p
<1>1. p \in Users(fileOf[p]) /\ q \in Users(fileOf[p]) /\ fileOf[p] \in Files
  BY DEF Users, DeviceTypeOK
<1>2. CASE fileOf[p] \in hit
  BY <1>1, <1>2 DEF Private, OwnFile
<1>3. CASE fileOf[p] \notin hit
  BY <1>1, <1>3 DEF LockInv, LockExcludes, Excludes
<1> QED
  BY <1>2, <1>3

(* Reading the pages and formatting what was read.                         *)
LEMMA GrabCache ==
  ASSUME DeviceTypeOK, LockInv, CacheInv, NEW p \in Procs, fileOf[p] \in opened,
         GrabTime(p) \/ GrabValue(p) \/ Format(p)
  PROVE  CacheInv'
<1> USE DEF sensorVars, fileVars, procVars, notes
<1>1. fileOf[p] \in Files /\ UNCHANGED <<sensor, writer, times, opened, fileOf, hit>>
  BY DEF DeviceTypeOK, GrabTime, GrabValue, Format
<1>2. \A g : Private(g)' <=> Private(g)
  BY <1>1 DEF Private, OwnFile, Users
<1>3. \A time, k : IsTimeOf(time, k)' <=> IsTimeOf(time, k)
  BY <1>1 DEF IsTimeOf
<1>4. PageInv'
  BY <1>1, <1>3 DEF CacheInv, PageInv
<1>5. CASE GrabTime(p)
  <2>1. /\ ~spin /\ spin' = TRUE /\ pc[p] = "spin"
        /\ \A q \in Procs : pc'[q] = IF q = p THEN "grab" ELSE pc[q]
        /\ \A g \in Files : ts'[g] = IF g = fileOf[p] THEN sensor.time ELSE ts[g]
        /\ UNCHANGED <<buf_data, data>>
    BY <1>5 DEF GrabTime, SpinFree, At, Goto, DeviceTypeOK
  <2>2. writer # "time" /\ sensor.time # 0 /\ \A q \in Procs : pc[q] # "grab"
    BY <2>1 DEF CacheInv, SpinInv, SeenInv
  <2>3. SpinInv'
    BY <1>1, <2>1, <2>2 DEF SpinInv
  <2>4. SeenInv'
    BY <1>1, <2>1, <2>2 DEF SeenInv
  <2>5. FormatInv'
    <3> SUFFICES ASSUME NEW q \in Procs, pc'[q] = "format", Private(fileOf[q])
                 PROVE  IsTimeOf(ts'[fileOf[q]], data[q])
      BY <1>1, <1>2, <1>3, <2>1 DEF FormatInv
    <3>1. q # p /\ pc[q] = "format"
      BY <2>1
    <3>2. fileOf[q] # fileOf[p]
      BY <2>1, <3>1, OneHolder DEF Holds
    <3> QED
      BY <2>1, <3>1, <3>2 DEF CacheInv, FormatInv, DeviceTypeOK
  <2>6. BufferInv'
    <3> SUFFICES ASSUME NEW g \in opened, Private(g),
                        \A q \in Users(g) : pc'[q] \notin {"grab", "format"}
                 PROVE  IF ts'[g] = 0 THEN buf_data[g] = NoText ELSE IsTimeOf(ts'[g], buf_data[g])
      BY <1>1, <1>2, <1>3, <2>1 DEF BufferInv, Users
    <3>1. g # fileOf[p] /\ g \in Files
      BY <2>1 DEF Users, DeviceTypeOK
    <3>2. \A q \in Users(g) : pc[q] \notin {"grab", "format"}
      BY <2>1, <3>1 DEF Users
    <3> QED
      BY <2>1, <3>1, <3>2 DEF CacheInv, BufferInv
  <2> QED
    BY <1>4, <2>4, <2>5, <2>6, <2>3 DEF CacheInv
<1>6. CASE GrabValue(p)
  <2>1. /\ pc[p] = "grab" /\ spin' = FALSE
        /\ \A q \in Procs : pc'[q] = IF q = p THEN "format" ELSE pc[q]
        /\ \A q \in Procs : data'[q] = IF q = p THEN sensor.value ELSE data[q]
        /\ UNCHANGED <<buf_data, ts>>
    BY <1>6 DEF GrabValue, At, Goto, DeviceTypeOK
  <2>2. SpinInv' /\ SeenInv'
    BY <1>1, <2>1 DEF CacheInv, SpinInv, SeenInv
  <2>3. IsTimeOf(ts[fileOf[p]], sensor.value)
    BY <2>1 DEF CacheInv, PageInv, SpinInv, SeenInv
  <2>4. FormatInv'
    BY <1>1, <1>2, <1>3, <2>1, <2>3 DEF CacheInv, FormatInv
  <2>5. BufferInv'
    BY <1>1, <1>2, <1>3, <2>1 DEF CacheInv, BufferInv, Users
  <2> QED
    BY <1>4, <2>2, <2>4, <2>5 DEF CacheInv
<1>7. CASE Format(p)
  <2>1. /\ pc[p] = "format"
        /\ \A q \in Procs : pc'[q] = IF q = p THEN "copy" ELSE pc[q]
        /\ \A q \in Procs : q # p => data'[q] = data[q]
        /\ \A g \in Files : buf_data'[g] = IF g = fileOf[p] THEN data[p] ELSE buf_data[g]
        /\ UNCHANGED <<ts, spin>>
    BY <1>7 DEF Format, At, Goto, DeviceTypeOK
  <2>2. SpinInv' /\ SeenInv' /\ FormatInv'
    BY <1>1, <1>2, <1>3, <2>1 DEF CacheInv, SpinInv, SeenInv, FormatInv
  <2>3. BufferInv'
    <3> SUFFICES ASSUME NEW g \in opened, Private(g),
                        \A q \in Users(g) : pc'[q] \notin {"grab", "format"}
                 PROVE  IF ts[g] = 0 THEN buf_data'[g] = NoText ELSE IsTimeOf(ts[g], buf_data'[g])
      BY <1>1, <1>2, <1>3, <2>1 DEF BufferInv, Users
    <3>1. CASE g = fileOf[p]
      <4>1. IsTimeOf(ts[g], data[p])
        BY <2>1, <3>1 DEF CacheInv, FormatInv
      <4> QED
        BY <1>1, <2>1, <3>1, <4>1 DEF IsTimeOf
    <3>2. CASE g # fileOf[p]
      <4>1. \A q \in Users(g) : pc[q] \notin {"grab", "format"}
        BY <2>1, <3>2 DEF Users
      <4>2. g \in Files
        BY DEF DeviceTypeOK
      <4> QED
        BY <2>1, <3>2, <4>1, <4>2 DEF CacheInv, BufferInv
    <3> QED
      BY <3>1, <3>2
  <2> QED
    BY <1>4, <2>2, <2>3 DEF CacheInv
<1> QED
  BY <1>5, <1>6, <1>7

(* Who is in read has its file open.                                       *)
LEMMA InOpenFile ==
  ASSUME DeviceTypeOK, LockInv, NEW p \in Procs, pc[p] # "idle"
  PROVE  fileOf[p] \in opened
  BY DEF DeviceTypeOK, LockInv, Idle, Users

LEMMA ReadCache ==
  ASSUME DeviceTypeOK, LockInv, CacheInv, NEW p \in Procs,
         Takes(p) \/ Goes(p) \/ Fails(p) \/ \E n \in Counts : Read(p, n)
  PROVE  CacheInv'
<1> USE DEF sensorVars, fileVars, procVars, notes
<1>1. CASE GrabTime(p) \/ GrabValue(p) \/ Format(p)
  <2>1. fileOf[p] \in opened
    BY <1>1, InOpenFile DEF GrabTime, GrabValue, Format, At
  <2> QED
    BY <1>1, <2>1, GrabCache
<1>2. CASE Queue(p) \/ Fresh(p)
  <2>1. fileOf[p] \in opened
    BY <1>2, InOpenFile DEF Queue, Fresh, At
  <2>2. NeedsRefresh(fileOf[p]) => sensor.time # 0
    BY <2>1 DEF CacheInv, SeenInv, NeedsRefresh
  <2>3. /\ pc[p] \in {"wait", "check"}
        /\ Goto(p, "check") \/ (Goto(p, "relock") /\ sensor.time # 0)
        /\ UNCHANGED <<sensor, spin, writer, times, opened, ts, buf_data, data, fileOf, hit>>
    BY <1>2, <2>2 DEF Queue, Fresh, At
  <2> QED
    BY <2>3, OtherCache
<1>3. CASE Relock(p)
  <2>1. /\ pc[p] = "relock" /\ Goto(p, "spin") /\ sensor.time # 0
        /\ UNCHANGED <<sensor, spin, writer, times, opened, ts, buf_data, data, fileOf, hit>>
    BY <1>3 DEF Relock, At, CacheInv, SeenInv
  <2> QED
    BY <2>1, OtherCache
<1>4. CASE \/ Lock(p) \/ Unlock(p) \/ Sleep(p) \/ Awake(p) \/ CopyToUser(p) \/ LastUp(p) \/ Return(p)
           \/ Fails(p) \/ \E n \in Counts : Read(p, n)
  <2>1. /\ \E l \in {"update", "copy", "wait", "asleep", "up", "back", "idle", "down"} : Goto(p, l)
        /\ pc[p] \notin {"grab", "format"}
        /\ UNCHANGED <<sensor, spin, writer, times, opened, ts, buf_data, data, fileOf>>
        /\ hit \subseteq hit'
    BY <1>4 DEF Lock, Unlock, Sleep, Awake, CopyToUser, LastUp, Return, Fails, LockInterrupted,
       WaitInterrupted, RelockInterrupted, Interrupted, Fault, Read, At
  <2> QED
    BY <2>1, OtherCache
<1> QED
  BY <1>1, <1>2, <1>3, <1>4 DEF Takes, Goes

LEMMA NextCache ==
  ASSUME QuietOpens, DeviceTypeOK, LockInv, CacheInv, [DeviceNext]_deviceVars
  PROVE  CacheInv'
<1>1. CASE UNCHANGED deviceVars
  BY <1>1 DEF deviceVars, CacheInv, PageInv, SpinInv, SeenInv, FormatInv, BufferInv, IsTimeOf, Private,
     OwnFile, Users
<1> QED
  BY <1>1, UpdateCache, OpenCache, ReadCache DEF DeviceNext

(* The text in a buffer and the time beside it are of one measurement:     *)
(* update and reads do not overlap in the sensor's pages, nor two reads in *)
(* a file's buffer.  (lunix-chrdev.c:41-122, lunix-sensors.c:74-105)       *)
THEOREM BufferOfOneMeasurement ==
  ASSUME QuietOpens
  PROVE  DeviceSpec => []CacheOfOneMeasurement
<1>1. DeviceTypeOK /\ LockInv /\ CacheInv /\ [DeviceNext]_deviceVars => CacheInv'
  BY NextCache
<1>2. CacheInv => CacheOfOneMeasurement
  BY DEF CacheInv, BufferInv, CacheOfOneMeasurement, Private, IsTimeOf
<1> QED
  BY <1>1, <1>2, InitCache, LockInductive, SensorTypes, PTL DEF DeviceSpec

-----------------------------------------------------------------------------
(***************************************************************************)
(* What one process reads from its file.                                   *)
(***************************************************************************)
(* A process that reads for the first byte of a text gets a new one.       *)
Refreshing == {"update", "wait", "check", "asleep", "relock", "spin", "grab", "format"}
Refreshed(p) == pc[p] \in {"grab", "format"} \/ (pc[p] = "copy" /\ f_pos[p] = 1)

(* The file position, which read works on a copy of. *)
Place(p) == IF pc[p] \in {"up", "back"} THEN f_pos[p] ELSE filp_pos[fileOf[p]]

(* Where p is in its file: at the start, when the text it has read is done *)
(* with, or in the text that is in the buffer, after what it has read.     *)
AtPlace(p) ==
  LET f == fileOf[p] IN
  /\ pc[p] \in Refreshing \cup {"down", "copy"} => f_pos[p] = filp_pos[f]
  /\ pc[p] \in Refreshing => f_pos[p] = 1
  /\ pc[p] = "copy" => lim[f] = TextLen[buf_data[f]]
  /\ IF Place(p) = 1 THEN last[f].msr = NoText \/ last[f].to = TextLen[last[f].msr]
     ELSE /\ last[f].msr # NoText /\ last[f].to = Place(p) - 1 /\ last[f].to < lim[f]
          /\ buf_data[f] = last[f].msr /\ lim[f] = TextLen[buf_data[f]]

(* A text in the buffer that has not been read is of a later time, and so  *)
(* is what is in the sensor's pages when p goes to read them.              *)
Advances(p) ==
  LET f == fileOf[p] IN
  /\ last[f].msr # NoText =>
       /\ last[f].msr \in DOMAIN times /\ times[last[f].msr] <= ts[f]
       /\ Refreshed(p) => times[last[f].msr] < ts[f]
  /\ Refreshed(p) => ts[f] > 0
  /\ ts[f] <= sensor.time
  /\ pc[p] \in {"relock", "spin"} => ts[f] < sensor.time

Alone(p) == fileOf[p] \in opened \ hit /\ OwnFile(fileOf[p])

OrderInv ==
  /\ last \in [Files -> [msr : Measurements \cup {NoText}, from : Nat, to : Nat]]
  /\ times # << >> => sensor.time <= Last(times)
  /\ \A p \in Procs : Alone(p) => AtPlace(p) /\ Advances(p)

LEMMA InitOrder == DeviceInit => OrderInv
<1> SUFFICES ASSUME DeviceInit PROVE OrderInv
  OBVIOUS
<1>1. Nothing \in [msr : Measurements \cup {NoText}, from : Nat, to : Nat]
  BY DEF Nothing
<1> QED
  BY <1>1 DEF DeviceInit, Nothing, OrderInv, Alone

(* Nothing that the order is about changes. *)
LEMMA OrderKept ==
  ASSUME OrderInv, UNCHANGED <<last, times, pc, f_pos, filp_pos, fileOf, lim, buf_data, ts, hit>>,
         sensor.time' = sensor.time, opened' \subseteq opened
  PROVE  OrderInv'
<1>1. \A p \in Procs : Alone(p)' => Alone(p)
  BY DEF Alone, OwnFile, Users
<1>2. \A p \in Procs : (AtPlace(p) => AtPlace(p)') /\ (Advances(p) => Advances(p)')
  BY DEF AtPlace, Place, Advances, Refreshed
<1>3. (times # << >> => sensor.time <= Last(times))'
  BY DEF OrderInv, Last
<1> QED
  BY <1>1, <1>2, <1>3 DEF OrderInv

(* A measurement's time is not before that of the one before it. *)
LEMMA UpdateOrder ==
  ASSUME DeviceTypeOK, CacheInv, OrderInv, Update
  PROVE  OrderInv'
<1> USE DEF sensorVars, fileVars, procVars, notes
<1>1. CASE StoreValue
  <2>1. sensor.time' = sensor.time
    BY <1>1 DEF StoreValue, DeviceTypeOK
  <2> QED
    BY <1>1, <2>1, OrderKept DEF StoreValue
<1>2. CASE WakeSleepers
  BY <1>2, OrderKept DEF WakeSleepers
<1>3. CASE StoreTime
  <2>1. PICK now \in Nat \ {0} :
          /\ times' = Append(times, now) /\ sensor' = [sensor EXCEPT !.time = now]
          /\ times # << >> => Last(times) \in Nat /\ now >= Last(times)
    BY <1>3, StoreTimeEffect DEF CacheInv
  <2>2. UNCHANGED <<last, pc, f_pos, filp_pos, fileOf, lim, buf_data, ts, hit, opened>>
    BY <1>3 DEF StoreTime
  <2>3. /\ Len(times) \in Nat /\ DOMAIN times = 1 .. Len(times)
        /\ DOMAIN times' = 1 .. Len(times) + 1 /\ times'[Len(times) + 1] = now
        /\ \A k \in DOMAIN times : times'[k] = times[k]
        /\ Len(times') = Len(times) + 1
    BY <2>1, AppendedTimes DEF DeviceTypeOK
  <2>4. sensor.time' = now /\ sensor.time \in Nat /\ sensor.time <= now
    BY <2>1 DEF DeviceTypeOK, OrderInv, CacheInv, PageInv
  <2>5. times' # << >> => sensor.time' <= Last(times')
    BY <2>3, <2>4 DEF Last
  <2>6. \A p \in Procs : (Alone(p)' => Alone(p)) /\ (AtPlace(p) => AtPlace(p)')
    BY <2>2 DEF Alone, OwnFile, Users, AtPlace, Place
  <2>7. ASSUME NEW p \in Procs, Advances(p)
        PROVE  Advances(p)'
    <3>1. ts[fileOf[p]] \in Nat
      BY DEF DeviceTypeOK
    <3> QED
      BY <2>2, <2>3, <2>4, <2>7, <3>1 DEF Advances, Refreshed
  <2> QED
    BY <2>2, <2>5, <2>6, <2>7 DEF OrderInv
<1> QED
  BY <1>1, <1>2, <1>3 DEF Update

(* A file that is opened has given nothing, and no other has. *)
LEMMA OpenOrder ==
  ASSUME DeviceTypeOK, CacheInv, OrderInv, QuietOpens, NEW f \in Files, Open(f) \/ Release(f)
  PROVE  OrderInv'
<1> USE DEF sensorVars, fileVars, procVars, notes
<1>1. CASE Open(f)
  <2>1. /\ sensor'.time = 0 /\ opened' = opened \cup {f} /\ hit' = hit \ {f} /\ f \notin opened
        /\ UNCHANGED <<times, pc, f_pos, fileOf>>
        /\ \A g \in Files \ {f} : /\ ts'[g] = ts[g] /\ buf_data'[g] = buf_data[g] /\ lim'[g] = lim[g]
                                  /\ last'[g] = last[g] /\ filp_pos'[g] = filp_pos[g]
        /\ last' = [last EXCEPT ![f] = Nothing]
        /\ ts'[f] = 0 /\ filp_pos'[f] = 1
    BY <1>1 DEF Open, SensorInit, Zeroed, DeviceTypeOK
  <2>2. \A p \in Procs : pc[p] = "idle"
    BY <1>1 DEF Open, Undisturbed, Idle, Users, DeviceTypeOK
  <2>3. /\ \A g \in opened : ts[g] = 0
        /\ \A g \in opened : times = << >>
    BY <1>1 DEF Open, Undisturbed, CacheInv, PageInv, SeenInv
  <2>4. /\ last' \in [Files -> [msr : Measurements \cup {NoText}, from : Nat, to : Nat]]
        /\ last'[f] = Nothing
    <3>1. Nothing \in [msr : Measurements \cup {NoText}, from : Nat, to : Nat]
      BY DEF Nothing
    <3> QED
      BY <2>1, <3>1 DEF OrderInv
  <2>5. times # << >> => sensor'.time <= Last(times)
    <3>1. times # << >> => Len(times) \in DOMAIN times /\ Last(times) = times[Len(times)]
      BY EmptySeq, LenProperties DEF Last, DeviceTypeOK
    <3>2. \A k \in DOMAIN times : times[k] \in Nat
      BY ElementOfSeq, LenProperties DEF DeviceTypeOK
    <3> QED
      BY <2>1, <3>1, <3>2
  <2>6. ASSUME NEW p \in Procs, Alone(p)'
        PROVE  AtPlace(p)' /\ Advances(p)'
    <3>1. fileOf[p] \in Files /\ pc'[p] = "idle"
      BY <2>1, <2>2 DEF DeviceTypeOK
    <3>2. CASE fileOf[p] = f
      BY <2>1, <2>4, <3>1, <3>2 DEF AtPlace, Place, Advances, Refreshed, Refreshing, Nothing
    <3>3. CASE fileOf[p] # f
      <4>1. Alone(p) /\ fileOf[p] \in opened
        BY <2>1, <2>6, <3>3 DEF Alone, OwnFile, Users
      <4>2. AtPlace(p)'
        BY <2>1, <3>1, <3>3, <4>1, <2>2 DEF OrderInv, AtPlace, Place, Refreshing
      <4>3. Advances(p)'
        BY <2>1, <2>3, <3>1, <3>3, <4>1, <2>2 DEF OrderInv, Advances, Refreshed
      <4> QED
        BY <4>2, <4>3
    <3> QED
      BY <3>2, <3>3
  <2> QED
    BY <2>1, <2>4, <2>5, <2>6 DEF OrderInv
<1>2. CASE Release(f)
  BY <1>2, OrderKept DEF Release
<1> QED
  BY <1>1, <1>2

(* What a step of read leaves to the other files and processes. *)
LEMMA StepOfRead ==
  ASSUME DeviceTypeOK, OrderInv, NEW q \in Procs,
         Takes(q) \/ Goes(q) \/ Fails(q) \/ \E n \in Counts : Read(q, n)
  PROVE  /\ UNCHANGED <<sensor, times, opened, fileOf>> /\ hit \subseteq hit'
         /\ \A g \in Files \ {fileOf[q]} : /\ ts'[g] = ts[g] /\ buf_data'[g] = buf_data[g] /\ lim'[g] = lim[g]
                                           /\ last'[g] = last[g] /\ filp_pos'[g] = filp_pos[g]
         /\ \A p \in Procs \ {q} : pc'[p] = pc[p] /\ f_pos'[p] = f_pos[p]
         /\ CopyToUser(q) \/ UNCHANGED last
<1> USE DEF sensorVars, fileVars, procVars, notes
<1>1. CASE Takes(q)
  BY <1>1 DEF Takes, Lock, Relock, GrabTime, Goto, DeviceTypeOK
<1>2. CASE Fails(q)
  BY <1>2 DEF Fails, LockInterrupted, WaitInterrupted, RelockInterrupted, Interrupted, Fault, Goto, DeviceTypeOK
<1>3. CASE \E n \in Counts : Read(q, n)
  BY <1>3 DEF Read, Goto, DeviceTypeOK
<1>4. CASE Unlock(q) \/ Queue(q) \/ Fresh(q) \/ Sleep(q) \/ Awake(q)
  BY <1>4 DEF Unlock, Queue, Fresh, Sleep, Awake, Goto, DeviceTypeOK
<1>5. CASE GrabValue(q) \/ LastUp(q) \/ Return(q)
  BY <1>5 DEF GrabValue, LastUp, Return, Goto, DeviceTypeOK
<1>6. CASE Format(q)
  BY <1>6 DEF Format, Goto, DeviceTypeOK
<1>7. CASE CopyToUser(q)
  BY <1>7 DEF CopyToUser, Goto, DeviceTypeOK, OrderInv
<1> QED
  BY <1>1, <1>2, <1>3, <1>4, <1>5, <1>6, <1>7 DEF Goes

LEMMA CopyEffect ==
  ASSUME DeviceTypeOK, OrderInv, NEW p \in Procs, CopyToUser(p)
  PROVE  LET f == fileOf[p] IN
         /\ f \in Files /\ pc[p] = "copy" /\ pc'[p] = "up" /\ hit' = hit
         /\ f_pos[p] \in Nat \ {0} /\ cnt[p] \in Nat /\ lim[f] \in Nat \ {0}
         /\ f_pos'[p] = IF f_pos[p] - 1 + cnt[p] >= lim[f] THEN 1 ELSE f_pos[p] + cnt[p]
         /\ To(p) = IF f_pos[p] - 1 + cnt[p] >= lim[f] THEN lim[f] ELSE f_pos[p] - 1 + cnt[p]
         /\ To(p) \in Nat /\ f_pos[p] - 1 <= To(p)
         /\ last'[f] = IF To(p) = f_pos[p] - 1 THEN last[f]
                       ELSE [msr |-> buf_data[f], from |-> f_pos[p] - 1, to |-> To(p)]
         /\ last' \in [Files -> [msr : Measurements \cup {NoText}, from : Nat, to : Nat]]
         /\ UNCHANGED <<ts, buf_data, lim, filp_pos, times, sensor>>
<1> USE DEF sensorVars, fileVars, procVars, notes
<1> DEFINE f == fileOf[p]
           e == IF To(p) = f_pos[p] - 1 THEN last[f]
                ELSE [msr |-> buf_data[f], from |-> f_pos[p] - 1, to |-> To(p)]
<1>1. /\ f \in Files /\ f_pos[p] \in Nat \ {0} /\ cnt[p] \in Nat /\ lim[f] \in Nat \ {0}
      /\ buf_data[f] \in Measurements \cup {NoText}
  BY DEF DeviceTypeOK
<1>2. /\ To(p) = IF f_pos[p] - 1 + cnt[p] >= lim[f] THEN lim[f] ELSE f_pos[p] - 1 + cnt[p]
      /\ To(p) \in Nat
  BY <1>1 DEF To, Exceeds
<1>3. f_pos'[p] = IF f_pos[p] - 1 + cnt[p] >= lim[f] THEN 1 ELSE f_pos[p] + cnt[p]
  BY <1>1 DEF CopyToUser, Exceeds, Rewound, DeviceTypeOK
<1>4. last' = [last EXCEPT ![f] = e]
  BY DEF CopyToUser
<1>5. e \in [msr : Measurements \cup {NoText}, from : Nat, to : Nat]
  BY <1>1, <1>2 DEF OrderInv
<1>6. /\ last' \in [Files -> [msr : Measurements \cup {NoText}, from : Nat, to : Nat]]
      /\ last'[f] = e
  <2> HIDE DEF e
  <2> QED
    BY <1>1, <1>4, <1>5 DEF OrderInv
<1>7. /\ pc[p] = "copy" /\ pc'[p] = "up" /\ hit' = hit /\ f_pos[p] - 1 <= To(p)
      /\ UNCHANGED <<ts, buf_data, lim, filp_pos, times, sensor>>
  BY DEF CopyToUser, At, Goto, DeviceTypeOK
<1> QED
  BY <1>1, <1>2, <1>3, <1>6, <1>7

(* A process that has its file for itself goes on in read. *)
LEMMA OwnStep ==
  ASSUME DeviceTypeOK, LockInv, CacheInv, OrderInv, NEW p \in Procs, Alone(p)',
         Takes(p) \/ Goes(p) \/ Fails(p) \/ \E n \in Counts : Read(p, n)
  PROVE  AtPlace(p)' /\ Advances(p)'
<1> USE DEF sensorVars, fileVars, procVars, notes
<1> DEFINE f == fileOf[p]
<1>1. /\ f \in Files /\ f_pos[p] \in Nat \ {0} /\ filp_pos[f] \in Nat \ {0} /\ ts[f] \in Nat
      /\ sensor.time \in Nat /\ pc \in [Procs -> Labels] /\ data[p] \in Measurements
      /\ f_pos \in [Procs -> Nat \ {0}] /\ last[f].to \in Nat
  BY DEF DeviceTypeOK, OrderInv
<1>2. UNCHANGED <<sensor, times, fileOf>> /\ hit \subseteq hit' /\ Alone(p)
  BY StepOfRead DEF Alone, OwnFile, Users
<1>3. AtPlace(p) /\ Advances(p)
  BY <1>2 DEF OrderInv
<1>4. CASE \E n \in Counts : Read(p, n)
  <2>1. /\ pc[p] = "idle" /\ pc'[p] = "down" /\ f_pos'[p] = filp_pos[f]
        /\ UNCHANGED <<last, filp_pos, lim, buf_data, ts>>
    BY <1>1, <1>4 DEF Read, At, Goto
  <2> QED
    BY <1>2, <1>3, <2>1 DEF AtPlace, Place, Advances, Refreshed, Refreshing
<1>5. CASE Lock(p)
  <2>1. /\ pc[p] = "down" /\ pc'[p] = IF f_pos[p] = 1 THEN "update" ELSE "copy"
        /\ UNCHANGED <<last, filp_pos, lim, buf_data, ts, f_pos>>
    BY <1>1, <1>5 DEF Lock, At, Goto
  <2> QED
    BY <1>2, <1>3, <2>1 DEF AtPlace, Place, Advances, Refreshed, Refreshing
<1>6. CASE LockInterrupted(p) \/ Fault(p)
  <2>1. /\ pc[p] \in {"down", "copy"} /\ pc'[p] = "idle"
        /\ UNCHANGED <<last, filp_pos, lim, buf_data, ts>>
    BY <1>1, <1>6 DEF LockInterrupted, Fault, At, Goto
  <2> QED
    BY <1>2, <1>3, <2>1 DEF AtPlace, Place, Advances, Refreshed, Refreshing
<1>7. CASE Unlock(p) \/ Queue(p) \/ Fresh(p) \/ Sleep(p) \/ Awake(p) \/ Relock(p)
  <2>1. /\ pc[p] \in Refreshing /\ pc'[p] \in {"wait", "check", "relock", "asleep", "spin"}
        /\ pc'[p] = "relock" => ts[f] # sensor.time
        /\ pc'[p] = "spin" => pc[p] = "relock"
        /\ pc[p] \notin {"grab", "format", "copy"}
        /\ UNCHANGED <<last, filp_pos, lim, buf_data, ts, f_pos>>
    BY <1>1, <1>7 DEF Unlock, Queue, Fresh, Sleep, Awake, Relock, At, Goto, NeedsRefresh, Refreshing
  <2>2. AtPlace(p)'
    BY <1>2, <1>3, <2>1 DEF AtPlace, Place, Refreshing
  <2>3. Advances(p)'
    BY <1>1, <1>2, <1>3, <2>1 DEF Advances, Refreshed
  <2> QED
    BY <2>2, <2>3
<1>8. CASE GrabTime(p)
  <2>1. /\ pc[p] = "spin" /\ pc'[p] = "grab" /\ ts'[f] = sensor.time
        /\ UNCHANGED <<last, filp_pos, lim, buf_data, f_pos>>
    BY <1>1, <1>8 DEF GrabTime, At, Goto, DeviceTypeOK
  <2>2. AtPlace(p)'
    BY <1>2, <1>3, <2>1 DEF AtPlace, Place, Refreshing
  <2>3. Advances(p)'
    <3>1. last[f].msr # NoText => /\ last[f].msr \in DOMAIN times
                                  /\ times[last[f].msr] <= ts[f] /\ ts[f] < sensor.time
      BY <1>3, <2>1 DEF Advances
    <3>2. last[f].msr # NoText => times[last[f].msr] \in Nat
      BY <3>1, ElementOfSeq, LenProperties DEF DeviceTypeOK
    <3>3. sensor.time > 0
      BY <1>1, <1>3, <2>1 DEF Advances
    <3> QED
      BY <1>1, <1>2, <2>1, <3>1, <3>2, <3>3 DEF Advances, Refreshed
  <2> QED
    BY <2>2, <2>3
<1>9. CASE GrabValue(p)
  <2>1. /\ pc[p] = "grab" /\ pc'[p] = "format" /\ UNCHANGED <<last, filp_pos, lim, buf_data, ts, f_pos>>
    BY <1>1, <1>9 DEF GrabValue, At, Goto
  <2> QED
    BY <1>2, <1>3, <2>1 DEF AtPlace, Place, Advances, Refreshed, Refreshing
<1>10. CASE Format(p)
  <2>1. /\ pc[p] = "format" /\ pc'[p] = "copy" /\ UNCHANGED <<last, filp_pos, ts, f_pos>>
        /\ buf_data'[f] = data[p] /\ lim'[f] = TextLen[data[p]]
    BY <1>1, <1>10 DEF Format, At, Goto, DeviceTypeOK
  <2>2. f_pos[p] = 1 /\ filp_pos[f] = 1
    BY <1>3, <2>1 DEF AtPlace, Refreshing
  <2>3. AtPlace(p)'
    BY <1>2, <1>3, <2>1, <2>2 DEF AtPlace, Place, Refreshing
  <2>4. Advances(p)'
    BY <1>2, <1>3, <2>1, <2>2 DEF Advances, Refreshed
  <2> QED
    BY <2>3, <2>4
<1>11. CASE CopyToUser(p)
  <2>1. /\ pc[p] = "copy" /\ pc'[p] = "up" /\ lim[f] \in Nat \ {0} /\ cnt[p] \in Nat
        /\ f_pos'[p] = IF f_pos[p] - 1 + cnt[p] >= lim[f] THEN 1 ELSE f_pos[p] + cnt[p]
        /\ To(p) = IF f_pos[p] - 1 + cnt[p] >= lim[f] THEN lim[f] ELSE f_pos[p] - 1 + cnt[p]
        /\ To(p) \in Nat /\ f_pos[p] - 1 <= To(p)
        /\ last'[f] = IF To(p) = f_pos[p] - 1 THEN last[f]
                      ELSE [msr |-> buf_data[f], from |-> f_pos[p] - 1, to |-> To(p)]
        /\ UNCHANGED <<ts, buf_data, lim, filp_pos>>
    BY <1>11, CopyEffect
  <2>2. f_pos[p] = filp_pos[f] /\ lim[f] = TextLen[buf_data[f]]
    BY <1>3, <2>1 DEF AtPlace
  <2>3. f_pos[p] = 1 => ts[f] > 0 /\ IsTimeOf(ts[f], buf_data[f])
    <3>1. f_pos[p] = 1 => ts[f] > 0
      BY <1>3, <2>1 DEF Advances, Refreshed
    <3>2. f \in opened /\ Private(f)
      BY <1>2 DEF Alone, Private
    <3>3. \A q \in Users(f) : q = p
      BY <1>2 DEF Alone, OwnFile, Users
    <3> QED
      BY <1>1, <2>1, <3>1, <3>2, <3>3 DEF CacheInv, BufferInv
  <2>4. AtPlace(p)'
    <3>1. Place(p)' = f_pos'[p] /\ Place(p) = f_pos[p]
      BY <2>1, <2>2 DEF Place
    <3>2. pc'[p] \notin Refreshing \cup {"down", "copy"}
      BY <2>1 DEF Refreshing
    <3>3. CASE To(p) = f_pos[p] - 1
      <4>1. cnt[p] = 0
        <5>1. CASE f_pos[p] - 1 + cnt[p] < lim[f]
          BY <1>1, <2>1, <3>3, <5>1
        <5>2. CASE f_pos[p] - 1 + cnt[p] >= lim[f]
          <6>1. lim[f] = f_pos[p] - 1 /\ f_pos[p] # 1
            BY <1>1, <2>1, <3>3, <5>2
          <6>2. last[f].to = f_pos[p] - 1 /\ last[f].to < lim[f]
            BY <1>3, <3>1, <6>1 DEF AtPlace
          <6> QED
            BY <1>1, <2>1, <6>1, <6>2
        <5> QED
          BY <1>1, <2>1, <5>1, <5>2
      <4>2. f_pos'[p] = f_pos[p] /\ last'[f] = last[f]
        <5>1. f_pos[p] - 1 < lim[f]
          <6>1. f_pos[p] # 1 => last[f].to = f_pos[p] - 1 /\ last[f].to < lim[f]
            BY <1>3, <3>1 DEF AtPlace
          <6> QED
            BY <1>1, <2>1, <6>1
        <5> QED
          BY <1>1, <2>1, <3>3, <4>1, <5>1
      <4> QED
        BY <1>2, <1>3, <2>1, <3>1, <3>2, <4>2 DEF AtPlace
    <3>4. CASE To(p) # f_pos[p] - 1
      <4>1. last'[f].msr = buf_data[f] /\ last'[f].to = To(p)
        BY <2>1, <3>4
      <4>2. buf_data[f] # NoText
        <5>1. CASE f_pos[p] = 1
          BY <2>3, <5>1, LenProperties DEF IsTimeOf, NoText, DeviceTypeOK
        <5>2. CASE f_pos[p] # 1
          BY <1>3, <3>1, <5>2 DEF AtPlace
        <5> QED
          BY <5>1, <5>2
      <4>3. CASE f_pos[p] - 1 + cnt[p] >= lim[f]
        BY <1>2, <2>1, <2>2, <3>1, <3>2, <4>1, <4>3 DEF AtPlace
      <4>4. CASE f_pos[p] - 1 + cnt[p] < lim[f]
        <5>1. f_pos'[p] = f_pos[p] + cnt[p] /\ To(p) = f_pos'[p] - 1 /\ f_pos'[p] # 1 /\ To(p) < lim[f]
          BY <1>1, <2>1, <3>4, <4>4
        <5> QED
          BY <1>2, <2>1, <2>2, <3>1, <3>2, <4>1, <4>2, <5>1 DEF AtPlace
      <4> QED
        BY <1>1, <2>1, <4>3, <4>4
    <3> QED
      BY <3>3, <3>4
  <2>5. Advances(p)'
    <3>1. CASE To(p) = f_pos[p] - 1
      BY <1>2, <1>3, <2>1, <3>1 DEF Advances, Refreshed
    <3>2. CASE To(p) # f_pos[p] - 1 /\ f_pos[p] = 1
      BY <1>1, <1>2, <1>3, <2>1, <2>3, <3>2 DEF Advances, Refreshed, IsTimeOf
    <3>3. CASE To(p) # f_pos[p] - 1 /\ f_pos[p] # 1
      <4>1. last'[f].msr = last[f].msr /\ last[f].msr # NoText
        BY <1>3, <2>1, <2>2, <3>3 DEF AtPlace, Place
      <4> QED
        BY <1>2, <1>3, <2>1, <4>1 DEF Advances, Refreshed
    <3> QED
      BY <3>1, <3>2, <3>3
  <2> QED
    BY <2>4, <2>5
<1>12. CASE LastUp(p)
  <2>1. /\ pc[p] = "up" /\ pc'[p] = "back" /\ UNCHANGED <<last, filp_pos, lim, buf_data, ts, f_pos>>
    BY <1>1, <1>12 DEF LastUp, At, Goto
  <2> QED
    BY <1>2, <1>3, <2>1 DEF AtPlace, Place, Advances, Refreshed, Refreshing
<1>13. CASE Return(p)
  <2>1. /\ pc[p] = "back" /\ pc'[p] = "idle" /\ filp_pos'[f] = f_pos[p]
        /\ UNCHANGED <<last, lim, buf_data, ts>>
    BY <1>1, <1>13 DEF Return, At, Goto, DeviceTypeOK
  <2> QED
    BY <1>2, <1>3, <2>1 DEF AtPlace, Place, Advances, Refreshed, Refreshing
<1>14. CASE WaitInterrupted(p) \/ RelockInterrupted(p)
  <2>1. f \in hit'
    BY <1>14 DEF WaitInterrupted, RelockInterrupted, Interrupted
  <2> QED
    BY <1>2, <2>1 DEF Alone
<1> QED
  BY <1>4, <1>5, <1>6, <1>7, <1>8, <1>9, <1>10, <1>11, <1>12, <1>13, <1>14 DEF Takes, Goes, Fails

(* A process goes on in read, and the others are where they were. *)
LEMMA ReadOrder ==
  ASSUME DeviceTypeOK, LockInv, CacheInv, OrderInv, NEW q \in Procs,
         Takes(q) \/ Goes(q) \/ Fails(q) \/ \E n \in Counts : Read(q, n)
  PROVE  OrderInv'
<1>1. /\ UNCHANGED <<sensor, times, opened, fileOf>> /\ hit \subseteq hit'
      /\ \A g \in Files \ {fileOf[q]} : /\ ts'[g] = ts[g] /\ buf_data'[g] = buf_data[g] /\ lim'[g] = lim[g]
                                        /\ last'[g] = last[g] /\ filp_pos'[g] = filp_pos[g]
      /\ \A p \in Procs \ {q} : pc'[p] = pc[p] /\ f_pos'[p] = f_pos[p]
      /\ CopyToUser(q) \/ UNCHANGED last
  BY StepOfRead
<1>2. last' \in [Files -> [msr : Measurements \cup {NoText}, from : Nat, to : Nat]]
  BY <1>1, CopyEffect DEF OrderInv
<1>3. (times # << >> => sensor.time <= Last(times))'
  BY <1>1 DEF OrderInv, Last
<1>4. ASSUME NEW p \in Procs, p # q, Alone(p)'
      PROVE  AtPlace(p)' /\ Advances(p)'
  <2>1. Alone(p) /\ fileOf[p] \in Files
    BY <1>1, <1>4 DEF Alone, OwnFile, Users, DeviceTypeOK
  <2>2. fileOf[p] # fileOf[q]
    BY <1>4, <2>1 DEF Alone, OwnFile, Users
  <2>3. AtPlace(p) /\ Advances(p)
    BY <2>1 DEF OrderInv
  <2>4. LET g == fileOf[p] IN
        /\ ts'[g] = ts[g] /\ buf_data'[g] = buf_data[g] /\ lim'[g] = lim[g] /\ last'[g] = last[g]
        /\ filp_pos'[g] = filp_pos[g] /\ pc'[p] = pc[p] /\ f_pos'[p] = f_pos[p] /\ fileOf'[p] = g
    BY <1>1, <1>4, <2>1, <2>2
  <2>5. AtPlace(p)'
    BY <2>3, <2>4 DEF AtPlace, Place
  <2>6. Advances(p)'
    BY <1>1, <2>3, <2>4 DEF Advances, Refreshed
  <2> QED
    BY <2>5, <2>6
<1> QED
  BY <1>2, <1>3, <1>4, OwnStep DEF OrderInv

LEMMA NextOrder ==
  ASSUME QuietOpens, DeviceTypeOK, LockInv, CacheInv, OrderInv, [DeviceNext]_deviceVars
  PROVE  OrderInv'
<1>1. CASE UNCHANGED deviceVars
  BY <1>1, OrderKept DEF deviceVars
<1> QED
  BY <1>1, UpdateOrder, OpenOrder, ReadOrder DEF DeviceNext

(* What one step gives to whoever has the file for himself. *)
InOrder ==
  \A f \in opened \cap opened' : (OwnFile(f) /\ f \notin hit' /\ last'[f] # last[f]) =>
    \/ last'[f].msr = last[f].msr /\ last'[f].from = last[f].to
    \/ /\ last'[f].from = 0
       /\ last[f].msr = NoText \/ /\ last[f].to = TextLen[last[f].msr]
                                  /\ times[last'[f].msr] > times[last[f].msr]

LEMMA StepInOrder ==
  ASSUME QuietOpens, DeviceTypeOK, LockInv, CacheInv, OrderInv, [DeviceNext]_deviceVars
  PROVE  InOrder
<1> USE DEF sensorVars, fileVars, procVars, notes
<1> SUFFICES ASSUME NEW f \in opened \cap opened', OwnFile(f), f \notin hit', last'[f] # last[f]
             PROVE  \/ last'[f].msr = last[f].msr /\ last'[f].from = last[f].to
                    \/ /\ last'[f].from = 0
                       /\ \/ last[f].msr = NoText
                          \/ /\ last[f].to = TextLen[last[f].msr]
                             /\ times[last'[f].msr] > times[last[f].msr]
  BY DEF InOrder
<1>1. f \in Files
  BY DEF DeviceTypeOK
<1>2. ~ UNCHANGED last
  OBVIOUS
<1>3. ~Update /\ ~UNCHANGED deviceVars
  BY <1>2 DEF Update, StoreValue, StoreTime, WakeSleepers, deviceVars
<1>4. \A g \in Files : ~Open(g) /\ ~Release(g)
  <2> SUFFICES ASSUME NEW g \in Files, Open(g) \/ Release(g)
               PROVE  FALSE
    OBVIOUS
  <2>1. g # f /\ Open(g)
    BY <1>2 DEF Open, Release
  <2> QED
    BY <1>1, <2>1 DEF Open, OrderInv
<1>5. PICK p \in Procs : Takes(p) \/ Goes(p) \/ Fails(p) \/ \E n \in Counts : Read(p, n)
  BY <1>3, <1>4 DEF DeviceNext
<1>6. CopyToUser(p) /\ fileOf[p] = f /\ UNCHANGED <<times, hit>>
  BY <1>1, <1>2, <1>5, StepOfRead, CopyEffect
<1>7. Alone(p)
  BY <1>6 DEF Alone
<1>8. AtPlace(p) /\ Advances(p)
  BY <1>7 DEF OrderInv
<1>9. /\ pc[p] = "copy" /\ f_pos[p] \in Nat \ {0}
      /\ last'[f] = [msr |-> buf_data[f], from |-> f_pos[p] - 1, to |-> To(p)]
      /\ last[f].to \in Nat /\ ts[f] \in Nat
  BY <1>1, <1>6, CopyEffect DEF OrderInv, DeviceTypeOK
<1>10. f_pos[p] = filp_pos[f] /\ Place(p) = f_pos[p]
  BY <1>6, <1>8, <1>9 DEF AtPlace, Place
<1>11. CASE f_pos[p] # 1
  <2>1. buf_data[f] = last[f].msr /\ last[f].to = f_pos[p] - 1
    BY <1>6, <1>8, <1>10, <1>11 DEF AtPlace
  <2> QED
    BY <1>9, <2>1
<1>12. CASE f_pos[p] = 1
  <2>1. last'[f].from = 0 /\ last'[f].msr = buf_data[f]
    BY <1>9, <1>12
  <2>2. last[f].msr = NoText \/ last[f].to = TextLen[last[f].msr]
    BY <1>6, <1>8, <1>10, <1>12 DEF AtPlace
  <2>3. IsTimeOf(ts[f], buf_data[f]) /\ ts[f] > 0
    <3>1. ts[f] > 0
      BY <1>6, <1>8, <1>9, <1>12 DEF Advances, Refreshed
    <3>2. Private(f) /\ \A q \in Users(f) : q = p
      BY <1>6 DEF Private, OwnFile, Users
    <3> QED
      BY <1>9, <3>1, <3>2 DEF CacheInv, BufferInv
  <2>4. last[f].msr # NoText => times[last[f].msr] < ts[f] /\ times[last[f].msr] \in Nat
    <3>1. last[f].msr # NoText => last[f].msr \in DOMAIN times /\ times[last[f].msr] < ts[f]
      BY <1>6, <1>8, <1>9, <1>12 DEF Advances, Refreshed
    <3> QED
      BY <3>1, ElementOfSeq, LenProperties DEF DeviceTypeOK
  <2> QED
    BY <2>1, <2>2, <2>3, <2>4 DEF IsTimeOf
<1> QED
  BY <1>11, <1>12

(* Whoever has a file for himself reads the text of a measurement from its *)
(* first byte to its last, then that of a later one, until a signal ends a *)
(* wait.  (lunix-chrdev.c:41-122, 234-297)                                 *)
THEOREM TextsInOrder ==
  ASSUME QuietOpens
  PROVE  DeviceSpec => ReadsInOrder
<1>1. DeviceTypeOK /\ LockInv /\ CacheInv /\ OrderInv /\ [DeviceNext]_deviceVars => OrderInv'
  BY NextOrder
<1>2. DeviceTypeOK /\ LockInv /\ CacheInv /\ [DeviceNext]_deviceVars => CacheInv'
  BY NextCache
<1>3. DeviceTypeOK /\ LockInv /\ CacheInv /\ OrderInv /\ [DeviceNext]_deviceVars => [InOrder]_deviceVars
  BY StepInOrder
<1>4. ReadsInOrder <=> [][InOrder]_deviceVars
  BY DEF ReadsInOrder, InOrder
<1>5. DeviceSpec => [][InOrder]_deviceVars
  BY <1>1, <1>2, <1>3, InitOrder, InitCache, LockInductive, SensorTypes, PTL DEF DeviceSpec
<1> QED
  BY <1>4, <1>5
=============================================================================
