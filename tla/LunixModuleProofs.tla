------------------------- MODULE LunixModuleProofs -------------------------
(***************************************************************************)
(* Proofs about LunixModule, for any number of sensors, processes and      *)
(* major numbers.                                                          *)
(***************************************************************************)
EXTENDS LunixModule, FiniteSetTheorems, TLAPS

LEMMA InitModule == ModuleInit => ModuleTypeOK
<1> SUFFICES ASSUME ModuleInit PROVE ModuleTypeOK
  OBVIOUS
<1>1. LastDevice \in Devices /\ 1 \in Msrs
  BY ModuleAssumption DEF LastDevice, Devices, Sensors, Msrs, N_LUNIX_MSR
<1>2. /\ up \in 0 .. SensorCnt /\ majors \in 0 .. Majors
      /\ msr_data \in [Sensors -> SUBSET Msrs] /\ mapped \in SUBSET Devices
  BY ModuleAssumption DEF ModuleInit
<1>3. call \in [Procs -> {"none", "init", "touch", "open"}] /\ dev \in [Procs -> Devices] /\ next \in [Procs -> Msrs]
  BY <1>1 DEF ModuleInit
<1> QED
  BY <1>2, <1>3 DEF ModuleInit, ModuleTypeOK

(* Every step keeps the types. *)
LEMMA StepModuleTypes == ModuleTypeOK /\ [ModuleNext]_moduleVars => ModuleTypeOK'
<1> SUFFICES ASSUME ModuleTypeOK, [ModuleNext]_moduleVars PROVE ModuleTypeOK'
  OBVIOUS
<1> USE ModuleAssumption DEF ModuleTypeOK
<1>1. CASE UNCHANGED moduleVars
  BY <1>1 DEF moduleVars, loadVars, openVars
<1>2. CASE Insmod
  BY <1>2 DEF Insmod, openVars
<1>3. CASE SensorInit
  <2>1. PICK n \in 0 .. N_LUNIX_MSR :
          /\ msr_data' = [msr_data EXCEPT ![up + 1] = 1 .. n]
          /\ IF Enough(n)
             THEN /\ up' = up + 1
                  /\ mod' = IF AllUp THEN "ldisc" ELSE "sensors"
                  /\ UNCHANGED leaky
             ELSE mod' = "undo" /\ leaky' = (leaky \/ n > 0) /\ UNCHANGED up
    BY <1>3 DEF SensorInit
  <2>2. 1 .. n \in SUBSET Msrs
    BY DEF Msrs, N_LUNIX_MSR
  <2>3. mod = "sensors" /\ UNCHANGED <<registered, taken, left, majors, mapped, openVars, oops>>
    BY <1>3 DEF SensorInit
  <2>4. msr_data' \in [Sensors -> SUBSET Msrs]
    BY <2>1, <2>2
  <2>5. /\ mod' \in {"out", "sensors", "ldisc", "chrdev", "in", "undoLdisc", "undo"}
        /\ up' \in 0 .. SensorCnt /\ (mod' = "sensors" => up' < SensorCnt)
    BY <2>1, <2>3 DEF AllUp
  <2>6. leaky' \in BOOLEAN
    BY <2>1
  <2> QED
    BY <2>3, <2>4, <2>5, <2>6 DEF openVars
<1>4. CASE LdiscInit \/ ChrdevFails \/ LdiscDestroy
  BY <1>4 DEF LdiscInit, ChrdevFails, LdiscDestroy, openVars
<1>5. CASE ChrdevInit
  BY <1>5 DEF ChrdevInit, openVars
<1>6. CASE UndoSensors
  <2>1. msr_data' \in [Sensors -> SUBSET Msrs]
    BY <1>6 DEF UndoSensors, Destroy
  <2>2. registered' \in {"no", "yes", "stale"}
    BY <1>6 DEF UndoSensors
  <2>3. taken' \in BOOLEAN /\ left' \in BOOLEAN
    BY <1>6 DEF UndoSensors
  <2>4. /\ mod' = "out" /\ up' \in 0 .. SensorCnt
        /\ UNCHANGED <<majors, mapped, call, dev, next, oops, leaky>>
    BY <1>6 DEF UndoSensors, openVars
  <2> QED
    BY <2>1, <2>2, <2>3, <2>4
<1>7. CASE Cleanup
  <2>1. mapped \ {LastDevice} \in SUBSET Devices
    OBVIOUS
  <2>2. mapped' \in SUBSET Devices
    BY <1>7, <2>1 DEF Cleanup
  <2>3. msr_data' \in [Sensors -> SUBSET Msrs]
    BY <1>7 DEF Cleanup, Destroy
  <2>4. /\ mod' = "out" /\ up' = 0 /\ registered' = "no"
        /\ UNCHANGED <<taken, left, majors, call, dev, next, oops, leaky>>
    BY <1>7 DEF Cleanup, openVars
  <2>5. up' \in 0 .. SensorCnt
    BY <2>4
  <2> QED
    BY <2>2, <2>3, <2>4, <2>5
<1>8. CASE Attach \/ Detach \/ LeftFaults
  BY <1>8 DEF Attach, Detach, LeftFaults, loadVars, openVars
<1>9. ASSUME NEW s \in Sensors, UpdateFaults(s) PROVE ModuleTypeOK'
  BY <1>9 DEF UpdateFaults, loadVars, openVars
<1>10. ASSUME NEW p \in Procs, NEW d \in Devices, OpenDevice(p, d) PROVE ModuleTypeOK'
  <2>1. d[1] \in Sensors /\ 1 \in Msrs
    BY DEF Devices, Msrs, N_LUNIX_MSR
  <2> QED
    BY <1>10, <2>1 DEF OpenDevice, loadVars, openVars
<1>11. ASSUME NEW p \in Procs, GetPage(p) PROVE ModuleTypeOK'
  <2>1. SensorOf(p) \in Sensors /\ next[p] \in Msrs
    BY DEF SensorOf, Devices
  <2>2. next[p] # N_LUNIX_MSR => next[p] + 1 \in Msrs
    BY <2>1 DEF Msrs, N_LUNIX_MSR
  <2>3. msr_data' \in [Sensors -> SUBSET Msrs]
    BY <1>11, <2>1 DEF GetPage
  <2> QED
    BY <1>11, <2>2, <2>3 DEF GetPage, loadVars
<1>12. ASSUME NEW p \in Procs, NoPage(p) \/ Touch(p) \/ ReadFaults(p) \/ Close(p)
       PROVE  ModuleTypeOK'
  BY <1>12 DEF NoPage, Touch, ReadFaults, Close, loadVars, openVars
<1> QED
  BY <1>1, <1>2, <1>3, <1>4, <1>5, <1>6, <1>7, <1>8, <1>9, <1>10, <1>11, <1>12 DEF ModuleNext

(* Every variable of the module's life keeps its type: i of                *)
(* lunix_sensor_init and si_done stay in their arrays.                     *)
(* (lunix-module.c:50-57, lunix-sensors.c:46-57)                           *)
THEOREM ModuleTypes == ModuleSpec => []ModuleTypeOK
  BY InitModule, StepModuleTypes, PTL DEF ModuleSpec

-----------------------------------------------------------------------------
LEMMA InitPages == ModuleInit => PagesInv
  BY DEF ModuleInit, PagesInv

(* Every step that does not end in an oops keeps the invariant.            *)
LEMMA StepPages ==
  ModuleTypeOK /\ PagesInv /\ [ModuleNext]_moduleVars /\ (oops' => oops) => PagesInv'
<1> SUFFICES ASSUME ModuleTypeOK, PagesInv, [ModuleNext]_moduleVars, oops' => oops PROVE PagesInv'
  OBVIOUS
<1> USE ModuleAssumption DEF ModuleTypeOK
<1>1. CASE UNCHANGED moduleVars
  BY <1>1 DEF moduleVars, loadVars, openVars, PagesInv, Complete, Fills, SensorOf
<1>2. CASE Insmod
  BY <1>2 DEF Insmod, openVars, PagesInv, Complete
<1>3. CASE SensorInit
  BY <1>3 DEF SensorInit, AllUp, Enough, openVars, PagesInv, Complete, Sensors, Msrs, N_LUNIX_MSR
<1>4. CASE LdiscInit \/ ChrdevFails \/ LdiscDestroy
  BY <1>4 DEF LdiscInit, ChrdevFails, LdiscDestroy, openVars, PagesInv, Complete
<1>5. CASE ChrdevInit
  BY <1>5 DEF ChrdevInit, openVars, PagesInv, Complete
<1>6. CASE UndoSensors \/ Cleanup
  BY <1>6 DEF UndoSensors, Cleanup, openVars, PagesInv
<1>7. CASE Attach \/ Detach \/ LeftFaults
  BY <1>7 DEF Attach, Detach, LeftFaults, loadVars, openVars, PagesInv, Complete, Fills, SensorOf
<1>8. ASSUME NEW s \in Sensors, UpdateFaults(s), ~oops PROVE FALSE
  BY <1>8 DEF UpdateFaults
<1>9. ASSUME NEW p \in Procs, NEW d \in Devices, OpenDevice(p, d), ~oops PROVE PagesInv'
  <2>1. /\ mod = "in" /\ d[1] \in Sensors
        /\ call' = [call EXCEPT ![p] = "init"] /\ dev' = [dev EXCEPT ![p] = d]
        /\ next' = [next EXCEPT ![p] = 1] /\ msr_data' = [msr_data EXCEPT ![d[1]] = {}]
        /\ UNCHANGED <<mod, registered, taken>> /\ call[p] = "none"
    BY <1>9 DEF OpenDevice, loadVars, Devices
  <2>2. ASSUME NEW s \in Sensors, NEW m \in Msrs
        PROVE  m \in msr_data'[s] \/ \E q \in Procs : Fills(q, s, m)'
    <3>1. CASE s = d[1]
      <4>1. Fills(p, s, m)'
        BY <2>1, <3>1 DEF Fills, SensorOf, Msrs
      <4> QED
        BY <4>1
    <3>2. CASE s # d[1] /\ m \notin msr_data[s]
      <4>1. PICK q \in Procs : Fills(q, s, m)
        BY <2>1, <3>2 DEF PagesInv
      <4>2. q # p
        BY <2>1, <4>1 DEF Fills
      <4>3. Fills(q, s, m)'
        BY <2>1, <4>1, <4>2 DEF Fills, SensorOf
      <4> QED
        BY <4>3
    <3>3. CASE s # d[1] /\ m \in msr_data[s]
      BY <2>1, <3>3
    <3> QED
      BY <3>1, <3>2, <3>3
  <2> QED
    BY <2>1, <2>2 DEF PagesInv
<1>10. ASSUME NEW p \in Procs, GetPage(p) PROVE PagesInv'
  <2>1. /\ call[p] = "init" /\ mod = "in" /\ next[p] \in Msrs
        /\ msr_data' = [msr_data EXCEPT ![SensorOf(p)] = @ \cup {next[p]}]
        /\ \/ call' = [call EXCEPT ![p] = "touch"] /\ UNCHANGED next
           \/ next' = [next EXCEPT ![p] = @ + 1] /\ UNCHANGED call
        /\ UNCHANGED <<mod, registered, taken, dev>> /\ SensorOf(p) \in Sensors
    BY <1>10 DEF GetPage, loadVars, PagesInv, SensorOf, Devices
  <2>2. ASSUME NEW s \in Sensors, NEW m \in Msrs
        PROVE  m \in msr_data'[s] \/ \E q \in Procs : Fills(q, s, m)'
    <3>1. CASE m \in msr_data[s]
      BY <2>1, <3>1
    <3>2. CASE m \notin msr_data[s]
      <4>1. PICK q \in Procs : Fills(q, s, m)
        BY <2>1, <3>2 DEF PagesInv
      <4>2. CASE q # p
        <5>1. Fills(q, s, m)'
          BY <2>1, <4>1, <4>2 DEF Fills, SensorOf
        <5> QED
          BY <5>1
      <4>3. CASE q = p /\ m = next[p]
        BY <2>1, <4>1, <4>3 DEF Fills
      <4>4. CASE q = p /\ m # next[p]
        <5>1. Fills(p, s, m)'
          BY <2>1, <4>1, <4>4 DEF Fills, SensorOf, Msrs
        <5> QED
          BY <5>1
      <4> QED
        BY <4>2, <4>3, <4>4
    <3> QED
      BY <3>1, <3>2
  <2>3. \A q \in Procs : call'[q] # "none" => mod' = "in"
    BY <2>1
  <2> QED
    BY <2>1, <2>2, <2>3 DEF PagesInv
<1>11. ASSUME NEW p \in Procs, NoPage(p) PROVE PagesInv'
  <2>1. /\ call[p] = "init" /\ mod = "in" /\ call' = [call EXCEPT ![p] = "touch"]
        /\ UNCHANGED <<mod, registered, taken, dev, next, msr_data>>
    BY <1>11 DEF NoPage, loadVars, PagesInv
  <2>2. \A q \in Procs, s \in Sensors, m \in Msrs : Fills(q, s, m) => Fills(q, s, m)'
    BY <2>1 DEF Fills, SensorOf
  <2> QED
    BY <2>1, <2>2 DEF PagesInv
<1>12. ASSUME NEW p \in Procs, Touch(p), ~oops PROVE PagesInv'
  <2>1. /\ call[p] = "touch" /\ mod = "in" /\ call' = [call EXCEPT ![p] = "open"]
        /\ UNCHANGED <<mod, registered, taken, dev, next, msr_data>> /\ Complete(SensorOf(p))
    BY <1>12 DEF Touch, loadVars, PagesInv
  <2>2. \A q \in Procs, s \in Sensors, m \in Msrs :
          (Fills(q, s, m) /\ m \notin msr_data[s]) => Fills(q, s, m)'
    BY <2>1 DEF Fills, SensorOf, Complete
  <2> QED
    BY <2>1, <2>2 DEF PagesInv
<1>13. ASSUME NEW p \in Procs, ReadFaults(p), ~oops PROVE FALSE
  BY <1>13 DEF ReadFaults
<1>14. ASSUME NEW p \in Procs, Close(p) PROVE PagesInv'
  <2>1. /\ call[p] = "open" /\ mod = "in" /\ call' = [call EXCEPT ![p] = "none"]
        /\ UNCHANGED <<mod, registered, taken, dev, next, msr_data>>
    BY <1>14 DEF Close, loadVars, PagesInv
  <2>2. \A q \in Procs, s \in Sensors, m \in Msrs : Fills(q, s, m) => Fills(q, s, m)'
    BY <2>1 DEF Fills, SensorOf
  <2> QED
    BY <2>1, <2>2 DEF PagesInv
<1> QED
  BY <1>1, <1>2, <1>3, <1>4, <1>5, <1>6, <1>7, <1>8, <1>9, <1>10, <1>11, <1>12, <1>13, <1>14
  DEF ModuleNext

(* The invariant holds until the kernel goes wrong. *)
Good == ~oops => PagesInv

LEMMA GoodAlways == ModuleSpec => [](ModuleTypeOK /\ Good)
<1>1. ModuleInit => Good
  BY InitPages DEF Good
<1>2. ModuleTypeOK /\ Good /\ [ModuleNext]_moduleVars => Good'
  <2> SUFFICES ASSUME ModuleTypeOK, Good, [ModuleNext]_moduleVars PROVE Good'
    OBVIOUS
  <2>1. CASE UNCHANGED moduleVars
    <3>1. oops' = oops
      BY <2>1 DEF moduleVars
    <3> QED
      BY <3>1, StepPages DEF Good
  <2>2. CASE ModuleNext
    <3>1. ~oops
      BY <2>2 DEF ModuleNext
    <3> QED
      BY <3>1, StepPages DEF Good
  <2> QED
    BY <2>1, <2>2
<1> QED
  BY <1>1, <1>2, InitModule, StepModuleTypes, PTL DEF ModuleSpec

LEMMA InvPagesThere == ModuleTypeOK /\ Good => PagesThere
<1> SUFFICES ASSUME ModuleTypeOK, Good, registered = "yes", ~oops,
                    NEW s \in Sensors, ~Complete(s)
             PROVE  \E p \in Procs : Opening(p) /\ SensorOf(p) = s
  BY DEF PagesThere
<1>1. PagesInv
  BY DEF Good
<1>2. mod = "in"
  BY <1>1 DEF PagesInv
<1>3. PICK m \in Msrs : m \notin msr_data[s]
  BY DEF Complete, ModuleTypeOK
<1>4. PICK p \in Procs : Fills(p, s, m)
  BY <1>1, <1>2, <1>3 DEF PagesInv
<1> QED
  BY <1>4 DEF Fills, Opening

(* While the discipline is registered by a module that is there, a page is *)
(* missing from a sensor only while somebody is opening one of its devices, *)
(* however many do.  (lunix-sensors.c:46-57, lunix-chrdev.c:166)           *)
THEOREM PagesAlwaysThere == ModuleSpec => []PagesThere
  BY GoodAlways, InvPagesThere, PTL

(* The kernel goes wrong only while a device is being opened, or by what a *)
(* load before has left behind.  (lunix-chrdev.c:166-169, 380)             *)
THEOREM OopsNeedsCause == ModuleSpec => OopsHasCause
<1> DEFINE Cause == \/ \E p \in Procs : Opening(p)
                    \/ mod # "in" /\ mapped # {}
                    \/ left \/ registered = "stale"
<1>1. ModuleTypeOK /\ Good /\ [ModuleNext]_moduleVars => [(oops' /\ ~oops) => Cause]_moduleVars
  <2> SUFFICES ASSUME ModuleTypeOK, Good, ModuleNext, oops', ~oops PROVE Cause
    BY DEF moduleVars
  <2>1. PagesInv /\ PagesThere
    BY InvPagesThere DEF Good
  <2>2. CASE \/ Insmod \/ SensorInit \/ LdiscInit \/ ChrdevInit \/ ChrdevFails
             \/ LdiscDestroy \/ UndoSensors \/ Cleanup
    BY <2>2 DEF Insmod, SensorInit, LdiscInit, ChrdevInit, ChrdevFails, LdiscDestroy, UndoSensors, Cleanup
  <2>3. CASE Attach \/ Detach \/ LeftFaults
    BY <2>3 DEF Attach, Detach, LeftFaults
  <2>4. ASSUME NEW s \in Sensors, UpdateFaults(s) PROVE Cause
    <3>1. registered = "yes" /\ ~Complete(s)
      BY <2>1, <2>4 DEF UpdateFaults, PagesInv
    <3> QED
      BY <2>1, <3>1 DEF PagesThere
  <2>5. ASSUME NEW p \in Procs, NEW d \in Devices, OpenDevice(p, d) PROVE Cause
    BY <2>5 DEF OpenDevice
  <2>6. ASSUME NEW p \in Procs, GetPage(p) \/ NoPage(p) \/ Close(p) PROVE FALSE
    BY <2>6 DEF GetPage, NoPage, Close
  <2>7. ASSUME NEW p \in Procs, Touch(p) PROVE Cause
    BY <2>7 DEF Touch, Opening
  <2>8. ASSUME NEW p \in Procs, ReadFaults(p) PROVE Cause
    <3>1. call[p] = "open" /\ mod = "in" /\ dev[p][2] \notin msr_data[SensorOf(p)]
      BY <2>1, <2>8 DEF ReadFaults, PagesInv
    <3>2. SensorOf(p) \in Sensors /\ dev[p][2] \in Msrs
      BY DEF ModuleTypeOK, SensorOf, Devices
    <3>3. ~Complete(SensorOf(p))
      BY <3>1, <3>2 DEF Complete
    <3> QED
      BY <2>1, <3>1, <3>2, <3>3 DEF PagesThere, PagesInv
  <2> QED
    BY <2>2, <2>3, <2>4, <2>5, <2>6, <2>7, <2>8 DEF ModuleNext
<1> QED
  BY <1>1, GoodAlways, PTL DEF ModuleSpec, OopsHasCause

-----------------------------------------------------------------------------
(***************************************************************************)
(* The pages.                                                              *)
(***************************************************************************)
(* No sensor has a page that was not got; and as long as nothing has been  *)
(* lost, every page got is one a sensor that is set up has.                *)
GiveInv ==
  /\ pages \in Int /\ Cardinality(PagesOf(Sensors)) <= pages
  /\ \A p \in Procs : call[p] # "none" => mod = "in" /\ leaky
  /\ mod = "out" => \A s \in Sensors : msr_data[s] = {}
  /\ mod \in {"ldisc", "chrdev", "in", "undoLdisc"} => up = SensorCnt
  /\ ~leaky => /\ pages = Cardinality(PagesOf(Sensors))
               /\ \A s \in Sensors : s > up => msr_data[s] = {}

LEMMA DevicesFinite ==
  /\ IsFiniteSet(Devices)
  /\ \A S : S \in SUBSET Devices => IsFiniteSet(S) /\ Cardinality(S) \in Nat
<1>1. IsFiniteSet(Sensors) /\ IsFiniteSet(Msrs)
  <2>1. 1 \in Int /\ 3 \in Int /\ SensorCnt \in Int
    BY ModuleAssumption
  <2>2. IsFiniteSet(1 .. SensorCnt) /\ IsFiniteSet(1 .. 3)
    BY <2>1, FS_Interval
  <2> QED
    BY <2>2 DEF Sensors, Msrs, N_LUNIX_MSR
<1>2. IsFiniteSet(Devices)
  BY <1>1, FS_Product DEF Devices
<1> QED
  BY <1>2, FS_Subset, FS_CardinalityType

(* One sensor's pages are other pages than another's. *)
LEMMA PagesType ==
  ASSUME NEW S \in SUBSET Sensors
  PROVE  PagesOf(S) \in SUBSET Devices /\ PagesOf(S) \in SUBSET PagesOf(Sensors)
  BY DEF PagesOf, Devices

(* Pages that are had by no sensor do not count. *)
LEMMA PagesCounted ==
  ASSUME NEW S \in SUBSET Sensors
  PROVE  /\ IsFiniteSet(PagesOf(S)) /\ Cardinality(PagesOf(S)) \in Nat
         /\ Cardinality(PagesOf(S)) <= Cardinality(PagesOf(Sensors))
<1>1. IsFiniteSet(PagesOf(Sensors)) /\ IsFiniteSet(PagesOf(S)) /\ Cardinality(PagesOf(S)) \in Nat
  BY PagesType, DevicesFinite
<1> QED
  BY <1>1, PagesType, FS_Subset

(* lunix_sensor_destroy gives back no more than there is, and all of it if *)
(* the sensors it leaves out have nothing.                                 *)
LEMMA DestroyGives ==
  ASSUME GiveInv, NEW S \in SUBSET Sensors, Destroy(S),
         ~leaky => \A s \in Sensors \ S : msr_data[s] = {}
  PROVE  /\ pages' \in Int /\ PagesOf(Sensors)' = {} /\ Cardinality(PagesOf(Sensors)') = 0
         /\ pages' >= 0 /\ (~leaky => pages' = 0)
         /\ \A s \in Sensors : msr_data'[s] = {}
<1>1. /\ Cardinality(PagesOf(S)) \in Nat /\ Cardinality(PagesOf(Sensors)) \in Nat
      /\ Cardinality(PagesOf(S)) <= Cardinality(PagesOf(Sensors))
  BY PagesCounted
<1>2. pages \in Int /\ Cardinality(PagesOf(Sensors)) <= pages
      /\ (~leaky => pages = Cardinality(PagesOf(Sensors)))
  BY DEF GiveInv
<1>3. ~leaky => PagesOf(S) = PagesOf(Sensors)
  BY DEF PagesOf
<1>4. pages' = pages - Cardinality(PagesOf(S)) /\ \A s \in Sensors : msr_data'[s] = {}
  BY DEF Destroy
<1>5. PagesOf(Sensors)' = {}
  BY <1>4 DEF PagesOf
<1> HIDE DEF PagesOf
<1> QED
  BY <1>1, <1>2, <1>3, <1>4, <1>5, FS_EmptySet

(* A page more. *)
LEMMA PagesAdded ==
  ASSUME NEW N \in SUBSET Devices, PagesOf(Sensors)' \in SUBSET (PagesOf(Sensors) \cup N)
  PROVE  /\ Cardinality(PagesOf(Sensors)') \in Nat /\ Cardinality(PagesOf(Sensors)) \in Nat
         /\ Cardinality(N) \in Nat
         /\ Cardinality(PagesOf(Sensors)') <= Cardinality(PagesOf(Sensors)) + Cardinality(N)
         /\ (PagesOf(Sensors)' = PagesOf(Sensors) \cup N /\ PagesOf(Sensors) \cap N = {}) =>
              Cardinality(PagesOf(Sensors)') = Cardinality(PagesOf(Sensors)) + Cardinality(N)
<1> DEFINE A == PagesOf(Sensors)
           B == PagesOf(Sensors)'
<1>1. A \in SUBSET Devices
  BY PagesType
<1> HIDE DEF A, B
<1>2. /\ IsFiniteSet(A) /\ IsFiniteSet(N) /\ IsFiniteSet(A \cup N) /\ IsFiniteSet(A \cap N)
      /\ Cardinality(A) \in Nat /\ Cardinality(N) \in Nat /\ Cardinality(A \cap N) \in Nat
      /\ Cardinality(A \cup N) \in Nat
  BY <1>1, DevicesFinite
<1>3. Cardinality(A \cup N) = Cardinality(A) + Cardinality(N) - Cardinality(A \cap N)
  BY <1>2, FS_Union
<1>4. B \in SUBSET (A \cup N)
  BY DEF A, B
<1>5. Cardinality(B) \in Nat /\ Cardinality(B) <= Cardinality(A \cup N)
  BY <1>2, <1>4, FS_Subset, FS_CardinalityType
<1>6. A \cap N = {} => Cardinality(A \cap N) = 0
  BY FS_EmptySet
<1>7. (B = A \cup N /\ A \cap N = {}) => Cardinality(B) = Cardinality(A) + Cardinality(N)
  BY <1>2, <1>3, <1>6
<1> QED
  BY <1>2, <1>3, <1>5, <1>7 DEF A, B

LEMMA InitGive == ModuleInit => GiveInv
<1> SUFFICES ASSUME ModuleInit PROVE GiveInv
  OBVIOUS
<1>1. PagesOf(Sensors) = {}
  BY DEF ModuleInit, PagesOf
<1>2. Cardinality(PagesOf(Sensors)) = 0
  BY <1>1, FS_EmptySet
<1> QED
  BY <1>2 DEF ModuleInit, GiveInv

LEMMA GiveKept ==
  ASSUME GiveInv, UNCHANGED <<pages, msr_data, leaky>>,
         \A p \in Procs : call'[p] # "none" => call[p] # "none" /\ mod' = mod,
         mod' = "out" => mod = "out",
         mod' \in {"ldisc", "chrdev", "in", "undoLdisc"} => up' = SensorCnt,
         \A s \in Sensors : s > up' => s > up \/ (mod = "out" /\ ~leaky)
  PROVE  GiveInv'
<1>1. PagesOf(Sensors)' = PagesOf(Sensors)
  BY DEF PagesOf
<1> HIDE DEF PagesOf
<1> QED
  BY <1>1 DEF GiveInv

LEMMA StepGive ==
  ASSUME ModuleTypeOK, GiveInv, [ModuleNext]_moduleVars
  PROVE  GiveInv'
<1> USE ModuleAssumption DEF loadVars, openVars
<1>0. /\ up \in 0 .. SensorCnt /\ SensorCnt \in Nat \ {0} /\ (mod = "sensors" => up < SensorCnt)
      /\ msr_data \in [Sensors -> SUBSET Msrs]
      /\ call \in [Procs -> {"none", "init", "touch", "open"}]
      /\ dev \in [Procs -> Devices] /\ next \in [Procs -> Msrs]
  BY DEF ModuleTypeOK
<1>1. CASE UNCHANGED moduleVars
  BY <1>1, GiveKept DEF moduleVars, GiveInv
<1>2. CASE Insmod
  <2>1. /\ mod = "out" /\ mod' = "sensors" /\ up' = 0
        /\ UNCHANGED <<pages, msr_data, leaky, call>>
    BY <1>2 DEF Insmod
  <2>2. PagesOf(Sensors)' = PagesOf(Sensors)
    BY <2>1 DEF PagesOf
  <2> HIDE DEF PagesOf
  <2> QED
    BY <2>1, <2>2 DEF GiveInv
<1>3. CASE SensorInit
  <2>1. PICK n \in 0 .. N_LUNIX_MSR :
          /\ msr_data' = [msr_data EXCEPT ![up + 1] = 1 .. n] /\ pages' = pages + n
          /\ IF Enough(n)
             THEN /\ up' = up + 1
                  /\ mod' = IF AllUp THEN "ldisc" ELSE "sensors"
                  /\ UNCHANGED leaky
             ELSE mod' = "undo" /\ leaky' = (leaky \/ n > 0) /\ UNCHANGED up
    BY <1>3 DEF SensorInit
  <2>2. mod = "sensors" /\ call' = call
    BY <1>3 DEF SensorInit
  <2> DEFINE N == {up + 1} \X (1 .. n)
  <2>3. up + 1 \in Sensors /\ n \in 0 .. 3 /\ 1 .. n \in SUBSET Msrs
    BY <1>0, <2>2 DEF Sensors, Msrs, N_LUNIX_MSR
  <2>4. N \in SUBSET Devices /\ Cardinality(N) = n
    <3>1. N \in SUBSET Devices
      BY <2>3 DEF Devices
    <3>2. /\ IsFiniteSet({up + 1}) /\ Cardinality({up + 1}) = 1
          /\ IsFiniteSet(1 .. n) /\ Cardinality(1 .. n) = n
      <4>1. IsFiniteSet({up + 1}) /\ Cardinality({up + 1}) = 1
        BY FS_Singleton
      <4>2. 1 \in Int /\ n \in Int
        BY <2>3
      <4>3. IsFiniteSet(1 .. n) /\ Cardinality(1 .. n) = IF 1 > n THEN 0 ELSE n - 1 + 1
        BY <4>2, FS_Interval
      <4> QED
        BY <2>3, <4>1, <4>3
    <3>3. Cardinality(N) = 1 * n
      BY <3>2, FS_Product
    <3> QED
      BY <2>3, <3>1, <3>3
  <2>5. /\ msr_data'[up + 1] = 1 .. n
        /\ \A s \in Sensors : s # up + 1 => msr_data'[s] = msr_data[s]
    BY <1>0, <2>1, <2>3
  <2>6. PagesOf(Sensors)' \in SUBSET (PagesOf(Sensors) \cup N)
    BY <2>5 DEF PagesOf
  <2>7. ~leaky => PagesOf(Sensors)' = PagesOf(Sensors) \cup N /\ PagesOf(Sensors) \cap N = {}
    <3>1. ~leaky => msr_data[up + 1] = {}
      BY <1>0, <2>3 DEF GiveInv
    <3> QED
      BY <2>3, <2>5, <3>1 DEF PagesOf
  <2> HIDE DEF N
  <2>8. /\ Cardinality(PagesOf(Sensors)') \in Nat /\ Cardinality(PagesOf(Sensors)) \in Nat
        /\ Cardinality(PagesOf(Sensors)') <= Cardinality(PagesOf(Sensors)) + n
        /\ ~leaky => Cardinality(PagesOf(Sensors)') = Cardinality(PagesOf(Sensors)) + n
    BY <2>4, <2>6, <2>7, PagesAdded
  <2>9. /\ pages' \in Int /\ Cardinality(PagesOf(Sensors)') <= pages'
        /\ ~leaky => pages' = Cardinality(PagesOf(Sensors)')
    BY <2>1, <2>3, <2>8 DEF GiveInv
  <2>10. \A p \in Procs : call'[p] = "none"
    BY <1>0, <2>2 DEF GiveInv
  <2>11. leaky => leaky'
    BY <2>1
  <2>12. /\ mod' \in {"ldisc", "sensors", "undo"} /\ (mod' = "ldisc" => up' = SensorCnt)
         /\ up' \in 0 .. SensorCnt
    BY <1>0, <2>1, <2>2 DEF AllUp
  <2>13. ASSUME ~leaky', NEW s \in Sensors, s > up' PROVE msr_data'[s] = {}
    <3>1. s \in Nat /\ up \in Nat /\ ~leaky
      BY <1>0, <2>11, <2>13 DEF Sensors
    <3>2. CASE Enough(n)
      <4>1. s # up + 1 /\ s > up
        BY <2>1, <2>13, <3>1, <3>2
      <4> QED
        BY <2>5, <3>1, <4>1 DEF GiveInv
    <3>3. CASE ~Enough(n)
      <4>1. up' = up /\ n = 0
        <5>1. up' = up /\ leaky' = (leaky \/ n > 0)
          BY <2>1, <3>3
        <5>2. ~(n > 0)
          BY <2>13, <5>1
        <5> QED
          BY <2>3, <5>1, <5>2
      <4>2. s # up + 1 => msr_data'[s] = {}
        BY <2>5, <2>13, <3>1, <4>1 DEF GiveInv
      <4>3. msr_data'[up + 1] = {}
        BY <2>5, <4>1
      <4> QED
        BY <4>2, <4>3
    <3> QED
      BY <3>2, <3>3
  <2> HIDE DEF PagesOf
  <2> QED
    BY <2>9, <2>10, <2>11, <2>12, <2>13 DEF GiveInv
<1>4. CASE LdiscInit \/ ChrdevInit \/ ChrdevFails \/ LdiscDestroy
  <2>1. /\ mod \in {"ldisc", "chrdev", "undoLdisc"} /\ mod' \in {"chrdev", "in", "undoLdisc", "undo"}
        /\ UNCHANGED <<pages, msr_data, leaky, call, up>>
    BY <1>4 DEF LdiscInit, ChrdevInit, ChrdevFails, LdiscDestroy
  <2>2. \A p \in Procs : call[p] = "none"
    BY <1>0, <2>1 DEF GiveInv
  <2> QED
    BY <2>1, <2>2, GiveKept DEF GiveInv
<1>5. CASE UndoSensors \/ Cleanup
  <2>1. PICK S \in SUBSET Sensors : Destroy(S) /\ S \in {Initialised, Sensors}
    BY <1>0, <1>5 DEF UndoSensors, Cleanup, Initialised, Sensors
  <2>2. \A s \in Sensors : s \notin S => s > up
    BY <1>0, <2>1 DEF Initialised, Sensors
  <2>3. ~leaky => \A s \in Sensors \ S : msr_data[s] = {}
    BY <2>2 DEF GiveInv
  <2>4. /\ pages' \in Int /\ Cardinality(PagesOf(Sensors)') = 0
        /\ pages' >= 0 /\ (~leaky => pages' = 0)
        /\ \A s \in Sensors : msr_data'[s] = {}
    BY <2>1, <2>3, DestroyGives
  <2>5. mod' = "out" /\ UNCHANGED <<leaky, call>> /\ mod \in {"undo", "in"}
    BY <1>5 DEF UndoSensors, Cleanup
  <2>6. \A p \in Procs : call[p] = "none"
    BY <1>0, <1>5 DEF UndoSensors, Cleanup, GiveInv
  <2> HIDE DEF PagesOf
  <2> QED
    BY <2>4, <2>5, <2>6 DEF GiveInv
<1>6. CASE Attach \/ Detach \/ LeftFaults
  BY <1>6, GiveKept DEF Attach, Detach, LeftFaults, GiveInv
<1>7. ASSUME NEW s \in Sensors, UpdateFaults(s) PROVE GiveInv'
  BY <1>7, GiveKept DEF UpdateFaults, GiveInv
<1>8. ASSUME NEW p \in Procs, NEW d \in Devices, OpenDevice(p, d) PROVE GiveInv'
  <2>1. CASE mod # "in"
    BY <1>8, <2>1, GiveKept DEF OpenDevice, GiveInv
  <2>2. CASE mod = "in"
    <3>1. /\ msr_data' = [msr_data EXCEPT ![d[1]] = {}] /\ leaky' /\ mod' = "in"
          /\ up' = up /\ pages' = pages
      BY <1>8, <2>2 DEF OpenDevice
    <3>2. PagesOf(Sensors)' \in SUBSET PagesOf(Sensors)
      BY <1>0, <3>1 DEF PagesOf
    <3>3. /\ Cardinality(PagesOf(Sensors)') <= Cardinality(PagesOf(Sensors))
          /\ Cardinality(PagesOf(Sensors)') \in Nat /\ Cardinality(PagesOf(Sensors)) \in Nat
      <4> DEFINE B == PagesOf(Sensors)'
      <4>1. B \in SUBSET PagesOf(Sensors)
        BY <3>2
      <4>2. IsFiniteSet(PagesOf(Sensors)) /\ Cardinality(PagesOf(Sensors)) \in Nat
        BY PagesCounted
      <4> HIDE DEF B, PagesOf
      <4>3. IsFiniteSet(B) /\ Cardinality(B) <= Cardinality(PagesOf(Sensors))
        BY <4>1, <4>2, FS_Subset
      <4>4. Cardinality(B) \in Nat
        BY <4>3, FS_CardinalityType
      <4> QED
        BY <4>2, <4>3, <4>4 DEF B
    <3> HIDE DEF PagesOf
    <3> QED
      BY <2>2, <3>1, <3>3 DEF GiveInv
  <2> QED
    BY <2>1, <2>2
<1>9. ASSUME NEW p \in Procs, GetPage(p) PROVE GiveInv'
  <2>1. /\ call[p] = "init" /\ UNCHANGED <<mod, up, leaky>> /\ pages' = pages + 1
        /\ msr_data' = [msr_data EXCEPT ![SensorOf(p)] = @ \cup {next[p]}]
    BY <1>9 DEF GetPage
  <2>2. mod = "in" /\ leaky
    BY <2>1 DEF GiveInv
  <2> DEFINE N == {<<SensorOf(p), next[p]>>}
  <2>3. N \in SUBSET Devices /\ SensorOf(p) \in Sensors
    BY <1>0 DEF Devices, SensorOf
  <2>4. PagesOf(Sensors)' \in SUBSET (PagesOf(Sensors) \cup N)
    BY <1>0, <2>1, <2>3 DEF PagesOf
  <2>5. Cardinality(N) = 1
    BY FS_Singleton
  <2> HIDE DEF N
  <2>6. Cardinality(PagesOf(Sensors)') <= Cardinality(PagesOf(Sensors)) + 1
        /\ Cardinality(PagesOf(Sensors)') \in Nat /\ Cardinality(PagesOf(Sensors)) \in Nat
    BY <2>3, <2>4, <2>5, PagesAdded
  <2> HIDE DEF PagesOf
  <2> QED
    BY <2>1, <2>2, <2>6 DEF GiveInv
<1>10. ASSUME NEW p \in Procs, NoPage(p) \/ Touch(p) \/ ReadFaults(p) \/ Close(p)
       PROVE  GiveInv'
  <2>1. UNCHANGED <<mod, up, pages, msr_data, leaky>> /\ call[p] # "none"
    BY <1>10 DEF NoPage, Touch, ReadFaults, Close
  <2>2. \A q \in Procs : call'[q] # "none" => call[q] # "none"
    BY <1>0, <1>10 DEF NoPage, Touch, ReadFaults, Close
  <2> QED
    BY <2>1, <2>2, GiveKept DEF GiveInv
<1> QED
  BY <1>1, <1>2, <1>3, <1>4, <1>5, <1>6, <1>7, <1>8, <1>9, <1>10 DEF ModuleNext

(* Loading that fails and unloading give back no more pages than were got, *)
(* and all of them if no device was opened and no sensor initialised       *)
(* halfway.  (lunix-module.c:73-86, 97-103)                                *)
THEOREM PagesGivenBack == ModuleSpec => []UndoneGivesBack
<1>1. ModuleTypeOK /\ GiveInv /\ [ModuleNext]_moduleVars => GiveInv'
  BY StepGive
<1>2. GiveInv => UndoneGivesBack
  <2> SUFFICES ASSUME GiveInv PROVE UndoneGivesBack
    OBVIOUS
  <2>1. Cardinality(PagesOf(Sensors)) \in Nat
    BY PagesCounted
  <2>2. mod = "out" => PagesOf(Sensors) = {}
    BY DEF GiveInv, PagesOf
  <2>3. mod = "out" => Cardinality(PagesOf(Sensors)) = 0
    BY <2>2, FS_EmptySet
  <2> HIDE DEF PagesOf
  <2> QED
    BY <2>1, <2>3 DEF GiveInv, UndoneGivesBack
<1> QED
  BY <1>1, <1>2, InitGive, ModuleTypes, PTL DEF ModuleSpec
=============================================================================
