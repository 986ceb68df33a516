---------------------------- MODULE LunixModule ----------------------------
(***************************************************************************)
(* The life of the Lunix:TNG module: lunix_module_init with its unwinding, *)
(* lunix_module_cleanup, and what the sensors' pages go through meanwhile. *)
(* Every open of a device initialises its sensor once more, page by page,  *)
(* while terminals and other files use it.                                 *)
(***************************************************************************)
EXTENDS Integers, FiniteSets

CONSTANTS
  SensorCnt,   \* lunix_sensor_cnt
  Procs,       \* processes that open devices
  Majors,      \* dynamic major numbers the kernel has to give
  MaxPages     \* bound: the pages in use when a device is opened or a load starts

ASSUME ModuleAssumption == SensorCnt \in Nat \ {0} /\ Majors \in Nat /\ MaxPages \in Nat

N_LUNIX_MSR == 3
Sensors == 1 .. SensorCnt
Msrs == 1 .. N_LUNIX_MSR
Devices == Sensors \X Msrs
LastDevice == <<SensorCnt, N_LUNIX_MSR>>

VARIABLES
  mod,         \* where the module is in its life
  up,          \* si_done + 1: the sensors initialised
  msr_data,    \* of each sensor, the measurements whose pointer is not NULL
  pages,       \* pages got and not given back
  registered,  \* the line discipline: "yes", "no" or that of a module that is gone
  taken,       \* a terminal has the discipline
  left,        \* one has the discipline of a module that is gone
  majors,      \* the major numbers left
  mapped,      \* the devices the kernel finds for their numbers
  call,        \* of each process, where it is in open
  dev,         \* and the device it opens or has open
  next,        \* i of lunix_sensor_init: the next page it gets
  oops,        \* the kernel has used a NULL pointer or freed memory
  leaky        \* a device has been opened, or a sensor initialised halfway

loadVars == <<mod, up, registered, majors, mapped>>
openVars == <<call, dev, next>>
moduleVars == <<loadVars, msr_data, pages, taken, left, openVars, oops, leaky>>

ModuleInit ==
  /\ mod = "out" /\ up = 0 /\ msr_data = [s \in Sensors |-> {}] /\ pages = 0
  /\ registered = "no" /\ taken = FALSE /\ left = FALSE /\ majors = Majors /\ mapped = {}
  /\ call = [p \in Procs |-> "none"] /\ dev = [p \in Procs |-> LastDevice]
  /\ next = [p \in Procs |-> 1]
  /\ oops = FALSE /\ leaky = FALSE

Opening(p) == call[p] \in {"init", "touch"}
SensorOf(p) == dev[p][1]
Complete(s) == msr_data[s] = Msrs

-----------------------------------------------------------------------------
(***************************************************************************)
(* lunix_module_init                                                       *)
(***************************************************************************)
(* When the array cannot be allocated nothing has happened.                *)
Insmod ==
  /\ mod = "out" /\ pages <= MaxPages
  /\ mod' = "sensors" /\ up' = 0
  /\ UNCHANGED <<msr_data, pages, registered, taken, left, majors, mapped, openVars, oops, leaky>>

(* Variant, for mutation: a sensor without all its pages will do.          *)
EnoughAny(n) == TRUE

AllUp == up + 1 = SensorCnt
Enough(n) == n = N_LUNIX_MSR

(* lunix_sensor_init of the next sensor, which gets n pages. *)
SensorInit ==
  /\ mod = "sensors"
  /\ \E n \in 0 .. N_LUNIX_MSR :
       /\ msr_data' = [msr_data EXCEPT ![up + 1] = 1 .. n]
       /\ pages' = pages + n
       /\ IF Enough(n)
          THEN /\ up' = up + 1
               /\ mod' = IF AllUp THEN "ldisc" ELSE "sensors"
               /\ UNCHANGED leaky
          ELSE mod' = "undo" /\ leaky' = (leaky \/ n > 0) /\ UNCHANGED up
  /\ UNCHANGED <<registered, taken, left, majors, mapped, openVars, oops>>

LdiscInit ==
  /\ mod = "ldisc"
  /\ registered' = "yes" /\ mod' = "chrdev"
  /\ UNCHANGED <<up, msr_data, pages, taken, left, majors, mapped, openVars, oops, leaky>>

(* The region gets a dynamic major number; the devices get number 60.      *)
ChrdevInit ==
  /\ mod = "chrdev" /\ majors > 0
  /\ majors' = majors - 1 /\ mapped' = Devices /\ mod' = "in"
  /\ UNCHANGED <<up, msr_data, pages, registered, taken, left, openVars, oops, leaky>>

(* There is no major number left, or no memory. *)
ChrdevFails ==
  /\ mod = "chrdev" /\ mod' = "undoLdisc"
  /\ UNCHANGED <<up, msr_data, pages, registered, taken, left, majors, mapped, openVars, oops, leaky>>

(* A discipline in use stays registered. *)
LdiscDestroy ==
  /\ mod = "undoLdisc"
  /\ registered' = (IF taken THEN registered ELSE "no") /\ mod' = "undo"
  /\ UNCHANGED <<up, msr_data, pages, taken, left, majors, mapped, openVars, oops, leaky>>

(* Variant, for mutation: si_done is taken for the number of sensors.      *)
InitialisedBut1 == 1 .. up - 1

Initialised == 1 .. up

(* The pages the sensors of S have, each of one measurement. *)
PagesOf(S) == {d \in S \X Msrs : d[2] \in msr_data[d[1]]}

(* lunix_sensor_destroy of the sensors of S, and the array is freed. *)
Destroy(S) ==
  /\ pages' = pages - Cardinality(PagesOf(S))
  /\ msr_data' = [s \in Sensors |-> {}]

(* The module that could not be loaded goes, with what it has registered.  *)
UndoSensors ==
  /\ mod = "undo"
  /\ Destroy(Initialised) /\ up' = 0 /\ mod' = "out"
  /\ registered' = (IF registered = "yes" THEN "stale" ELSE registered)
  /\ taken' = FALSE /\ left' = (left \/ taken)
  /\ UNCHANGED <<majors, mapped, openVars, oops, leaky>>

(* lunix_module_cleanup: rmmod waits for nobody and needs that there is no *)
(* user.  One device is removed, and no major number.                      *)
Cleanup ==
  /\ mod = "in" /\ ~taken /\ \A p \in Procs : call[p] = "none"
  /\ mapped' = mapped \ {LastDevice} /\ registered' = "no"
  /\ Destroy(Sensors) /\ up' = 0 /\ mod' = "out"
  /\ UNCHANGED <<taken, left, majors, openVars, oops, leaky>>

-----------------------------------------------------------------------------
(***************************************************************************)
(* Its users.                                                              *)
(***************************************************************************)
Attach ==
  /\ registered # "no" /\ ~taken
  /\ IF registered = "stale"
     THEN oops' = TRUE /\ UNCHANGED taken
     ELSE taken' = TRUE /\ UNCHANGED oops
  /\ UNCHANGED <<loadVars, msr_data, pages, left, openVars, leaky>>

Detach ==
  /\ taken /\ taken' = FALSE
  /\ UNCHANGED <<loadVars, msr_data, pages, left, openVars, oops, leaky>>

(* What is received or closed goes to a module that is gone.               *)
LeftFaults ==
  /\ left /\ oops' = TRUE
  /\ UNCHANGED <<loadVars, msr_data, pages, taken, left, openVars, leaky>>

(* lunix_sensor_update follows the three pointers. *)
UpdateFaults(s) ==
  /\ taken /\ ~Complete(s) /\ oops' = TRUE
  /\ UNCHANGED <<loadVars, msr_data, pages, taken, left, openVars, leaky>>

(* open forgets the sensor's pages, and gets new ones.  A number left over *)
(* from an earlier load leads into freed memory.                           *)
OpenDevice(p, d) ==
  /\ call[p] = "none" /\ d \in mapped /\ pages <= MaxPages
  /\ IF mod # "in"
     THEN oops' = TRUE /\ UNCHANGED <<msr_data, openVars, leaky>>
     ELSE /\ call' = [call EXCEPT ![p] = "init"] /\ dev' = [dev EXCEPT ![p] = d]
          /\ next' = [next EXCEPT ![p] = 1]
          /\ msr_data' = [msr_data EXCEPT ![d[1]] = {}]
          /\ leaky' = TRUE /\ UNCHANGED oops
  /\ UNCHANGED <<loadVars, pages, taken, left>>

GetPage(p) ==
  /\ call[p] = "init"
  /\ msr_data' = [msr_data EXCEPT ![SensorOf(p)] = @ \cup {next[p]}]
  /\ pages' = pages + 1
  /\ IF next[p] = N_LUNIX_MSR
     THEN call' = [call EXCEPT ![p] = "touch"] /\ UNCHANGED next
     ELSE next' = [next EXCEPT ![p] = @ + 1] /\ UNCHANGED call
  /\ UNCHANGED <<loadVars, taken, left, dev, oops, leaky>>

(* The error of lunix_sensor_init is ignored. *)
NoPage(p) ==
  /\ call[p] = "init" /\ call' = [call EXCEPT ![p] = "touch"]
  /\ UNCHANGED <<loadVars, msr_data, pages, taken, left, dev, next, oops, leaky>>

(* Variant, for mutation: open leaves the pages alone.                     *)
TouchNot(p) ==
  /\ call[p] = "touch" /\ call' = [call EXCEPT ![p] = "open"]
  /\ UNCHANGED <<loadVars, msr_data, pages, taken, left, dev, next, oops, leaky>>

(* open sets the time of the three pages. *)
Touch(p) ==
  /\ call[p] = "touch"
  /\ IF Complete(SensorOf(p))
     THEN call' = [call EXCEPT ![p] = "open"] /\ UNCHANGED oops
     ELSE oops' = TRUE /\ UNCHANGED call
  /\ UNCHANGED <<loadVars, msr_data, pages, taken, left, dev, next, leaky>>

(* A read looks at the page of its measurement. *)
ReadFaults(p) ==
  /\ call[p] = "open" /\ dev[p][2] \notin msr_data[SensorOf(p)] /\ oops' = TRUE
  /\ UNCHANGED <<loadVars, msr_data, pages, taken, left, openVars, leaky>>

Close(p) ==
  /\ call[p] = "open" /\ call' = [call EXCEPT ![p] = "none"]
  /\ UNCHANGED <<loadVars, msr_data, pages, taken, left, dev, next, oops, leaky>>

(* Nothing is said of a kernel that has gone wrong. *)
ModuleNext ==
  /\ ~oops
  /\ \/ Insmod \/ SensorInit \/ LdiscInit \/ ChrdevInit \/ ChrdevFails
     \/ LdiscDestroy \/ UndoSensors \/ Cleanup
     \/ Attach \/ Detach \/ LeftFaults
     \/ \E s \in Sensors : UpdateFaults(s)
     \/ \E p \in Procs : \/ \E d \in Devices : OpenDevice(p, d)
                         \/ GetPage(p) \/ NoPage(p) \/ Touch(p) \/ ReadFaults(p) \/ Close(p)

ModuleSpec == ModuleInit /\ [][ModuleNext]_moduleVars

-----------------------------------------------------------------------------
(* All but the number of pages, which UndoneGivesBack bounds from below.    *)
ModuleTypeOK ==
  /\ mod \in {"out", "sensors", "ldisc", "chrdev", "in", "undoLdisc", "undo"}
  /\ up \in 0 .. SensorCnt /\ (mod = "sensors" => up < SensorCnt)
  /\ msr_data \in [Sensors -> SUBSET Msrs]
  /\ registered \in {"no", "yes", "stale"} /\ taken \in BOOLEAN /\ left \in BOOLEAN
  /\ majors \in 0 .. Majors /\ mapped \in SUBSET Devices
  /\ call \in [Procs -> {"none", "init", "touch", "open"}]
  /\ dev \in [Procs -> Devices] /\ next \in [Procs -> Msrs]
  /\ oops \in BOOLEAN /\ leaky \in BOOLEAN

(* As long as the discipline is registered by a module that is there, a    *)
(* page is missing from a sensor only while somebody is in the middle of   *)
(* opening one of its devices: two opens of one sensor, one of which takes *)
(* the other's pages away, leave it whole.                                 *)
(* (lunix-sensors.c:46-57, lunix-chrdev.c:166, lunix-module.c:73-86)       *)
PagesThere ==
  (registered = "yes" /\ ~oops) =>
    \A s \in Sensors : Complete(s) \/ \E p \in Procs : Opening(p) /\ SensorOf(p) = s

(* The kernel goes wrong only while a device is being opened, or by a      *)
(* device number or a discipline that a load before has left behind.       *)
(* (lunix-chrdev.c:166-169, 380, lunix-module.c:79)                        *)
OopsHasCause ==
  [][ (oops' /\ ~oops) =>
        \/ \E p \in Procs : Opening(p)
        \/ mod # "in" /\ mapped # {}
        \/ left \/ registered = "stale" ]_moduleVars

(* Loading that fails and unloading undo what was set up: no more pages    *)
(* are given back than were got, and if no device was ever opened and no   *)
(* sensor initialised halfway, every page is.                              *)
(* (lunix-module.c:73-86, 97-103)                                          *)
UndoneGivesBack ==
  pages >= 0 /\ ((mod = "out" /\ ~oops /\ ~leaky) => pages = 0)

(* The inductive invariant of the proofs: whoever is missing a page has a  *)
(* process that is going to get it, or to find it missing.                 *)
Fills(p, s, m) ==
  /\ SensorOf(p) = s
  /\ call[p] = "touch" \/ (call[p] = "init" /\ next[p] <= m)

PagesInv ==
  /\ \A p \in Procs : call[p] # "none" => mod = "in"
  /\ mod = "sensors" => \A s \in 1 .. up : Complete(s)
  /\ mod \in {"ldisc", "chrdev", "undoLdisc"} => \A s \in Sensors : Complete(s)
  /\ mod = "in" => \A s \in Sensors, m \in Msrs :
       m \in msr_data[s] \/ \E p \in Procs : Fills(p, s, m)
  /\ registered = "yes" =>
       /\ mod \in {"chrdev", "in", "undoLdisc", "undo"}
       /\ mod = "undo" => \A s \in Sensors : Complete(s)
  /\ mod \in {"chrdev", "in", "undoLdisc"} => registered = "yes"
  /\ taken => registered = "yes"

=============================================================================
