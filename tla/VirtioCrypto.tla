---------------------------- MODULE VirtioCrypto ----------------------------
(***************************************************************************)
(* The virtio cryptodev: the guest's driver (crypto-module.c and           *)
(* crypto-chrdev.c), its queues, and the device in QEMU                    *)
(* (virtio-cryptodev.c).  Processes open device nodes while devices come   *)
(* and go and the driver is loaded and unloaded.                           *)
(*   No open succeeds: the driver sends the address in syscall_type in     *)
(* place of the number there, the device finds none of its three calls in  *)
(* it and pushes the request back as it was, and host_fd stays -1.  So     *)
(* nothing comes to release and ioctl.                                     *)
(***************************************************************************)
EXTENDS Integers, Sequences

CONSTANTS
  Openers,     \* the processes of the guest
  MaxMinors,   \* bound: the number of devices that are attached
  MaxSema      \* bound: what a failed allocation may raise a semaphore to

ASSUME CryptoAssumption == MaxMinors \in Nat /\ MaxSema \in Nat \ {0}

(* The last node has no device. *)
Nodes == 0 .. MaxMinors

VARIABLES
  driver,      \* "out", "region": the nodes can be opened, "ready"
  nextMinor,   \* crdrvdata.next_minor
  devs,        \* crdrvdata.devs: the minors of the devices
  sema,        \* of each device, the semaphore,
  sleepers,    \*   who waits for it,
  ring,        \*   and the queue
  opc, node,   \* of each process, where it is in open, and of which node
  misused      \* a semaphore was not used as a lock, see below

cryptoVars == <<driver, nextMinor, devs, sema, sleepers, ring, opc, node, misused>>

(* A queue, by the lengths of the RequestQueue that it is (see VirtQueue): *)
(* how many requests the device has not popped, and how many were added    *)
(* since the last kick; how many it has pushed back that were not    *)
(* taken; whether its notifier is set; and whether the device has cleared  *)
(* it and not yet looked for a request.                                    *)
Rings == [avail : Nat, added : Nat, used : Nat, notified : BOOLEAN, called : BOOLEAN]
Ring(a, k, u, n, c) == [avail |-> a, added |-> k, used |-> u, notified |-> n, called |-> c]
EmptyRing == Ring(0, 0, 0, FALSE, FALSE)

(* As the device finds it when it starts: it is told once of whatever may  *)
(* be there already.                                                       *)
StartedRing == Ring(0, 0, 0, TRUE, FALSE)

(* The semaphore of memory that is zero. *)
Unready == -1

CryptoInit ==
  /\ driver = "out" /\ nextMinor = 0 /\ devs = {}
  /\ sema = [m \in Nodes |-> Unready] /\ sleepers = [m \in Nodes |-> << >>]
  /\ ring = [m \in Nodes |-> EmptyRing]
  /\ opc = [p \in Openers |-> "out"] /\ node = [p \in Openers |-> 0] /\ misused = FALSE

-----------------------------------------------------------------------------
(***************************************************************************)
(* The module and its devices.                                             *)
(***************************************************************************)
RegisterRegion ==
  /\ driver = "out" /\ driver' = "region" /\ nextMinor' = 0
  /\ UNCHANGED <<devs, sema, sleepers, ring, opc, node, misused>>

RegisterDriver ==
  /\ driver = "region" /\ driver' = "ready"
  /\ UNCHANGED <<nextMinor, devs, sema, sleepers, ring, opc, node, misused>>

(* A device that gets no memory or no queue does not come into the list.   *)
Probe ==
  /\ driver = "ready" /\ nextMinor < MaxMinors
  /\ nextMinor' = nextMinor + 1 /\ devs' = devs \cup {nextMinor}
  /\ ring' = [ring EXCEPT ![nextMinor] = StartedRing]
  /\ UNCHANGED <<driver, sema, sleepers, opc, node, misused>>

(* The queue is deleted and the memory freed, whoever uses them. *)
Freed(gone) ==
  /\ sema' = [m \in Nodes |-> IF m \in gone THEN Unready ELSE sema[m]]
  /\ sleepers' = [m \in Nodes |-> IF m \in gone THEN << >> ELSE sleepers[m]]
  /\ ring' = [m \in Nodes |-> IF m \in gone THEN EmptyRing ELSE ring[m]]

RemoveDevice(m) ==
  /\ m \in devs /\ devs' = devs \ {m} /\ Freed({m})
  /\ UNCHANGED <<driver, nextMinor, opc, node, misused>>

(* The module cannot be removed while a process is in one of its functions,*)
(* nor after one has died there.                                           *)
Unload ==
  /\ driver = "ready" /\ \A p \in Openers : opc[p] = "out"
  /\ driver' = "out" /\ devs' = {} /\ nextMinor' = 0 /\ Freed(devs)
  /\ UNCHANGED <<opc, node, misused>>

-----------------------------------------------------------------------------
(***************************************************************************)
(* crypto_chrdev_open.                                                     *)
(***************************************************************************)
Go(p, label) == opc' = [opc EXCEPT ![p] = label]
At(p, label) == opc[p] = label /\ node[p] \in devs

(* The list is not there before the driver is ready; and where there is no *)
(* device, open comes to fail with crdev NULL and raises its semaphore.    *)
Open(p, n) ==
  /\ opc[p] = "out" /\ driver # "out"
  /\ Go(p, IF driver = "ready" /\ n \in devs THEN "init" ELSE "dead")
  /\ node' = [node EXCEPT ![p] = n]
  /\ UNCHANGED <<driver, nextMinor, devs, sema, sleepers, ring, misused>>

(* up: whoever has waited longest gets the semaphore; then is where each   *)
(* process is besides.                                                     *)
Up(m, then) ==
  IF sleepers[m] = << >>
  THEN sema' = [sema EXCEPT ![m] = @ + 1] /\ opc' = then /\ UNCHANGED sleepers
  ELSE /\ opc' = [then EXCEPT ![Head(sleepers[m])] = "add"]
       /\ sleepers' = [sleepers EXCEPT ![m] = Tail(@)] /\ UNCHANGED sema

(* There is no memory for crof: the semaphore is raised without having been*)
(* taken; if no open has initialised it yet, that is fatal.                *)
NoMemory(p, n) ==
  /\ opc[p] = "out" /\ driver = "ready" /\ n \in devs
  /\ \/ sema[n] = Unready /\ Go(p, "dead") /\ UNCHANGED <<sema, sleepers, misused>>
     \/ sema[n] \in 0 .. MaxSema - 1 /\ Up(n, opc) /\ misused' = TRUE
  /\ node' = [node EXCEPT ![p] = n]
  /\ UNCHANGED <<driver, nextMinor, devs, ring>>

Waiting == {"asleep"}
Inside == {"add", "kick", "spin", "up"}

(* Somebody has the device's semaphore or waits for it. *)
InUse(m) == \E q \in Openers : node[q] = m /\ opc[q] \in Waiting \cup Inside

(* Variant, for mutation. *)
SemaStartTwo == 2

SemaStart == 1

(* Every open initialises the semaphore again. *)
SemaInit(p) ==
  /\ At(p, "init") /\ Go(p, "down")
  /\ sema' = [sema EXCEPT ![node[p]] = SemaStart]
  /\ sleepers' = [sleepers EXCEPT ![node[p]] = << >>]
  /\ misused' = (misused \/ InUse(node[p]))
  /\ UNCHANGED <<driver, nextMinor, devs, ring, node>>

Down(p) ==
  /\ At(p, "down")
  /\ IF sema[node[p]] > 0
     THEN Go(p, "add") /\ sema' = [sema EXCEPT ![node[p]] = @ - 1] /\ UNCHANGED sleepers
     ELSE /\ Go(p, "asleep") /\ sleepers' = [sleepers EXCEPT ![node[p]] = Append(@, p)]
          /\ UNCHANGED sema
  /\ UNCHANGED <<driver, nextMinor, devs, ring, node, misused>>

(* A process takes itself out of the list that it may be in. *)
Without(list, p) ==
  IF \A i \in DOMAIN list : list[i] # p THEN list
  ELSE LET i == CHOOSE i \in DOMAIN list : list[i] = p
       IN  SubSeq(list, 1, i - 1) \o SubSeq(list, i + 1, Len(list))

(* A signal ends down_interruptible, whose result is not looked at; who    *)
(* waited at a device that has been removed then uses its memory.          *)
Interrupted(p) ==
  /\ opc[p] = "asleep"
  /\ IF node[p] \in devs
     THEN /\ Go(p, "add") /\ misused' = TRUE
          /\ sleepers' = [sleepers EXCEPT ![node[p]] = Without(@, p)]
     ELSE Go(p, "dead") /\ UNCHANGED <<sleepers, misused>>
  /\ UNCHANGED <<driver, nextMinor, devs, sema, ring, node>>

Add(p) ==
  /\ At(p, "add") /\ Go(p, "kick")
  /\ ring' = [ring EXCEPT ![node[p]] = Ring(@.avail + 1, @.added + 1, @.used, @.notified, @.called)]
  /\ UNCHANGED <<driver, nextMinor, devs, sema, sleepers, node, misused>>

(* The device asks to be told of the first request that it has not popped; *)
(* so it is told if that one was added since the last kick.                *)
Kick(p) ==
  /\ At(p, "kick") /\ Go(p, "spin")
  /\ ring' = [ring EXCEPT ![node[p]] =
                 Ring(@.avail, 0, @.used, @.notified \/ @.avail \in 1 .. @.added, @.called)]
  /\ UNCHANGED <<driver, nextMinor, devs, sema, sleepers, node, misused>>

(* Any request that has been pushed back ends the loop. *)
Got(p) ==
  /\ At(p, "spin") /\ ring[node[p]].used > 0
  /\ Go(p, "up")
  /\ ring' = [ring EXCEPT ![node[p]] = Ring(@.avail, @.added, @.used - 1, @.notified, @.called)]
  /\ UNCHANGED <<driver, nextMinor, devs, sema, sleepers, node, misused>>

(* host_fd is -1: -ENODEV. *)
Fail(p) ==
  /\ At(p, "up") /\ Up(node[p], [opc EXCEPT ![p] = "out"])
  /\ UNCHANGED <<driver, nextMinor, devs, ring, node, misused>>

(* The device has been removed under the process. *)
Dies(p) ==
  /\ opc[p] \in {"init", "down"} \cup Inside /\ node[p] \notin devs
  /\ Go(p, "dead")
  /\ UNCHANGED <<driver, nextMinor, devs, sema, sleepers, ring, node, misused>>

-----------------------------------------------------------------------------
(***************************************************************************)
(* The device, in QEMU's main loop: it clears the notifier, then calls     *)
(* vq_handle_output, which pops one element if there is one.               *)
(***************************************************************************)
Notice(m) ==
  /\ m \in devs /\ ring[m].notified /\ ~ring[m].called
  /\ ring' = [ring EXCEPT ![m] = Ring(@.avail, @.added, @.used, FALSE, TRUE)]
  /\ UNCHANGED <<driver, nextMinor, devs, sema, sleepers, opc, node, misused>>

(* Variant, for mutation: the element is not pushed back. *)
NotPushed(used) == used

Pushed(used) == used + 1

Handle(m) ==
  /\ m \in devs /\ ring[m].called
  /\ ring' = [ring EXCEPT ![m] =
                 IF @.avail = 0 THEN Ring(0, @.added, @.used, @.notified, FALSE)
                 ELSE Ring(@.avail - 1, @.added, Pushed(@.used), @.notified, FALSE)]
  /\ UNCHANGED <<driver, nextMinor, devs, sema, sleepers, opc, node, misused>>

-----------------------------------------------------------------------------
OpenSteps(p) ==
  SemaInit(p) \/ Down(p) \/ Add(p) \/ Kick(p) \/ Got(p) \/ Fail(p) \/ Dies(p)

CryptoNext ==
  \/ RegisterRegion \/ RegisterDriver \/ Probe \/ Unload
  \/ \E m \in Nodes : RemoveDevice(m) \/ Notice(m) \/ Handle(m)
  \/ \E p \in Openers : OpenSteps(p) \/ Interrupted(p)
                        \/ \E n \in Nodes : Open(p, n) \/ NoMemory(p, n)

(* The processes go on, and so does the device's thread in QEMU. *)
CryptoFairness ==
  /\ \A p \in Openers : WF_cryptoVars(OpenSteps(p))
  /\ \A m \in Nodes : WF_cryptoVars(Notice(m) \/ Handle(m))

CryptoSpec == CryptoInit /\ [][CryptoNext]_cryptoVars /\ CryptoFairness

-----------------------------------------------------------------------------
(* Every variable has its type; the minors in the list are the given ones. *)
CryptoTypeOK ==
  /\ driver \in {"out", "region", "ready"}
  /\ nextMinor \in 0 .. MaxMinors /\ devs \subseteq 0 .. nextMinor - 1
  /\ sema \in [Nodes -> Nat \cup {Unready}]
  /\ sleepers \in [Nodes -> Seq(Openers)]
  /\ ring \in [Nodes -> Rings]
  /\ opc \in [Openers -> {"out", "init", "down", "dead"} \cup Waiting \cup Inside]
  /\ node \in [Openers -> Nodes] /\ misused \in BOOLEAN

(* As long as no semaphore is initialised while it is in use, raised       *)
(* without having been taken, or passed by a signal, the device has been   *)
(* told of every request that waits for it, or is about to be: it pops one *)
(* each time it is told, so a request that comes before the last one is    *)
(* popped might never be.  (crypto-chrdev.c:113-119,                       *)
(* virtio-cryptodev.c:57)                                                  *)
KickComing ==
  ~misused => \A m \in devs : ring[m].avail > 0 =>
                ring[m].notified \/ ring[m].called \/ \E p \in Openers : At(p, "kick") /\ node[p] = m

(* "Wait for the host to process our data" (crypto-chrdev.c:128): an open  *)
(* returns, as long as that is so and the device is there.                 *)
OpenReturns ==
  \A p \in Openers :
     opc[p] \notin {"out", "dead"} ~> (opc[p] = "out" \/ misused \/ node[p] \notin devs)
=============================================================================
