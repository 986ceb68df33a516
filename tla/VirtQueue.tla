------------------------------ MODULE VirtQueue ------------------------------
(***************************************************************************)
(* One virtqueue of QEMU (hw/virtio/virtio.c) with VIRTIO_RING_F_EVENT_IDX *)
(* and the guest's end of it, the split ring of Linux, over indices that   *)
(* wrap around.  The guest's end runs at the same time as the device's.    *)
(***************************************************************************)
EXTENDS Integers, Sequences

CONSTANTS
  Num,         \* vring.num, the size of the rings
  Span         \* how many values an index has: 2^16

(* Sizes are powers of two, so that an index keeps its place as it wraps.  *)
ASSUME QueueAssumption ==
  Num \in Nat \ {0} /\ Span \in Nat /\ Span > Num /\ Span % Num = 0

VARIABLES
  availIdx, availRing,        \* in memory: what the guest offers,
  usedIdx, usedRing,          \*   what the device gives back,
  availEvent,                 \*   and what it asks to be told of
  free, numAdded, takenIdx,   \* the guest: heads it can use, how many it
                              \*   has added since a kick, last_used_idx
  lastAvail, shadowAvail,     \* the device: last_avail_idx,
  inuse, broken,              \*   shadow_avail_idx, inuse, vdev->broken,
  elem,                       \*   the element that is popped
  notifier, qpc               \* host_notifier, and where the handler is

vqVars == <<availIdx, availRing, usedIdx, usedRing, availEvent, free, numAdded, takenIdx,
            lastAvail, shadowAvail, inuse, broken, elem, notifier, qpc>>
guestVars == <<free, numAdded, takenIdx>>
deviceVars == <<lastAvail, shadowAvail, inuse, broken, elem, qpc>>

Heads == 0 .. Num - 1
Next16(i) == (i + 1) % Span
Slot(i) == i % Num

(* The device and the guest begin with memory that is zero. *)
QueueInit ==
  /\ availIdx = 0 /\ availRing = [s \in Heads |-> 0]
  /\ usedIdx = 0 /\ usedRing = [s \in Heads |-> 0] /\ availEvent = 0
  /\ free = Heads /\ numAdded = 0 /\ takenIdx = 0
  /\ lastAvail = 0 /\ shadowAvail = 0 /\ inuse = 0 /\ broken = FALSE /\ elem = 0
  /\ notifier = TRUE /\ qpc = "idle"

(* virtio_reset, with a new queue of the guest: not in the middle of a     *)
(* handler, as both have QEMU's lock.                                      *)
Reset ==
  /\ qpc = "idle" /\ qpc' = "idle"
  /\ availIdx' = 0 /\ availRing' = [s \in Heads |-> 0]
  /\ usedIdx' = 0 /\ usedRing' = [s \in Heads |-> 0] /\ availEvent' = 0
  /\ free' = Heads /\ numAdded' = 0 /\ takenIdx' = 0
  /\ lastAvail' = 0 /\ shadowAvail' = 0 /\ inuse' = 0 /\ broken' = FALSE /\ elem' = 0
  /\ notifier' = TRUE

-----------------------------------------------------------------------------
(***************************************************************************)
(* The guest: virtqueue_add, virtqueue_kick and virtqueue_get_buf.         *)
(***************************************************************************)
(* Before the number of requests that were added without a kick could wrap *)
(* Linux kicks by itself.                                                  *)
GuestAdd(h) ==
  /\ h \in free /\ numAdded < Span - 1
  /\ free' = free \ {h} /\ numAdded' = numAdded + 1
  /\ availRing' = [availRing EXCEPT ![Slot(availIdx)] = h] /\ availIdx' = Next16(availIdx)
  /\ UNCHANGED <<usedIdx, usedRing, availEvent, takenIdx, deviceVars, notifier>>

(* vring_need_event: event is among the indices from old up to new. *)
NeedEvent(event, new, old) == (new - event - 1) % Span < (new - old) % Span

GuestKick ==
  /\ numAdded' = 0
  /\ notifier' = (notifier \/ NeedEvent(availEvent, availIdx, (availIdx - numAdded) % Span))
  /\ UNCHANGED <<availIdx, availRing, usedIdx, usedRing, availEvent, free, takenIdx, deviceVars>>

GuestTake ==
  /\ takenIdx # usedIdx /\ takenIdx' = Next16(takenIdx)
  /\ free' = free \cup {usedRing[Slot(takenIdx)]}
  /\ UNCHANGED <<availIdx, availRing, usedIdx, usedRing, availEvent, numAdded, deviceVars, notifier>>

-----------------------------------------------------------------------------
(***************************************************************************)
(* The device: virtio_queue_host_notifier_read, and virtqueue_pop and      *)
(* virtqueue_push as the handler of the cryptodev calls them.              *)
(***************************************************************************)
NotifierRead ==
  /\ qpc = "idle" /\ notifier /\ notifier' = FALSE
  /\ qpc' = IF broken THEN "idle" ELSE "called"
  /\ UNCHANGED <<availIdx, availRing, usedIdx, usedRing, availEvent, guestVars,
                 lastAvail, shadowAvail, inuse, broken, elem>>

(* virtio_queue_empty_rcu: the guest's index is read only if what was read *)
(* before does not say that there is more.  A device with all its elements *)
(* in use is broken.                                                       *)
Look ==
  /\ qpc = "called"
  /\ shadowAvail' = IF shadowAvail # lastAvail THEN shadowAvail ELSE availIdx
  /\ LET empty == shadowAvail' = lastAvail
         full  == inuse >= Num
     IN qpc' = (IF empty \/ full THEN "idle" ELSE "seen") /\ broken' = (~empty /\ full)
  /\ UNCHANGED <<availIdx, availRing, usedIdx, usedRing, availEvent, guestVars,
                 lastAvail, inuse, elem, notifier>>

(* Variant, for mutation: the index that has just been popped. *)
AskForPopped(last) == last

AskFor(last) == Next16(last)

Pop ==
  /\ qpc = "seen" /\ qpc' = "popped"
  /\ elem' = availRing[Slot(lastAvail)] /\ lastAvail' = Next16(lastAvail)
  /\ availEvent' = AskFor(lastAvail) /\ inuse' = inuse + 1
  /\ UNCHANGED <<availIdx, availRing, usedIdx, usedRing, guestVars, shadowAvail, broken, notifier>>

Push ==
  /\ qpc = "popped" /\ qpc' = "idle"
  /\ usedRing' = [usedRing EXCEPT ![Slot(usedIdx)] = elem] /\ usedIdx' = Next16(usedIdx)
  /\ inuse' = inuse - 1
  /\ UNCHANGED <<availIdx, availRing, availEvent, guestVars, lastAvail, shadowAvail, broken, elem, notifier>>

VQNext ==
  \/ Reset
  \/ \E h \in Heads : GuestAdd(h)
  \/ GuestKick \/ GuestTake
  \/ NotifierRead \/ Look \/ Pop \/ Push

VQSpec == QueueInit /\ [][VQNext]_vqVars

-----------------------------------------------------------------------------
(* What a ring holds from index i up to j. *)
Between(ring, i, j) == [k \in 1 .. (j - i) % Span |-> ring[Slot(i + k - 1)]]

(* A request counts as answered from when it is popped on. *)
Q == INSTANCE RequestQueue WITH
       Requests <- Heads,
       waiting  <- Between(availRing, lastAvail, availIdx),
       fresh    <- numAdded,
       answered <- Between(usedRing, takenIdx, usedIdx)
                     \o (IF qpc = "popped" THEN <<elem>> ELSE << >>),
       told     <- notifier,
       called   <- qpc \in {"called", "seen"}

(* However guest and device interleave and whenever an index wraps, no     *)
(* request is lost, answered twice or out of order, none is overwritten in *)
(* a ring, and the device is told exactly of the one it asked to be told   *)
(* of.  (virtio.c:361-374, 842-980, 469-526)                               *)
ImplementsQueue == Q!Start /\ [][Q!QueueNext]_(Q!queueVars)
=============================================================================
