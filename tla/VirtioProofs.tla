---------------------------- MODULE VirtioProofs ----------------------------
(***************************************************************************)
(* Proofs about the virtqueue and about the driver and the device that use *)
(* it: for every size of its rings the queue is a queue of requests        *)
(* (RequestQueue), and every request of the driver is told to the device.  *)
(* The arithmetic of indices that wrap comes first; after the two lemmas   *)
(* about Between the argument is one about sequences; and then the lock of *)
(* open.                                                                   *)
(***************************************************************************)
EXTENDS VirtQueue, VirtioCrypto, FiniteSetTheorems, SequenceTheorems, TLAPS

-----------------------------------------------------------------------------
(***************************************************************************)
(* Remainders.                                                             *)
(***************************************************************************)
(* A number is a multiple of n and its remainder. *)
LEMMA DivMod ==
  ASSUME NEW a \in Int, NEW n \in Nat \ {0}
  PROVE  a % n \in 0 .. n - 1 /\ a \div n \in Int /\ a = n * (a \div n) + (a % n)
OBVIOUS

(* Two multiples of n are at least n apart. *)
LEMMA Multiples ==
  ASSUME NEW n \in Nat \ {0}, NEW p \in Int, NEW q \in Int, p < q
  PROVE  n * q - n * p >= n
<1>1. PICK d \in Nat \ {0} : q = p + d
  BY q - p \in Nat \ {0}, q = p + (q - p)
<1>2. n * q = n * p + n * d
  BY <1>1
<1>3. n * d >= n
  BY <1>1
<1> QED
  BY <1>2, <1>3

(* The remainder is the only one of its range. *)
LEMMA ModUnique ==
  ASSUME NEW a \in Int, NEW n \in Nat \ {0}, NEW q \in Int, NEW r \in 0 .. n - 1, a = n * q + r
  PROVE  a % n = r
<1>1. a % n \in 0 .. n - 1 /\ a \div n \in Int /\ a = n * (a \div n) + (a % n)
  BY DivMod
<1>2. ~ (q < a \div n) /\ ~ (a \div n < q)
  BY <1>1, Multiples
<1>3. q = a \div n
  BY <1>1, <1>2
<1> QED
  BY <1>1, <1>3

(* A multiple of n changes no remainder. *)
LEMMA ModShift ==
  ASSUME NEW a \in Int, NEW n \in Nat \ {0}, NEW q \in Int
  PROVE  (a + n * q) % n = a % n
<1>1. a % n \in 0 .. n - 1 /\ a \div n \in Int /\ a = n * (a \div n) + (a % n)
  BY DivMod
<1>2. n * (a \div n + q) = n * (a \div n) + n * q
  BY <1>1
<1>3. a + n * q = n * (a \div n + q) + (a % n)
  BY <1>1, <1>2
<1>4. a + n * q \in Int /\ a \div n + q \in Int
  BY <1>1
<1> QED
  BY <1>1, <1>3, <1>4, ModUnique

(* Numbers less than n apart have different remainders. *)
LEMMA ModApart ==
  ASSUME NEW n \in Nat \ {0}, NEW a \in Int, NEW b \in Int, a < b, b - a < n
  PROVE  a % n # b % n
<1>1. a = n * (a \div n) + (a % n) /\ a \div n \in Int
  BY DivMod
<1>2. b = n * (b \div n) + (b % n) /\ b \div n \in Int
  BY DivMod
<1> SUFFICES ASSUME a % n = b % n
             PROVE  FALSE
  OBVIOUS
<1>3. n * (b \div n) - n * (a \div n) = b - a
  BY <1>1, <1>2
<1>4. ~ (a \div n < b \div n)
  BY <1>1, <1>2, <1>3, Multiples
<1>5. ~ (b \div n < a \div n)
  BY <1>1, <1>2, <1>3, Multiples
<1>6. a \div n = b \div n
  BY <1>1, <1>2, <1>4, <1>5
<1> QED
  BY <1>3, <1>6, <1>1, <1>2

-----------------------------------------------------------------------------
(***************************************************************************)
(* Indices that wrap, and the slots of a ring.                             *)
(***************************************************************************)
Index == 0 .. Span - 1
Dist(i, j) == (j - i) % Span

LEMMA DistIs ==
  ASSUME NEW i \in Index, NEW j \in Index
  PROVE  Dist(i, j) = IF i <= j THEN j - i ELSE j - i + Span
<1>1. Span \in Nat \ {0}
  BY QueueAssumption
<1>2. CASE i <= j
  <2>1. j - i \in 0 .. Span - 1 /\ j - i \in Int /\ j - i = Span * 0 + (j - i)
    BY <1>1, <1>2 DEF Index
  <2> QED
    BY <1>1, <1>2, <2>1, ModUnique DEF Dist
<1>3. CASE j < i
  <2>1. j - i + Span \in 0 .. Span - 1 /\ j - i \in Int /\ j - i = Span * (-1) + (j - i + Span)
    BY <1>1, <1>3 DEF Index
  <2>2. (j - i) % Span = j - i + Span
    BY <1>1, <2>1, ModUnique
  <2> QED
    BY <1>3, <2>2 DEF Dist, Index
<1> QED
  BY <1>2, <1>3 DEF Index

LEMMA NextIs ==
  ASSUME NEW i \in Index
  PROVE  Next16(i) = (IF i = Span - 1 THEN 0 ELSE i + 1) /\ Next16(i) \in Index
<1>1. Span \in Nat \ {0}
  BY QueueAssumption
<1>2. CASE i = Span - 1
  <2>1. i + 1 \in Int /\ 0 \in 0 .. Span - 1 /\ i + 1 = Span * 1 + 0
    BY <1>1, <1>2 DEF Index
  <2> QED
    BY <1>1, <1>2, <2>1, ModUnique DEF Next16, Index
<1>3. CASE i < Span - 1
  <2>1. i + 1 \in Int /\ i + 1 \in 0 .. Span - 1 /\ i + 1 = Span * 0 + (i + 1)
    BY <1>1, <1>3 DEF Index
  <2>2. (i + 1) % Span = i + 1
    BY <1>1, <2>1, ModUnique
  <2> QED
    BY <1>1, <1>3, <2>2 DEF Next16, Index
<1> QED
  BY <1>2, <1>3, <1>1 DEF Index

(* One more at the end, one fewer at the beginning. *)
LEMMA DistNext ==
  ASSUME NEW i \in Index, NEW j \in Index
  PROVE  /\ Dist(i, j) \in Index
         /\ Dist(i, j) = 0 <=> i = j
         /\ Dist(i, j) < Span - 1 => Dist(i, Next16(j)) = Dist(i, j) + 1
         /\ Dist(i, j) > 0 => Dist(Next16(i), j) = Dist(i, j) - 1
<1> Span \in Nat \ {0, 1}
  BY QueueAssumption
<1>1. Dist(i, j) = IF i <= j THEN j - i ELSE j - i + Span
  BY DistIs
<1>2. /\ Next16(i) = (IF i = Span - 1 THEN 0 ELSE i + 1) /\ Next16(i) \in Index
      /\ Next16(j) = (IF j = Span - 1 THEN 0 ELSE j + 1) /\ Next16(j) \in Index
  BY NextIs
<1>3. Dist(i, Next16(j)) = IF i <= Next16(j) THEN Next16(j) - i ELSE Next16(j) - i + Span
  BY <1>2, DistIs
<1>4. Dist(Next16(i), j) = IF Next16(i) <= j THEN j - Next16(i) ELSE j - Next16(i) + Span
  BY <1>2, DistIs
<1> QED
  BY <1>1, <1>2, <1>3, <1>4 DEF Index

(* An index that wraps keeps its slot, as the size divides Span. *)
LEMMA SlotWraps ==
  ASSUME NEW a \in Int
  PROVE  Slot(a) \in Heads /\ Slot(a - Span) = Slot(a)
<1> Num \in Nat \ {0} /\ Span \in Nat /\ Span % Num = 0
  BY QueueAssumption
<1>1. Span = Num * (Span \div Num) /\ Span \div Num \in Int
  BY DivMod
<1>2. a - Span = a + Num * (-(Span \div Num)) /\ -(Span \div Num) \in Int
  BY <1>1
<1>3. (a - Span) % Num = a % Num
  BY <1>2, ModShift
<1> QED
  BY <1>3, DivMod DEF Slot, Heads

(* Where what is k places after i stands in the ring: after the next index *)
(* of i it is k - 1 places, and the place of j is Dist(i, j) after i.      *)
LEMMA SlotNext ==
  ASSUME NEW i \in Index, NEW j \in Index, NEW k \in Nat
  PROVE  /\ Slot(Next16(i) + k) = Slot(i + 1 + k)
         /\ Slot(i + Dist(i, j)) = Slot(j)
<1> Span \in Nat \ {0}
  BY QueueAssumption
<1>1. Slot(Next16(i) + k) = Slot(i + 1 + k)
  <2>1. CASE i = Span - 1
    <3>1. Next16(i) + k = (i + 1 + k) - Span /\ i + 1 + k \in Int
      BY <2>1, NextIs DEF Index
    <3> QED
      BY <3>1, SlotWraps
  <2>2. CASE i # Span - 1
    BY <2>2, NextIs
  <2> QED
    BY <2>1, <2>2
<1>2. Slot(i + Dist(i, j)) = Slot(j)
  <2>1. CASE i <= j
    <3>1. i + Dist(i, j) = j
      BY <2>1, DistIs DEF Index
    <3> QED
      BY <3>1
  <2>2. CASE ~ (i <= j)
    <3>1. j = (i + Dist(i, j)) - Span /\ i + Dist(i, j) \in Int
      BY <2>2, DistIs DEF Index
    <3> QED
      BY <3>1, SlotWraps
  <2> QED
    BY <2>1, <2>2
<1> QED
  BY <1>1, <1>2

-----------------------------------------------------------------------------
(***************************************************************************)
(* Sequences.                                                              *)
(***************************************************************************)
LEMMA IsAppend ==
  ASSUME NEW S, NEW s \in Seq(S), NEW t \in Seq(S), NEW x \in S,
         Len(t) = Len(s) + 1, \A k \in 1 .. Len(s) : t[k] = s[k], t[Len(s) + 1] = x
  PROVE  t = Append(s, x)
<1>1. Append(s, x) \in Seq(S) /\ Len(Append(s, x)) = Len(s) + 1
  OBVIOUS
<1>2. \A k \in 1 .. Len(t) : t[k] = Append(s, x)[k]
  OBVIOUS
<1> QED
  BY <1>1, <1>2, SeqEqual

LEMMA IsTail ==
  ASSUME NEW S, NEW s \in Seq(S), NEW t \in Seq(S),
         Len(s) > 0, Len(t) = Len(s) - 1, \A k \in 1 .. Len(t) : t[k] = s[k + 1]
  PROVE  t = Tail(s)
<1>1. Tail(s) \in Seq(S) /\ Len(Tail(s)) = Len(s) - 1
  OBVIOUS
<1>2. \A k \in 1 .. Len(t) : t[k] = Tail(s)[k]
  OBVIOUS
<1> QED
  BY <1>1, <1>2, SeqEqual

LEMMA IsSeq ==
  ASSUME NEW S, NEW n \in Nat, NEW f \in [1 .. n -> S]
  PROVE  f \in Seq(S) /\ Len(f) = n
OBVIOUS

(* What a ring holds is as long as its indices are apart. *)
LEMMA BetweenIs ==
  ASSUME NEW slots \in [Heads -> Heads], NEW i \in Index, NEW j \in Index
  PROVE  /\ Between(slots, i, j) \in Seq(Heads)
         /\ Len(Between(slots, i, j)) = Dist(i, j)
         /\ \A k \in 1 .. Dist(i, j) : Between(slots, i, j)[k] = slots[Slot(i + k - 1)]
<1>1. Dist(i, j) \in Nat
  BY DistNext DEF Index
<1>2. Between(slots, i, j) = [k \in 1 .. Dist(i, j) |-> slots[Slot(i + k - 1)]]
  BY DEF Between, Dist
<1>3. \A k \in 1 .. Dist(i, j) : slots[Slot(i + k - 1)] \in Heads
  <2> TAKE k \in 1 .. Dist(i, j)
  <2>1. i + k - 1 \in Int
    BY <1>1 DEF Index
  <2> QED
    BY <2>1, SlotWraps
<1>4. Between(slots, i, j) \in [1 .. Dist(i, j) -> Heads]
  BY <1>2, <1>3
<1>5. \A k \in 1 .. Dist(i, j) : Between(slots, i, j)[k] = slots[Slot(i + k - 1)]
  BY <1>2
<1> QED
  BY <1>1, <1>4, <1>5, IsSeq

(* A new entry at the end, while there is room, overwrites none.           *)
LEMMA BetweenAppend ==
  ASSUME NEW slots \in [Heads -> Heads], NEW i \in Index, NEW j \in Index, NEW h \in Heads,
         Dist(i, j) < Num,
         NEW new \in [Heads -> Heads], new[Slot(j)] = h,
         \A s \in Heads : s # Slot(j) => new[s] = slots[s]
  PROVE  Between(new, i, Next16(j)) = Append(Between(slots, i, j), h)
<1> DEFINE d == Dist(i, j)
           s == Between(slots, i, j)
           t == Between(new, i, Next16(j))
<1>1. Num \in Nat \ {0} /\ Span \in Nat /\ Span > Num /\ d \in Nat /\ i \in Int /\ j \in Int
  BY QueueAssumption, DistNext DEF Index
<1>2. Slot(j) \in Heads
  BY <1>1, SlotWraps
<1>3. Next16(j) \in Index /\ Dist(i, Next16(j)) = d + 1
  BY <1>1, NextIs, DistNext
<1>4. s \in Seq(Heads) /\ Len(s) = d /\ \A k \in 1 .. d : s[k] = slots[Slot(i + k - 1)]
  BY BetweenIs
<1>5. t \in Seq(Heads) /\ Len(t) = d + 1 /\ \A k \in 1 .. d + 1 : t[k] = new[Slot(i + k - 1)]
  <2>1. /\ t \in Seq(Heads) /\ Len(t) = Dist(i, Next16(j))
        /\ \A k \in 1 .. Dist(i, Next16(j)) : t[k] = new[Slot(i + k - 1)]
    BY <1>2, <1>3, BetweenIs
  <2> QED
    BY <2>1, <1>3
<1>6. Slot(i + d) = Slot(j)
  BY SlotNext
<1>7. t[d + 1] = h
  <2>1. t[d + 1] = new[Slot(i + (d + 1) - 1)] /\ i + (d + 1) - 1 = i + d
    BY <1>1, <1>5
  <2> QED
    BY <2>1, <1>2, <1>6
<1>8. ASSUME NEW k \in 1 .. d
      PROVE  t[k] = s[k]
  <2>1. i + k - 1 \in Int /\ i + d \in Int /\ i + k - 1 < i + d /\ (i + d) - (i + k - 1) < Num
    BY <1>1
  <2>2. Slot(i + k - 1) # Slot(j)
    BY <2>1, <1>1, <1>6, ModApart DEF Slot
  <2>3. Slot(i + k - 1) \in Heads
    BY <2>1, SlotWraps
  <2>4. t[k] = new[Slot(i + k - 1)] /\ s[k] = slots[Slot(i + k - 1)]
    BY <1>1, <1>4, <1>5
  <2> QED
    BY <2>2, <2>3, <2>4
<1>9. t = Append(s, h)
  BY <1>1, <1>4, <1>5, <1>7, <1>8, IsAppend
<1> QED
  BY <1>9

(* An entry taken from the beginning. *)
LEMMA BetweenTail ==
  ASSUME NEW slots \in [Heads -> Heads], NEW i \in Index, NEW j \in Index, i # j
  PROVE  /\ Len(Between(slots, i, j)) > 0
         /\ Head(Between(slots, i, j)) = slots[Slot(i)]
         /\ Between(slots, Next16(i), j) = Tail(Between(slots, i, j))
<1> DEFINE d == Dist(i, j)
           s == Between(slots, i, j)
           t == Between(slots, Next16(i), j)
<1>1. d \in Nat \ {0} /\ i \in Int /\ Next16(i) \in Int
  BY DistNext, NextIs DEF Index
<1>2. Next16(i) \in Index /\ Dist(Next16(i), j) = d - 1
  BY <1>1, NextIs, DistNext
<1>3. s \in Seq(Heads) /\ Len(s) = d /\ \A k \in 1 .. d : s[k] = slots[Slot(i + k - 1)]
  BY BetweenIs
<1>4. t \in Seq(Heads) /\ Len(t) = d - 1 /\ \A k \in 1 .. d - 1 : t[k] = slots[Slot(Next16(i) + k - 1)]
  <2>1. /\ t \in Seq(Heads) /\ Len(t) = Dist(Next16(i), j)
        /\ \A k \in 1 .. Dist(Next16(i), j) : t[k] = slots[Slot(Next16(i) + k - 1)]
    BY <1>2, BetweenIs
  <2> QED
    BY <2>1, <1>2
<1>5. ASSUME NEW k \in 1 .. d - 1
      PROVE  t[k] = s[k + 1]
  <2>1. k - 1 \in Nat /\ k + 1 \in 1 .. d
    BY <1>1
  <2>2. Slot(Next16(i) + (k - 1)) = Slot(i + 1 + (k - 1))
    BY <2>1, SlotNext
  <2>3. Next16(i) + (k - 1) = Next16(i) + k - 1 /\ i + 1 + (k - 1) = i + (k + 1) - 1
    BY <1>1
  <2> QED
    BY <1>3, <1>4, <2>1, <2>2, <2>3
<1>6. t = Tail(s)
  BY <1>1, <1>3, <1>4, <1>5, IsTail
<1>7. Head(s) = s[1] /\ s[1] = slots[Slot(i + 1 - 1)] /\ i + 1 - 1 = i
  BY <1>1, <1>3
<1> QED
  BY <1>1, <1>3, <1>6, <1>7

-----------------------------------------------------------------------------
(***************************************************************************)
(* The inductive invariant.                                                *)
(***************************************************************************)
Offered == Between(availRing, lastAvail, availIdx)
Back == Between(usedRing, takenIdx, usedIdx)
Held == IF qpc = "popped" THEN <<elem>> ELSE << >>
Answered == Back \o Held

VQTypeOK ==
  /\ availIdx \in Index /\ availRing \in [Heads -> Heads]
  /\ usedIdx \in Index /\ usedRing \in [Heads -> Heads]
  /\ availEvent \in Index /\ lastAvail \in Index /\ shadowAvail \in Index /\ takenIdx \in Index
  /\ free \subseteq Heads /\ numAdded \in Index
  /\ inuse \in 0 .. 1 /\ broken \in BOOLEAN /\ elem \in Heads
  /\ notifier \in BOOLEAN /\ qpc \in {"idle", "called", "seen", "popped"}

(* No head is in two places. *)
Once(s) == \A i, j \in 1 .. Len(s) : s[i] = s[j] => i = j

Apart(w, a, f) ==
  /\ Once(w) /\ Once(a)
  /\ \A i \in 1 .. Len(w) : w[i] \notin f /\ \A j \in 1 .. Len(a) : w[i] # a[j]
  /\ \A j \in 1 .. Len(a) : a[j] \notin f

(* Nor is one lost. *)
Counted(w, a, f) == Len(w) + Len(a) + Cardinality(f) = Num

(* What the device knows of the guest's index lies between what it has     *)
(* popped and that index, it asks to be told of the next request, and it   *)
(* has an element in use only in a handler.                                *)
DeviceOK ==
  /\ availEvent = lastAvail
  /\ Dist(lastAvail, shadowAvail) <= Dist(lastAvail, availIdx)
  /\ qpc = "seen" => shadowAvail # lastAvail
  /\ inuse = Len(Held) /\ ~broken

VQInv ==
  VQTypeOK /\ Apart(Offered, Answered, free) /\ Counted(Offered, Answered, free) /\ DeviceOK

-----------------------------------------------------------------------------
(***************************************************************************)
(* Heads that move between the three places.                               *)
(***************************************************************************)
LEMMA Finite ==
  ASSUME NEW f \in SUBSET Heads
  PROVE  IsFiniteSet(f) /\ Cardinality(f) \in Nat /\ Cardinality(Heads) = Num
<1>1. Num \in Nat \ {0}
  BY QueueAssumption
<1>2. IsFiniteSet(Heads) /\ Cardinality(Heads) = Num
  BY <1>1, FS_Interval DEF Heads
<1>3. IsFiniteSet(f)
  BY <1>2, FS_Subset
<1> QED
  BY <1>2, <1>3, FS_CardinalityType

(* A free head is offered. *)
LEMMA HeadOffered ==
  ASSUME NEW w \in Seq(Heads), NEW a \in Seq(Heads), NEW f \in SUBSET Heads, NEW h \in f,
         Apart(w, a, f), Counted(w, a, f)
  PROVE  Apart(Append(w, h), a, f \ {h}) /\ Counted(Append(w, h), a, f \ {h})
<1>1. /\ Append(w, h) \in Seq(Heads) /\ Len(Append(w, h)) = Len(w) + 1
      /\ \A i \in 1 .. Len(w) : Append(w, h)[i] = w[i]
      /\ Append(w, h)[Len(w) + 1] = h /\ Len(w) \in Nat /\ Len(a) \in Nat
  OBVIOUS
<1>2. Cardinality(f \ {h}) = Cardinality(f) - 1 /\ Cardinality(f) \in Nat
  BY Finite, FS_RemoveElement
<1>3. Counted(Append(w, h), a, f \ {h})
  BY <1>1, <1>2 DEF Counted
<1>4. \A i \in 1 .. Len(w) + 1 : i \in 1 .. Len(w) \/ i = Len(w) + 1
  BY <1>1
<1> QED
  BY <1>1, <1>3, <1>4 DEF Apart, Once

(* The first that waits is popped. *)
LEMMA HeadPopped ==
  ASSUME NEW w \in Seq(Heads), NEW a \in Seq(Heads), NEW f \in SUBSET Heads,
         Len(w) > 0, Apart(w, a, f), Counted(w, a, f)
  PROVE  /\ Apart(Tail(w), Append(a, Head(w)), f)
         /\ Counted(Tail(w), Append(a, Head(w)), f)
<1> DEFINE h == Head(w)
           b == Append(a, h)
           v == Tail(w)
<1>1. /\ h = w[1] /\ h \in Heads /\ Len(w) \in Nat /\ Len(a) \in Nat
      /\ v \in Seq(Heads) /\ Len(v) = Len(w) - 1 /\ \A i \in 1 .. Len(v) : v[i] = w[i + 1]
  OBVIOUS
<1>2. /\ b \in Seq(Heads) /\ Len(b) = Len(a) + 1
      /\ \A i \in 1 .. Len(a) : b[i] = a[i]
      /\ b[Len(a) + 1] = h
  BY <1>1
<1>3. Counted(v, b, f)
  BY <1>1, <1>2, Finite DEF Counted
<1>4. \A i \in 1 .. Len(a) + 1 : i \in 1 .. Len(a) \/ i = Len(a) + 1
  BY <1>1
<1>5. \A i \in 1 .. Len(v) : i + 1 \in 1 .. Len(w) /\ v[i] = w[i + 1] /\ v[i] # h
  BY <1>1 DEF Apart, Once
<1> HIDE DEF h, b, v
<1>6. Once(v)
  BY <1>1, <1>5 DEF Apart, Once
<1>7. Once(b)
  BY <1>1, <1>2, <1>4 DEF Apart, Once
<1>8. ASSUME NEW i \in 1 .. Len(v), NEW j \in 1 .. Len(b)
      PROVE  v[i] \notin f /\ v[i] # b[j]
  <2>1. v[i] = w[i + 1] /\ i + 1 \in 1 .. Len(w) /\ v[i] # h
    BY <1>5
  <2>2. CASE j \in 1 .. Len(a)
    BY <1>2, <2>1, <2>2 DEF Apart
  <2>3. CASE j = Len(a) + 1
    BY <1>2, <2>1, <2>3 DEF Apart
  <2> QED
    BY <1>2, <1>4, <2>2, <2>3
<1>9. ASSUME NEW j \in 1 .. Len(b)
      PROVE  b[j] \notin f
  <2>1. 1 \in 1 .. Len(w)
    BY <1>1
  <2> QED
    BY <1>1, <1>2, <1>4, <2>1 DEF Apart
<1>10. 1 \in 1 .. Len(b)
  BY <1>1, <1>2
<1>11. Apart(v, b, f)
  BY <1>6, <1>7, <1>8, <1>9, <1>10 DEF Apart
<1> QED
  BY <1>3, <1>11 DEF h, b, v

(* The first answer is taken. *)
LEMMA HeadTaken ==
  ASSUME NEW w \in Seq(Heads), NEW a \in Seq(Heads), NEW f \in SUBSET Heads,
         Len(a) > 0, Apart(w, a, f), Counted(w, a, f)
  PROVE  Apart(w, Tail(a), f \cup {Head(a)}) /\ Counted(w, Tail(a), f \cup {Head(a)})
<1> DEFINE h == Head(a)
           b == Tail(a)
<1>1. /\ h = a[1] /\ h \in Heads /\ Len(w) \in Nat /\ Len(a) \in Nat
      /\ b \in Seq(Heads) /\ Len(b) = Len(a) - 1 /\ \A i \in 1 .. Len(b) : b[i] = a[i + 1]
  OBVIOUS
<1>2. h \notin f
  BY <1>1 DEF Apart
<1>3. Cardinality(f \cup {h}) = Cardinality(f) + 1 /\ Cardinality(f) \in Nat
  BY <1>2, Finite, FS_AddElement
<1>4. Counted(w, b, f \cup {h})
  BY <1>1, <1>3 DEF Counted
<1>5. \A i \in 1 .. Len(b) : i + 1 \in 1 .. Len(a) /\ b[i] = a[i + 1] /\ b[i] # h
  BY <1>1 DEF Apart, Once
<1>6. \A i \in 1 .. Len(w) : w[i] # h
  BY <1>1 DEF Apart
<1> HIDE DEF h, b
<1>7. Once(b)
  BY <1>1, <1>5 DEF Apart, Once
<1>8. Apart(w, b, f \cup {h})
  BY <1>1, <1>5, <1>6, <1>7 DEF Apart
<1> QED
  BY <1>4, <1>8 DEF h, b

(* The element that is popped comes after the answers in the ring. *)
LEMMA WithHeld ==
  ASSUME NEW s \in Seq(Heads), NEW e \in Heads, NEW q
  PROVE  s \o (IF q = "popped" THEN <<e>> ELSE << >>) = IF q = "popped" THEN Append(s, e) ELSE s
<1>1. CASE q = "popped"
  <2>1. <<e>> \in Seq(Heads) /\ Len(<<e>>) = 1 /\ <<e>>[1] = e
    OBVIOUS
  <2>2. /\ s \o <<e>> \in Seq(Heads) /\ Len(s \o <<e>>) = Len(s) + 1
        /\ \A k \in 1 .. Len(s) + 1 : (s \o <<e>>)[k] = IF k <= Len(s) THEN s[k] ELSE <<e>>[k - Len(s)]
    BY <2>1, ConcatProperties
  <2>3. Len(s) \in Nat
    OBVIOUS
  <2>4. /\ \A k \in 1 .. Len(s) : (s \o <<e>>)[k] = s[k]
        /\ (s \o <<e>>)[Len(s) + 1] = e
    <3>1. \A k \in 1 .. Len(s) : k \in 1 .. Len(s) + 1 /\ k <= Len(s)
      BY <2>3
    <3>2. Len(s) + 1 \in 1 .. Len(s) + 1 /\ ~ (Len(s) + 1 <= Len(s)) /\ (Len(s) + 1) - Len(s) = 1
      BY <2>3
    <3> QED
      BY <2>1, <2>2, <3>1, <3>2
  <2>5. s \o <<e>> = Append(s, e)
    BY <2>2, <2>4, IsAppend
  <2> QED
    BY <1>1, <2>5
<1>2. CASE q # "popped"
  BY <1>2, ConcatEmptySeq
<1> QED
  BY <1>1, <1>2

(* What the rings hold, in any state whose variables have their types.     *)
LEMMA RingsHold ==
  ASSUME VQTypeOK
  PROVE  /\ Offered \in Seq(Heads) /\ Len(Offered) = Dist(lastAvail, availIdx)
         /\ Back \in Seq(Heads) /\ Len(Back) = Dist(takenIdx, usedIdx)
         /\ Answered = IF qpc = "popped" THEN Append(Back, elem) ELSE Back
         /\ Answered \in Seq(Heads)
         /\ Len(Answered) = Len(Back) + Len(Held) /\ Len(Held) = IF qpc = "popped" THEN 1 ELSE 0
<1>1. Offered \in Seq(Heads) /\ Len(Offered) = Dist(lastAvail, availIdx)
  BY BetweenIs DEF VQTypeOK, Offered
<1>2. Back \in Seq(Heads) /\ Len(Back) = Dist(takenIdx, usedIdx)
  BY BetweenIs DEF VQTypeOK, Back
<1>3. Answered = IF qpc = "popped" THEN Append(Back, elem) ELSE Back
  BY <1>2, WithHeld DEF VQTypeOK, Answered, Held
<1>4. Answered \in Seq(Heads) /\ Len(Answered) = Len(Back) + (IF qpc = "popped" THEN 1 ELSE 0)
  BY <1>2, <1>3 DEF VQTypeOK
<1>5. Len(Held) = IF qpc = "popped" THEN 1 ELSE 0
  BY DEF Held
<1> QED
  BY <1>1, <1>2, <1>3, <1>4, <1>5

-----------------------------------------------------------------------------
(***************************************************************************)
(* The steps.                                                              *)
(***************************************************************************)
(* Nothing is in the rings at the start or after a reset. *)
LEMMA EmptyRings ==
  ASSUME NEW slots \in [Heads -> Heads]
  PROVE  Between(slots, 0, 0) = << >>
<1>1. 0 \in Index /\ Dist(0, 0) = 0
  BY QueueAssumption, DistNext DEF Index
<1>2. Between(slots, 0, 0) \in Seq(Heads) /\ Len(Between(slots, 0, 0)) = 0
  BY <1>1, BetweenIs
<1> QED
  BY <1>2, EmptySeq

LEMMA StartStep ==
  QueueInit => VQInv /\ Q!Start
<1> SUFFICES ASSUME QueueInit
             PROVE  VQInv /\ Q!Start
  OBVIOUS
<1>1. Num \in Nat \ {0} /\ Span \in Nat /\ Span > Num /\ 0 \in Index /\ 0 \in Heads
  BY QueueAssumption DEF Index, Heads
<1>2. VQTypeOK
  <2>1. [s \in Heads |-> 0] \in [Heads -> Heads] /\ 0 \in 0 .. 1
    BY <1>1
  <2> QED
    BY <1>1, <2>1 DEF QueueInit, VQTypeOK
<1>3. Offered = << >> /\ Back = << >> /\ Answered = << >> /\ Held = << >>
  <2>1. Offered = << >> /\ Back = << >>
    BY <1>2, EmptyRings DEF QueueInit, VQTypeOK, Offered, Back
  <2> QED
    BY <1>2, <2>1, RingsHold DEF QueueInit, Held
<1>4. Apart(Offered, Answered, free) /\ Counted(Offered, Answered, free)
  BY <1>1, <1>3, Finite DEF QueueInit, Apart, Once, Counted
<1>5. DeviceOK
  BY <1>1, <1>3 DEF QueueInit, DeviceOK
<1>6. Q!Start
  BY <1>3 DEF Q!Start, QueueInit, Offered, Answered, Back, Held
<1> QED
  BY <1>2, <1>4, <1>5, <1>6 DEF VQInv

LEMMA ResetStep ==
  ASSUME VQInv, Reset
  PROVE  VQInv' /\ Q!Start'
<1>1. Num \in Nat \ {0} /\ Span \in Nat /\ Span > Num /\ 0 \in Index /\ 0 \in Heads
  BY QueueAssumption DEF Index, Heads
<1>2. VQTypeOK'
  <2>1. [s \in Heads |-> 0] \in [Heads -> Heads] /\ 0 \in 0 .. 1
    BY <1>1
  <2> QED
    BY <1>1, <2>1 DEF Reset, VQTypeOK
<1>3. Offered' = << >> /\ Back' = << >> /\ Held' = << >> /\ Answered' = << >>
  <2>1. Offered' = << >> /\ Back' = << >>
    BY <1>2, EmptyRings DEF Reset, VQTypeOK, Offered, Back
  <2>2. Held' = << >> /\ << >> \in Seq(Heads)
    BY DEF Reset, Held
  <2> QED
    BY <2>1, <2>2, ConcatEmptySeq DEF Answered
<1>4. Apart(Offered, Answered, free)' /\ Counted(Offered, Answered, free)'
  BY <1>1, <1>3, Finite DEF Reset, Apart, Once, Counted
<1>5. DeviceOK'
  BY <1>1, <1>3 DEF Reset, DeviceOK
<1>6. Q!Start'
  BY <1>3 DEF Q!Start, Reset, Offered, Answered, Back, Held
<1> QED
  BY <1>2, <1>4, <1>5, <1>6 DEF VQInv

(* The guest offers a head: a request is added. *)
LEMMA AddStep ==
  ASSUME VQInv, NEW h \in Heads, GuestAdd(h)
  PROVE  VQInv' /\ Q!AddRequest(h)
<1> Num \in Nat \ {0} /\ Span \in Nat /\ Span > Num
  BY QueueAssumption
<1>1. VQTypeOK /\ h \in free /\ free \in SUBSET Heads /\ DeviceOK
  BY DEF VQInv, VQTypeOK, GuestAdd
<1>2. /\ Offered \in Seq(Heads) /\ Answered \in Seq(Heads)
      /\ Len(Offered) = Dist(lastAvail, availIdx)
  BY <1>1, RingsHold
<1>3. Apart(Offered, Answered, free) /\ Counted(Offered, Answered, free)
  BY DEF VQInv
<1>4. Dist(lastAvail, availIdx) < Num /\ Dist(lastAvail, availIdx) < Span - 1
  <2>1. Cardinality(free) \in Nat \ {0}
    BY <1>1, Finite, FS_EmptySet
  <2>2. Len(Offered) \in Nat /\ Len(Answered) \in Nat
    BY <1>2
  <2> QED
    BY <1>2, <1>3, <2>1, <2>2 DEF Counted
<1>5. /\ availRing' \in [Heads -> Heads]
      /\ Offered' = Append(Offered, h)
  <2>1. availIdx \in Index /\ lastAvail \in Index /\ availRing \in [Heads -> Heads]
    BY <1>1 DEF VQTypeOK
  <2>2. /\ availRing' = [availRing EXCEPT ![Slot(availIdx)] = h]
        /\ availIdx' = Next16(availIdx) /\ lastAvail' = lastAvail
    BY DEF GuestAdd, deviceVars
  <2>3. Slot(availIdx) \in Heads
    BY <2>1, SlotWraps DEF Index
  <2>4. /\ availRing' \in [Heads -> Heads] /\ availRing'[Slot(availIdx)] = h
        /\ \A s \in Heads : s # Slot(availIdx) => availRing'[s] = availRing[s]
    BY <2>1, <2>2, <2>3
  <2>5. Between(availRing', lastAvail, Next16(availIdx)) = Append(Offered, h)
    BY <1>4, <2>1, <2>4, BetweenAppend DEF Offered
  <2> QED
    BY <2>2, <2>4, <2>5 DEF Offered
<1>6. Answered' = Answered /\ Held' = Held
  BY DEF GuestAdd, deviceVars, Answered, Back, Held
<1>7. VQTypeOK'
  BY <1>1, <1>5, NextIs DEF VQTypeOK, GuestAdd, deviceVars, Index
<1>8. Apart(Offered, Answered, free)' /\ Counted(Offered, Answered, free)'
  BY <1>1, <1>2, <1>3, <1>5, <1>6, HeadOffered DEF GuestAdd
<1>9. DeviceOK'
  <2>1. Dist(lastAvail, availIdx)' = Dist(lastAvail, availIdx) + 1
    BY <1>1, <1>4, DistNext DEF VQTypeOK, GuestAdd, deviceVars
  <2>2. Dist(lastAvail, availIdx) \in Index /\ Dist(lastAvail, shadowAvail) \in Index
    BY <1>1, DistNext DEF VQTypeOK
  <2> QED
    BY <1>1, <1>6, <2>1, <2>2 DEF DeviceOK, GuestAdd, deviceVars, Index
<1>10. Q!AddRequest(h)
  <2>1. h \notin Q!Members(Offered) \cup Q!Members(Answered)
    BY <1>1, <1>2, <1>3 DEF Apart, Q!Members
  <2> QED
    BY <2>1, <1>5, <1>6 DEF Q!AddRequest, GuestAdd, deviceVars, Offered, Answered, Back, Held
<1> QED
  BY <1>7, <1>8, <1>9, <1>10 DEF VQInv

(* The guest takes an answer back. *)
LEMMA TakeStep ==
  ASSUME VQInv, GuestTake
  PROVE  VQInv' /\ Q!TakeAnswer
<1>1. VQTypeOK /\ free \in SUBSET Heads /\ DeviceOK
  BY DEF VQInv, VQTypeOK
<1>2. /\ Offered \in Seq(Heads) /\ Answered \in Seq(Heads) /\ Back \in Seq(Heads) /\ elem \in Heads
      /\ Answered = IF qpc = "popped" THEN Append(Back, elem) ELSE Back
  BY <1>1, RingsHold DEF VQTypeOK
<1>3. Apart(Offered, Answered, free) /\ Counted(Offered, Answered, free)
  BY DEF VQInv
<1>4. takenIdx \in Index /\ usedIdx \in Index /\ usedRing \in [Heads -> Heads] /\ takenIdx # usedIdx
  BY <1>1 DEF VQTypeOK, GuestTake
<1>5. /\ takenIdx' = Next16(takenIdx) /\ takenIdx' \in Index
      /\ free' = free \cup {usedRing[Slot(takenIdx)]}
      /\ Offered' = Offered /\ Held' = Held /\ qpc' = qpc /\ elem' = elem
  BY <1>4, NextIs DEF GuestTake, deviceVars, Offered, Held
<1>6. Len(Back) > 0 /\ Head(Back) = usedRing[Slot(takenIdx)] /\ Back' = Tail(Back)
  BY <1>4, BetweenTail DEF Back, GuestTake
<1>7. /\ Len(Answered) > 0 /\ Head(Answered) = Head(Back)
      /\ Tail(Answered) = IF qpc = "popped" THEN Append(Tail(Back), elem) ELSE Tail(Back)
  <2>1. CASE qpc = "popped"
    <3>1. Len(Append(Back, elem)) > 0 /\ Head(Append(Back, elem)) = Head(Back)
      BY <1>2, <1>6
    <3>2. Append(Tail(Back), elem) = Tail(Append(Back, elem))
      <4>1. /\ Append(Back, elem) \in Seq(Heads) /\ Tail(Back) \in Seq(Heads)
            /\ Len(Append(Back, elem)) = Len(Back) + 1 /\ Len(Tail(Back)) = Len(Back) - 1
            /\ Append(Tail(Back), elem) \in Seq(Heads)
            /\ Len(Append(Tail(Back), elem)) = Len(Back)
        BY <1>2, <1>6
      <4>2. \A k \in 1 .. Len(Append(Tail(Back), elem)) : Append(Tail(Back), elem)[k] = Append(Back, elem)[k + 1]
        BY <1>2, <1>6
      <4>3. Len(Append(Back, elem)) > 0 /\ Len(Back) \in Nat
        BY <3>1, <1>2
      <4>4. Len(Append(Tail(Back), elem)) = Len(Append(Back, elem)) - 1
        BY <4>1, <4>3
      <4> QED
        BY <4>1, <4>2, <4>3, <4>4, IsTail
    <3> QED
      BY <1>2, <2>1, <3>1, <3>2
  <2> QED
    BY <1>2, <1>6, <2>1
<1>8. Answered' = Tail(Answered)
  <2>1. Tail(Back) \in Seq(Heads)
    BY <1>2, <1>6
  <2> QED
    BY <1>2, <1>5, <1>6, <1>7, <2>1, WithHeld DEF Answered, Held
<1>9. VQTypeOK'
  <2>1. Slot(takenIdx) \in Heads
    BY <1>4, SlotWraps DEF Index
  <2> QED
    BY <1>1, <1>4, <1>5, <2>1 DEF VQTypeOK, GuestTake, deviceVars
<1>10. Apart(Offered, Answered, free)' /\ Counted(Offered, Answered, free)'
  BY <1>1, <1>2, <1>3, <1>5, <1>6, <1>7, <1>8, HeadTaken
<1>11. DeviceOK'
  BY <1>1, <1>5 DEF DeviceOK, GuestTake, deviceVars
<1>12. Q!TakeAnswer
  <2>1. Answered # << >>
    BY <1>7, EmptySeq
  <2> QED
    BY <2>1, <1>5, <1>8 DEF Q!TakeAnswer, GuestTake, deviceVars, Offered, Answered, Back, Held
<1> QED
  BY <1>9, <1>10, <1>11, <1>12 DEF VQInv

(* A step that moves no head and leaves the device's places alone. *)
LEMMA KickStep ==
  ASSUME VQInv, GuestKick
  PROVE  VQInv' /\ Q!Tell
<1>1. VQTypeOK /\ DeviceOK /\ Span \in Nat /\ Span > Num /\ Num \in Nat \ {0}
  BY QueueAssumption DEF VQInv
<1>2. Offered' = Offered /\ Answered' = Answered /\ Held' = Held /\ free' = free
  BY DEF GuestKick, deviceVars, Offered, Answered, Back, Held
<1>3. VQTypeOK'
  BY <1>1 DEF VQTypeOK, GuestKick, deviceVars, Index, NeedEvent
<1>4. Apart(Offered, Answered, free)' /\ Counted(Offered, Answered, free)'
  BY <1>2 DEF VQInv
<1>5. DeviceOK'
  BY <1>1, <1>2 DEF DeviceOK, GuestKick, deviceVars
<1>6. NeedEvent(availEvent, availIdx, (availIdx - numAdded) % Span) <=> Len(Offered) \in 1 .. numAdded
  <2> DEFINE d == Dist(lastAvail, availIdx)
             old == (availIdx - numAdded) % Span
  <2>1. /\ availIdx \in Index /\ lastAvail \in Index /\ availEvent = lastAvail
        /\ numAdded \in Index /\ Len(Offered) = d /\ d \in Index
    BY <1>1, RingsHold, DistNext DEF VQTypeOK, DeviceOK
  <2>2. old \in Index /\ old = IF numAdded <= availIdx THEN availIdx - numAdded ELSE availIdx - numAdded + Span
    <3>1. Dist(numAdded, availIdx) = old
      BY DEF Dist
    <3> QED
      BY <2>1, <3>1, DistIs, DistNext
  <2>3. (availIdx - old) % Span = numAdded
    <3>1. (availIdx - old) % Span = Dist(old, availIdx)
      BY DEF Dist
    <3> HIDE DEF old
    <3>2. Dist(old, availIdx) = IF old <= availIdx THEN availIdx - old ELSE availIdx - old + Span
      BY <2>1, <2>2, DistIs
    <3> QED
      BY <1>1, <2>1, <2>2, <3>1, <3>2 DEF Index
  <2>4. (availIdx - lastAvail - 1) % Span = IF d = 0 THEN Span - 1 ELSE d - 1
    <3>1. d = IF lastAvail <= availIdx THEN availIdx - lastAvail ELSE availIdx - lastAvail + Span
      BY <2>1, DistIs
    <3> DEFINE x == availIdx - lastAvail - 1
               r == IF d = 0 THEN Span - 1 ELSE d - 1
    <3>2. r \in 0 .. Span - 1 /\ x \in Int /\ Span \in Nat \ {0}
      BY <1>1, <2>1 DEF Index
    <3>3. x = Span * 0 + r \/ x = Span * (-1) + r
      BY <1>1, <2>1, <3>1 DEF Index
    <3> HIDE DEF x, r
    <3>4. x % Span = r
      <4>1. CASE x = Span * 0 + r
        BY <3>2, <4>1, ModUnique
      <4>2. CASE x = Span * (-1) + r
        BY <3>2, <4>2, ModUnique
      <4> QED
        BY <3>3, <4>1, <4>2
    <3> QED
      BY <3>4 DEF x, r
  <2> HIDE DEF d, old
  <2>5. NeedEvent(availEvent, availIdx, old) <=> (IF d = 0 THEN Span - 1 ELSE d - 1) < numAdded
    BY <2>1, <2>3, <2>4 DEF NeedEvent
  <2> QED
    BY <1>1, <2>1, <2>5 DEF Index, old
<1>7. Q!Tell
  BY <1>2, <1>6 DEF Q!Tell, GuestKick, deviceVars, Offered, Answered, Back, Held
<1> QED
  BY <1>3, <1>4, <1>5, <1>7 DEF VQInv

(* The handler is called: the device is not broken. *)
LEMMA CallStep ==
  ASSUME VQInv, NotifierRead
  PROVE  VQInv' /\ Q!CallHandler
<1>1. VQTypeOK /\ DeviceOK /\ ~broken
  BY DEF VQInv, DeviceOK
<1>2. Held' = Held /\ Held = << >>
  BY <1>1 DEF NotifierRead, Held
<1>3. Offered' = Offered /\ Answered' = Answered /\ free' = free
  BY <1>2 DEF NotifierRead, guestVars, Offered, Answered, Back
<1>4. VQTypeOK'
  BY <1>1 DEF VQTypeOK, NotifierRead, guestVars
<1>5. Apart(Offered, Answered, free)' /\ Counted(Offered, Answered, free)'
  BY <1>3 DEF VQInv
<1>6. DeviceOK'
  BY <1>1, <1>2 DEF DeviceOK, NotifierRead, guestVars
<1>7. Q!CallHandler
  BY <1>1, <1>3 DEF Q!CallHandler, NotifierRead, guestVars, Offered, Answered, Back, Held
<1> QED
  BY <1>4, <1>5, <1>6, <1>7 DEF VQInv

(* The device looks: it goes on if and only if a request waits. *)
LEMMA LookStep ==
  ASSUME VQInv, Look
  PROVE  VQInv' /\ (Q!AnswerOne \/ UNCHANGED Q!queueVars)
<1>1. VQTypeOK /\ DeviceOK /\ ~broken /\ qpc = "called" /\ Num \in Nat \ {0}
  BY QueueAssumption DEF VQInv, DeviceOK, Look
<1>2. Held = << >> /\ inuse = 0
  BY <1>1 DEF DeviceOK, Held
<1>3. /\ lastAvail \in Index /\ availIdx \in Index /\ shadowAvail \in Index
      /\ Len(Offered) = Dist(lastAvail, availIdx) /\ Offered \in Seq(Heads)
      /\ Dist(lastAvail, availIdx) \in Index
      /\ Dist(lastAvail, availIdx) = 0 <=> lastAvail = availIdx
      /\ Dist(lastAvail, shadowAvail) \in Index
      /\ Dist(lastAvail, shadowAvail) = 0 <=> lastAvail = shadowAvail
  BY <1>1, RingsHold, DistNext DEF VQTypeOK
<1>4. shadowAvail' = lastAvail <=> Offered = << >>
  <2>1. Offered = << >> <=> Len(Offered) = 0
    BY <1>3
  <2> QED
    BY <1>1, <1>3, <2>1 DEF Look, DeviceOK, Index
<1>5. /\ qpc' = (IF Offered = << >> THEN "idle" ELSE "seen") /\ ~broken'
      /\ shadowAvail' \in {shadowAvail, availIdx} /\ inuse' = inuse
  <2>1. ~ (inuse >= Num)
    BY <1>1, <1>2
  <2>2. qpc' = IF shadowAvail' = lastAvail THEN "idle" ELSE "seen"
    BY <2>1 DEF Look
  <2>3. ~broken' /\ shadowAvail' \in {shadowAvail, availIdx} /\ inuse' = inuse
    BY <2>1 DEF Look
  <2> QED
    BY <1>4, <2>2, <2>3
<1>6. Held' = Held
  BY <1>2, <1>5 DEF Held
<1>7. Offered' = Offered /\ Answered' = Answered /\ free' = free
  BY <1>6 DEF Look, guestVars, Offered, Answered, Back
<1>8. VQTypeOK'
  BY <1>1, <1>3, <1>5 DEF VQTypeOK, Look, guestVars
<1>9. Apart(Offered, Answered, free)' /\ Counted(Offered, Answered, free)'
  BY <1>7 DEF VQInv
<1>10. DeviceOK'
  <2>1. Dist(lastAvail, shadowAvail)' <= Dist(lastAvail, availIdx)'
    BY <1>1, <1>3, <1>5 DEF DeviceOK, Look, guestVars, Index
  <2> QED
    BY <1>1, <1>4, <1>5, <1>6, <2>1 DEF DeviceOK, Look, guestVars
<1>11. Q!AnswerOne \/ UNCHANGED Q!queueVars
  BY <1>1, <1>5, <1>7 DEF Q!AnswerOne, Q!queueVars, Look, guestVars, Offered, Answered, Back, Held
<1> QED
  BY <1>8, <1>9, <1>10, <1>11 DEF VQInv

(* The device pops: the first request that waits counts as answered. *)
LEMMA PopStep ==
  ASSUME VQInv, Pop
  PROVE  VQInv' /\ Q!AnswerOne
<1>1. VQTypeOK /\ DeviceOK /\ qpc = "seen" /\ Num \in Nat \ {0} /\ free \in SUBSET Heads
  BY QueueAssumption DEF VQInv, Pop, VQTypeOK
<1>2. /\ lastAvail \in Index /\ availIdx \in Index /\ shadowAvail \in Index
      /\ availRing \in [Heads -> Heads] /\ elem \in Heads
  BY <1>1 DEF VQTypeOK
<1>3. /\ lastAvail # shadowAvail
      /\ Dist(lastAvail, shadowAvail) \in Index /\ Dist(lastAvail, shadowAvail) > 0
      /\ Dist(lastAvail, availIdx) \in Index /\ Dist(lastAvail, availIdx) > 0
      /\ lastAvail # availIdx
      /\ Dist(Next16(lastAvail), shadowAvail) = Dist(lastAvail, shadowAvail) - 1
      /\ Dist(Next16(lastAvail), availIdx) = Dist(lastAvail, availIdx) - 1
  <2>1. lastAvail # shadowAvail /\ Dist(lastAvail, shadowAvail) <= Dist(lastAvail, availIdx)
    BY <1>1 DEF DeviceOK
  <2>2. Dist(lastAvail, shadowAvail) \in Index /\ Dist(lastAvail, shadowAvail) # 0
    BY <1>2, <2>1, DistNext
  <2>3. Dist(lastAvail, availIdx) \in Index /\ Dist(lastAvail, availIdx) > 0
    BY <1>2, <2>1, <2>2, DistNext DEF Index
  <2>4. Dist(lastAvail, shadowAvail) > 0
    BY <2>2 DEF Index
  <2>5. Dist(Next16(lastAvail), shadowAvail) = Dist(lastAvail, shadowAvail) - 1
    BY <1>2, <2>4, DistNext
  <2>6. Dist(Next16(lastAvail), availIdx) = Dist(lastAvail, availIdx) - 1 /\ lastAvail # availIdx
    BY <1>2, <2>3, DistNext
  <2> QED
    BY <2>1, <2>2, <2>3, <2>4, <2>5, <2>6
<1>4. /\ Offered \in Seq(Heads) /\ Answered \in Seq(Heads) /\ Back \in Seq(Heads)
      /\ Answered = Back /\ Held = << >>
  BY <1>1, RingsHold DEF Held
<1>5. /\ Len(Offered) > 0 /\ elem' = Head(Offered)
      /\ lastAvail' = Next16(lastAvail) /\ lastAvail' \in Index /\ Offered' = Tail(Offered)
  BY <1>2, <1>3, BetweenTail, NextIs DEF Pop, Offered
<1>6. Back' = Back /\ Held' = <<elem'>> /\ free' = free /\ elem' \in Heads
  BY <1>4, <1>5 DEF Pop, guestVars, Back, Held
<1>7. Answered' = Append(Answered, Head(Offered))
  BY <1>4, <1>5, <1>6, WithHeld DEF Answered, Held, Pop
<1>8. inuse' = 1 /\ Len(Held)' = 1
  BY <1>1, <1>4, <1>6 DEF DeviceOK, Pop
<1>9. VQTypeOK'
  BY <1>1, <1>5, <1>6, <1>8 DEF VQTypeOK, Pop, guestVars, AskFor
<1>10. Apart(Offered, Answered, free)' /\ Counted(Offered, Answered, free)'
  BY <1>1, <1>4, <1>5, <1>6, <1>7, HeadPopped DEF VQInv
<1>11. DeviceOK'
  BY <1>1, <1>3, <1>8 DEF DeviceOK, Pop, guestVars, AskFor, Index
<1>12. Q!AnswerOne
  <2>1. Offered # << >>
    BY <1>5, EmptySeq
  <2> QED
    BY <1>1, <1>5, <1>7, <2>1 DEF Q!AnswerOne, Pop, guestVars, Offered, Answered, Back, Held
<1> QED
  BY <1>9, <1>10, <1>11, <1>12 DEF VQInv

(* The device pushes: what was popped is now in the ring, behind the rest. *)
LEMMA PushStep ==
  ASSUME VQInv, Push
  PROVE  VQInv' /\ UNCHANGED Q!queueVars
<1>1. /\ VQTypeOK /\ DeviceOK /\ qpc = "popped" /\ free \in SUBSET Heads
      /\ Num \in Nat \ {0} /\ Span \in Nat /\ Span > Num
  BY QueueAssumption DEF VQInv, Push, VQTypeOK
<1>2. takenIdx \in Index /\ usedIdx \in Index /\ usedRing \in [Heads -> Heads] /\ elem \in Heads
  BY <1>1 DEF VQTypeOK
<1>3. /\ Offered \in Seq(Heads) /\ Answered \in Seq(Heads) /\ Back \in Seq(Heads)
      /\ Answered = Append(Back, elem) /\ Len(Back) = Dist(takenIdx, usedIdx)
      /\ Len(Answered) = Len(Back) + 1
  BY <1>1, <1>2, RingsHold
<1>4. Dist(takenIdx, usedIdx) < Num
  <2>1. Cardinality(free) \in Nat
    BY <1>1, Finite
  <2>2. Len(Offered) \in Nat /\ Len(Back) \in Nat
    BY <1>3
  <2> QED
    BY <1>1, <1>3, <2>1, <2>2 DEF VQInv, Counted
<1>5. usedRing' \in [Heads -> Heads] /\ usedIdx' \in Index /\ Back' = Append(Back, elem)
  <2>1. /\ usedRing' = [usedRing EXCEPT ![Slot(usedIdx)] = elem]
        /\ usedIdx' = Next16(usedIdx) /\ takenIdx' = takenIdx
    BY DEF Push, guestVars
  <2>2. Slot(usedIdx) \in Heads
    BY <1>2, SlotWraps DEF Index
  <2>3. /\ usedRing' \in [Heads -> Heads] /\ usedRing'[Slot(usedIdx)] = elem
        /\ \A s \in Heads : s # Slot(usedIdx) => usedRing'[s] = usedRing[s]
    BY <1>2, <2>1, <2>2
  <2>4. Between(usedRing', takenIdx, Next16(usedIdx)) = Append(Back, elem)
    BY <1>2, <1>4, <2>3, BetweenAppend DEF Back
  <2> QED
    BY <1>2, <2>1, <2>3, <2>4, NextIs DEF Back
<1>6. Held' = << >> /\ Offered' = Offered /\ free' = free
  BY DEF Push, guestVars, Held, Offered
<1>7. Answered' = Answered
  BY <1>3, <1>5, <1>6, ConcatEmptySeq DEF Answered
<1>8. inuse' = 0 /\ Len(Held)' = 0
  BY <1>1, <1>6 DEF DeviceOK, Push, Held
<1>9. VQTypeOK'
  BY <1>1, <1>5, <1>8 DEF VQTypeOK, Push, guestVars
<1>10. Apart(Offered, Answered, free)' /\ Counted(Offered, Answered, free)'
  BY <1>6, <1>7 DEF VQInv
<1>11. DeviceOK'
  BY <1>1, <1>8 DEF DeviceOK, Push, guestVars
<1>12. UNCHANGED Q!queueVars
  <2>1. qpc \notin {"called", "seen"} /\ qpc' \notin {"called", "seen"}
    BY DEF Push
  <2>2. (qpc \in {"called", "seen"})' = (qpc \in {"called", "seen"})
    BY <2>1
  <2>3. numAdded' = numAdded /\ notifier' = notifier
    BY DEF Push, guestVars
  <2> QED
    BY <1>6, <1>7, <2>2, <2>3 DEF Q!queueVars, Offered, Answered, Back, Held
<1> QED
  BY <1>9, <1>10, <1>11, <1>12 DEF VQInv

LEMMA StutterStep ==
  ASSUME VQInv, UNCHANGED vqVars
  PROVE  VQInv' /\ UNCHANGED Q!queueVars
<1>1. Offered' = Offered /\ Answered' = Answered /\ Held' = Held /\ free' = free
  BY DEF vqVars, Offered, Answered, Back, Held
<1>2. VQTypeOK'
  BY DEF VQInv, VQTypeOK, vqVars
<1>3. DeviceOK'
  BY <1>1 DEF VQInv, DeviceOK, vqVars
<1>4. UNCHANGED Q!queueVars
  BY <1>1 DEF Q!queueVars, vqVars, Offered, Answered, Back, Held
<1> QED
  BY <1>1, <1>2, <1>3, <1>4 DEF VQInv

(* Every step of the rings is one of the queue of requests, or none.       *)
LEMMA StepRefines ==
  VQInv /\ [VQNext]_vqVars => VQInv' /\ [Q!QueueNext]_(Q!queueVars)
<1> SUFFICES ASSUME VQInv, [VQNext]_vqVars
             PROVE  VQInv' /\ [Q!QueueNext]_(Q!queueVars)
  OBVIOUS
<1>1. CASE Reset
  BY <1>1, ResetStep DEF Q!QueueNext
<1>2. ASSUME NEW h \in Heads, GuestAdd(h)
      PROVE  VQInv' /\ [Q!QueueNext]_(Q!queueVars)
  BY <1>2, AddStep DEF Q!QueueNext
<1>3. CASE GuestKick
  BY <1>3, KickStep DEF Q!QueueNext
<1>4. CASE GuestTake
  BY <1>4, TakeStep DEF Q!QueueNext
<1>5. CASE NotifierRead
  BY <1>5, CallStep DEF Q!QueueNext
<1>6. CASE Look
  BY <1>6, LookStep DEF Q!QueueNext
<1>7. CASE Pop
  BY <1>7, PopStep DEF Q!QueueNext
<1>8. CASE Push
  BY <1>8, PushStep
<1>9. CASE UNCHANGED vqVars
  BY <1>9, StutterStep
<1> QED
  BY <1>1, <1>2, <1>3, <1>4, <1>5, <1>6, <1>7, <1>8, <1>9 DEF VQNext

(* Whatever the sizes, and whenever the indices wrap: the heads are free,  *)
(* offered or answered, each in one place, and the device knows where it   *)
(* is.  (virtio.c:361-374, 842-980)                                        *)
THEOREM QueueInvariance == VQSpec => []VQInv
<1>1. QueueInit => VQInv
  BY StartStep
<1>2. VQInv /\ [VQNext]_vqVars => VQInv'
  BY StepRefines
<1> QED
  BY <1>1, <1>2, PTL DEF VQSpec

(* The rings, their indices and the notifications are a queue of requests: *)
(* none is lost, overwritten, answered twice or out of order, and the      *)
(* device is told of the one it asked to be told of.  (virtio.c:361-374,   *)
(* 842-980, 469-526)                                                       *)
THEOREM RingsAreAQueue == VQSpec => ImplementsQueue
<1>1. QueueInit => Q!Start
  BY StartStep
<1>2. VQInv /\ [VQNext]_vqVars => [Q!QueueNext]_(Q!queueVars)
  BY StepRefines
<1> QED
  BY <1>1, <1>2, QueueInvariance, PTL DEF VQSpec, ImplementsQueue

-----------------------------------------------------------------------------
(***************************************************************************)
(* The lock of open.                                                       *)
(***************************************************************************)
(* p is in open of device m; it holds the semaphore, or waits for it. *)
Holds(p, m) == node[p] = m /\ opc[p] \in Inside
Sleeps(p, m) == node[p] = m /\ opc[p] = "asleep"

CryptoTypes ==
  /\ driver \in {"out", "region", "ready"}
  /\ nextMinor \in 0 .. MaxMinors /\ devs \subseteq 0 .. nextMinor - 1
  /\ sema \in [Nodes -> Int] /\ sleepers \in [Nodes -> Seq(Openers)]
  /\ ring \in [Nodes -> Rings]
  /\ opc \in [Openers -> {"out", "init", "down", "dead"} \cup Waiting \cup Inside]
  /\ node \in [Openers -> Nodes]

(* Nothing is left of a device that is not there, and nobody uses one that *)
(* has not been there yet.                                                 *)
GoneInv ==
  /\ driver # "ready" => nextMinor = 0
  /\ \A m \in Nodes \ devs : ring[m] = EmptyRing /\ sema[m] = Unready /\ sleepers[m] = << >>
  /\ \A p \in Openers : opc[p] \notin {"out", "dead"} => node[p] < nextMinor

(* Who holds the semaphore is alone, and it is 0 then; who is in its list  *)
(* is there once, and asleep.                                              *)
HolderInv ==
  \A m \in devs :
    /\ sema[m] <= 1
    /\ \A p \in Openers : Holds(p, m) => sema[m] = 0
    /\ \A p, q \in Openers : Holds(p, m) /\ Holds(q, m) => p = q

QueueOf(m) ==
  /\ \A i \in 1 .. Len(sleepers[m]) : Sleeps(sleepers[m][i], m)
  /\ \A i, j \in 1 .. Len(sleepers[m]) : sleepers[m][i] = sleepers[m][j] => i = j

QueueInv == \A m \in devs : QueueOf(m)

(* Where the one request is that a device may have: with the device, which *)
(* may be told of it late or in vain, or back.                             *)
Idle(r) == r.avail = 0 /\ r.added = 0 /\ r.used = 0
Added(r) == r.added = 1 /\ r.avail + r.used = 1
Sent(r) == r.added = 0 /\ r.avail + r.used = 1 /\ (r.avail = 1 => r.notified \/ r.called)

Fits(label, r) ==
  /\ label \in {"add", "up"} => Idle(r)
  /\ label = "kick" => Added(r)
  /\ label = "spin" => Sent(r)

RequestInv ==
  \A m \in devs :
    /\ (\A p \in Openers : ~Holds(p, m)) => Idle(ring[m])
    /\ \A p \in Openers : node[p] = m => Fits(opc[p], ring[m])

LockedInv == CryptoTypes /\ GoneInv /\ HolderInv /\ QueueInv /\ RequestInv

CryptoInv == misused \in BOOLEAN /\ (~misused => LockedInv)

-----------------------------------------------------------------------------
LEMMA InitLocked == CryptoInit => CryptoInv
<1> SUFFICES ASSUME CryptoInit PROVE CryptoInv
  OBVIOUS
<1>1. CryptoTypes
  BY CryptoAssumption DEF CryptoInit, CryptoTypes, Nodes, EmptyRing, Ring, Rings, Unready
<1>2. GoneInv /\ HolderInv /\ QueueInv /\ RequestInv
  BY DEF CryptoInit, GoneInv, HolderInv, QueueInv, QueueOf, RequestInv
<1> QED
  BY <1>1, <1>2 DEF CryptoInit, CryptoInv, LockedInv

LEMMA NodeFacts ==
  ASSUME CryptoTypes
  PROVE  /\ devs \subseteq Nodes /\ Nodes \subseteq Nat /\ nextMinor \in Nat
         /\ \A p \in Openers : node[p] \in Nodes /\ node[p] \in Nat
<1>1. Nodes \subseteq Nat
  BY CryptoAssumption DEF Nodes
<1>2. devs \subseteq Nodes /\ nextMinor \in Nat
  BY CryptoAssumption DEF CryptoTypes, Nodes
<1>3. \A p \in Openers : node[p] \in Nodes
  BY DEF CryptoTypes
<1> QED
  BY <1>1, <1>2, <1>3

(* Devices come and go. *)
LEMMA DriverLocked ==
  ASSUME LockedInv, RegisterRegion \/ RegisterDriver \/ Probe
  PROVE  LockedInv'
<1>1. CASE RegisterRegion
  BY <1>1 DEF RegisterRegion, Nodes, LockedInv, GoneInv, HolderInv, QueueInv, QueueOf, RequestInv, Holds, Sleeps, CryptoTypes
<1>2. CASE RegisterDriver
  BY <1>2 DEF RegisterDriver, LockedInv, GoneInv, HolderInv, QueueInv, QueueOf, RequestInv, Holds, Sleeps, CryptoTypes
<1>3. CASE Probe
  <2> USE <1>3 DEF Probe, LockedInv
  <2>1. nextMinor \in Nodes \ devs /\ nextMinor + 1 \in 0 .. MaxMinors
    BY CryptoAssumption DEF CryptoTypes, Nodes
  <2>2. StartedRing \in Rings /\ Idle(StartedRing)
    BY DEF StartedRing, Ring, Rings, Idle
  <2>3. CryptoTypes'
    BY <2>1, <2>2 DEF CryptoTypes
  <2>4. /\ ring'[nextMinor] = StartedRing /\ \A m \in Nodes \ {nextMinor} : ring'[m] = ring[m]
        /\ sema[nextMinor] = Unready /\ sleepers[nextMinor] = << >>
    BY <2>1 DEF CryptoTypes, GoneInv
  <2>5. \A p \in Openers : ~Holds(p, nextMinor) /\ (node[p] = nextMinor => opc[p] \in {"out", "dead"})
    BY NodeFacts DEF GoneInv, Holds, Inside
  <2>6. GoneInv'
    BY <2>1, <2>4, NodeFacts DEF GoneInv
  <2>7. HolderInv'
    BY <2>4, <2>5 DEF Unready, HolderInv, Holds
  <2>8. QueueInv'
    BY <2>4, <2>5 DEF QueueInv, QueueOf, Sleeps
  <2>9. RequestInv'
    <3>1. \A m \in devs : m # nextMinor /\ m \in Nodes
      BY <2>1, NodeFacts
    <3> QED
      BY <2>2, <2>4, <2>5, <3>1 DEF RequestInv, Holds, Fits
  <2> QED
    BY <2>3, <2>6, <2>7, <2>8, <2>9
<1> QED
  BY <1>1, <1>2, <1>3

LEMMA UnloadLocked ==
  ASSUME LockedInv, Unload
  PROVE  LockedInv'
<1> USE DEF LockedInv, Unload, Freed
<1>1. CryptoTypes'
  <2>1. Unready \in Int /\ EmptyRing \in Rings
    BY DEF Unready, EmptyRing, Ring, Rings
  <2>2. 0 \in 0 .. MaxMinors
    BY CryptoAssumption
  <2> QED
    BY <2>1, <2>2 DEF CryptoTypes
<1>2. GoneInv'
  BY DEF GoneInv
<1> QED
  BY <1>1, <1>2 DEF HolderInv, QueueInv, QueueOf, RequestInv

LEMMA RemoveLocked ==
  ASSUME LockedInv, NEW m \in Nodes, RemoveDevice(m)
  PROVE  LockedInv'
<1> USE DEF LockedInv, RemoveDevice, Freed
<1>1. CryptoTypes'
  <2>1. Unready \in Int /\ EmptyRing \in Rings
    BY DEF Unready, EmptyRing, Ring, Rings
  <2> QED
    BY <2>1 DEF CryptoTypes
<1>2. GoneInv'
  BY DEF GoneInv
<1>3. \A n \in devs' : n \in devs /\ n \in Nodes /\ ring'[n] = ring[n] /\ sema'[n] = sema[n] /\ sleepers'[n] = sleepers[n]
  BY NodeFacts
<1>4. HolderInv'
  BY <1>3 DEF HolderInv, Holds
<1>5. QueueInv'
  <2>1. opc' = opc /\ node' = node
    OBVIOUS
  <2>2. QueueInv
    OBVIOUS
  <2> HIDE DEF LockedInv, RemoveDevice, Freed
  <2> QED
    BY <1>3, <2>1, <2>2 DEF QueueInv, QueueOf, Sleeps
<1>6. RequestInv'
  BY <1>3 DEF RequestInv, Holds
<1> QED
  BY <1>1, <1>2, <1>4, <1>5, <1>6

-----------------------------------------------------------------------------
(* A step of p moves nobody else. *)
Only(p) == \A q \in Openers \ {p} : opc'[q] = opc[q] /\ node'[q] = node[q]

LEMMA QueueStays ==
  ASSUME LockedInv, NEW p \in Openers, opc[p] # "asleep", Only(p),
         NEW m \in devs, sleepers'[m] = sleepers[m]
  PROVE  QueueOf(m)'
<1>1. sleepers[m] \in Seq(Openers)
  BY NodeFacts DEF LockedInv, CryptoTypes
<1>2. \A i \in 1 .. Len(sleepers[m]) : sleepers[m][i] \in Openers /\ Sleeps(sleepers[m][i], m)
  BY <1>1 DEF LockedInv, QueueInv, QueueOf
<1>3. \A q \in Openers : Sleeps(q, m) => Sleeps(q, m)'
  BY DEF Sleeps, Only
<1> QED
  BY <1>2, <1>3 DEF LockedInv, QueueInv, QueueOf

(* An open that finds a device, or finds none. *)
LEMMA OpenLocked ==
  ASSUME LockedInv, NEW p \in Openers, NEW n \in Nodes, Open(p, n)
  PROVE  LockedInv'
<1> USE DEF LockedInv, Open, Go
<1>1. CryptoTypes' /\ Only(p) /\ opc'[p] \in {"init", "dead"} /\ node'[p] = n
  BY DEF CryptoTypes, Only
<1>2. n \in devs => n < nextMinor
  BY DEF CryptoTypes
<1>3. GoneInv'
  <2>1. opc'[p] = "init" => n \in devs
    BY DEF CryptoTypes
  <2> QED
    BY <1>1, <1>2, <2>1 DEF GoneInv, Only
<1>4. \A q \in Openers, m \in devs : /\ Holds(q, m)' <=> Holds(q, m)
                                     /\ Holds(q, m) => opc'[q] = opc[q] /\ node'[q] = node[q]
  BY <1>1 DEF Holds, Inside, Only
<1>5. HolderInv'
  BY <1>4 DEF HolderInv
<1>6. RequestInv'
  BY <1>1, <1>4 DEF RequestInv, Fits, Inside, Only
<1>7. QueueInv'
  <2>1. opc[p] # "asleep" /\ devs' = devs /\ sleepers' = sleepers
    OBVIOUS
  <2> QED
    BY <1>1, <2>1, QueueStays DEF QueueInv
<1> QED
  BY <1>1, <1>3, <1>5, <1>6, <1>7

LEMMA NoMemoryLocked ==
  ASSUME CryptoInv, ~misused, NEW p \in Openers, NEW n \in Nodes, NoMemory(p, n)
  PROVE  CryptoInv'
<1> USE DEF CryptoInv, LockedInv, NoMemory, Go
<1>1. CASE misused'
  BY <1>1
<1>2. CASE ~misused'
  <2>1. sema[n] = Unready /\ opc' = [opc EXCEPT ![p] = "dead"] /\ UNCHANGED <<sema, sleepers, misused>>
    BY <1>2
  <2>2. CryptoTypes' /\ Only(p) /\ opc'[p] = "dead" /\ node'[p] = n
    BY <2>1 DEF CryptoTypes, Only
  <2>3. GoneInv'
    BY <2>1, <2>2 DEF GoneInv, Only
  <2>4. \A q \in Openers, m \in devs : Holds(q, m)' <=> Holds(q, m)
    BY <2>2 DEF Holds, Inside, Only
  <2>5. HolderInv'
    BY <2>1, <2>4 DEF HolderInv
  <2>6. RequestInv'
    BY <2>2, <2>4 DEF RequestInv, Fits, Inside, Only
  <2>7. QueueInv'
    <3>1. opc[p] # "asleep" /\ devs' = devs /\ sleepers' = sleepers
      BY <2>1
    <3> QED
      BY <2>2, <3>1, QueueStays DEF QueueInv
  <2> QED
    BY <2>1, <2>2, <2>3, <2>5, <2>6, <2>7
<1> QED
  BY <1>1, <1>2

(* SemaInit finds nobody, or the semaphore is misused. *)
LEMMA SemaInitLocked ==
  ASSUME CryptoInv, ~misused, NEW p \in Openers, SemaInit(p)
  PROVE  CryptoInv'
<1> DEFINE n == node[p]
<1>0. misused' \in BOOLEAN
  BY DEF SemaInit, CryptoInv
<1>1. CASE misused'
  BY <1>0, <1>1 DEF CryptoInv
<1>2. CASE ~misused'
  <2>1. LockedInv
    BY DEF CryptoInv
  <2>2. /\ n \in devs /\ n \in Nodes /\ ~InUse(n) /\ opc[p] = "init"
        /\ opc' = [opc EXCEPT ![p] = "down"] /\ UNCHANGED <<driver, nextMinor, devs, ring, node>>
        /\ sema' = [sema EXCEPT ![n] = 1] /\ sleepers' = [sleepers EXCEPT ![n] = << >>]
    BY <1>2, <2>1, NodeFacts DEF LockedInv, SemaInit, Go, At, SemaStart
  <2>3. CryptoTypes' /\ Only(p) /\ opc'[p] = "down" /\ node' = node
    BY <2>1, <2>2 DEF LockedInv, CryptoTypes, Only
  <2>4. GoneInv'
    BY <2>1, <2>2, <2>3 DEF LockedInv, GoneInv, Only
  <2>5. \A q \in Openers, m \in devs : Holds(q, m)' <=> Holds(q, m)
    BY <2>2, <2>3 DEF Holds, Inside, Only
  <2>6. \A q \in Openers : ~Holds(q, n) /\ ~Sleeps(q, n)
    BY <2>2 DEF InUse, Holds, Sleeps, Waiting
  <2>7. \A m \in devs : sema'[m] = IF m = n THEN 1 ELSE sema[m]
    BY <2>1, <2>2, NodeFacts DEF LockedInv, CryptoTypes
  <2>8. HolderInv'
    BY <2>1, <2>2, <2>5, <2>6, <2>7 DEF LockedInv, HolderInv
  <2>9. RequestInv'
    BY <2>1, <2>2, <2>3, <2>5 DEF LockedInv, RequestInv, Fits, Inside, Only
  <2>10. ASSUME NEW m \in devs PROVE QueueOf(m)'
    <3>1. CASE m = n
      <4>1. sleepers'[m] = << >>
        BY <2>1, <2>2, <3>1 DEF LockedInv, CryptoTypes
      <4> QED
        BY <4>1 DEF QueueOf
    <3>2. CASE m # n
      <4>1. sleepers'[m] = sleepers[m]
        BY <2>1, <2>2, <3>2, NodeFacts DEF LockedInv, CryptoTypes
      <4> QED
        BY <2>1, <2>2, <2>3, <4>1, QueueStays
    <3> QED
      BY <3>1, <3>2
  <2>11. QueueInv'
    BY <2>2, <2>10 DEF QueueInv
  <2> QED
    BY <1>0, <2>3, <2>4, <2>8, <2>9, <2>11 DEF CryptoInv, LockedInv
<1> QED
  BY <1>1, <1>2

(* Down finds nobody inside, or sleeps. *)
LEMMA DownLocked ==
  ASSUME LockedInv, NEW p \in Openers, Down(p)
  PROVE  LockedInv'
<1> DEFINE n == node[p]
<1>1. /\ n \in devs /\ n \in Nodes /\ opc[p] = "down" /\ sleepers[n] \in Seq(Openers)
      /\ sema[n] \in Int /\ sema[n] <= 1
      /\ UNCHANGED <<driver, nextMinor, devs, ring, node>>
  BY NodeFacts DEF LockedInv, CryptoTypes, HolderInv, Down, At
<1>2. CASE sema[n] > 0
  <2>1. opc' = [opc EXCEPT ![p] = "add"] /\ sema' = [sema EXCEPT ![n] = @ - 1] /\ sleepers' = sleepers
    BY <1>2 DEF Down, Go
  <2>2. CryptoTypes' /\ Only(p) /\ opc'[p] = "add"
    BY <1>1, <2>1 DEF LockedInv, CryptoTypes, Only, Inside
  <2>3. GoneInv'
    BY <1>1, <2>1, <2>2 DEF LockedInv, GoneInv, Only
  <2>4. \A q \in Openers : ~Holds(q, n)
    BY <1>1, <1>2 DEF LockedInv, HolderInv
  <2>5. \A q \in Openers, m \in devs : Holds(q, m)' <=> Holds(q, m) \/ (q = p /\ m = n)
    BY <1>1, <2>2 DEF Holds, Inside, Only
  <2>6. \A m \in devs : sema'[m] = IF m = n THEN 0 ELSE sema[m]
    BY <1>1, <1>2, <2>1, NodeFacts DEF LockedInv, CryptoTypes
  <2>7. HolderInv'
    BY <1>1, <2>4, <2>5, <2>6 DEF LockedInv, HolderInv
  <2>8. RequestInv'
    BY <1>1, <2>2, <2>4, <2>5 DEF LockedInv, RequestInv, Fits, Inside, Only
  <2>9. QueueInv'
    BY <1>1, <2>1, <2>2, QueueStays DEF QueueInv
  <2> QED
    BY <2>2, <2>3, <2>7, <2>8, <2>9 DEF LockedInv
<1>3. CASE ~(sema[n] > 0)
  <2>1. /\ opc' = [opc EXCEPT ![p] = "asleep"] /\ sema' = sema
        /\ sleepers' = [sleepers EXCEPT ![n] = Append(@, p)]
    BY <1>3 DEF Down, Go
  <2>2. CryptoTypes' /\ Only(p) /\ opc'[p] = "asleep"
    BY <1>1, <2>1 DEF LockedInv, CryptoTypes, Only, Waiting
  <2>3. GoneInv'
    BY <1>1, <2>1, <2>2 DEF LockedInv, GoneInv, Only
  <2>4. \A q \in Openers, m \in devs : Holds(q, m)' <=> Holds(q, m)
    BY <1>1, <2>2 DEF Holds, Inside, Only
  <2>5. HolderInv'
    BY <1>1, <2>1, <2>4 DEF LockedInv, HolderInv
  <2>6. RequestInv'
    BY <1>1, <2>2, <2>4 DEF LockedInv, RequestInv, Fits, Inside, Only
  <2>7. ASSUME NEW m \in devs PROVE QueueOf(m)'
    <3>1. CASE m = n
      <4>1. sleepers'[m] = Append(sleepers[m], p) /\ sleepers[m] \in Seq(Openers)
        BY <1>1, <2>1, <3>1 DEF LockedInv, CryptoTypes
      <4>2. \A i \in 1 .. Len(sleepers[m]) : sleepers[m][i] \in Openers /\ Sleeps(sleepers[m][i], m)
        BY <4>1 DEF LockedInv, QueueInv, QueueOf
      <4>3. \A q \in Openers : Sleeps(q, m) => Sleeps(q, m)' /\ q # p
        BY <1>1, <2>2 DEF Sleeps, Only
      <4>4. Sleeps(p, m)'
        BY <1>1, <2>2, <3>1 DEF Sleeps
      <4>5. QueueOf(m)
        BY DEF LockedInv, QueueInv
      <4>6. /\ Len(sleepers'[m]) = Len(sleepers[m]) + 1 /\ Len(sleepers[m]) \in Nat
            /\ \A i \in 1 .. Len(sleepers'[m]) :
                 sleepers'[m][i] = IF i = Len(sleepers[m]) + 1 THEN p ELSE sleepers[m][i]
        BY <4>1
      <4>7. \A i \in 1 .. Len(sleepers'[m]) : node'[sleepers'[m][i]] = m /\ opc'[sleepers'[m][i]] = "asleep"
        BY <4>2, <4>3, <4>4, <4>6 DEF Sleeps
      <4>8. \A i \in 1 .. Len(sleepers[m]) : sleepers[m][i] # p
        BY <4>2, <4>3
      <4>9. \A i, j \in 1 .. Len(sleepers'[m]) : sleepers'[m][i] = sleepers'[m][j] => i = j
        BY <4>5, <4>6, <4>8 DEF QueueOf
      <4> QED
        BY <4>7, <4>9 DEF QueueOf, Sleeps
    <3>2. CASE m # n
      <4>1. sleepers'[m] = sleepers[m]
        BY <2>1, <3>2, NodeFacts DEF LockedInv, CryptoTypes
      <4> QED
        BY <1>1, <2>2, <4>1, QueueStays
    <3> QED
      BY <3>1, <3>2
  <2>8. QueueInv'
    BY <1>1, <2>7 DEF QueueInv
  <2> QED
    BY <2>2, <2>3, <2>5, <2>6, <2>8 DEF LockedInv
<1> QED
  BY <1>2, <1>3

(* The holder goes from add to kick, to spin, to up, and its request with  *)
(* it.                                                                     *)
LEMMA HolderLocked ==
  ASSUME LockedInv, NEW p \in Openers, node[p] \in devs, opc[p] \in Inside,
         NEW label \in Inside, opc' = [opc EXCEPT ![p] = label],
         NEW r \in Rings, ring' = [ring EXCEPT ![node[p]] = r], Fits(label, r),
         UNCHANGED <<driver, nextMinor, devs, sema, sleepers, node>>
  PROVE  LockedInv'
<1> DEFINE n == node[p]
<1>1. n \in Nodes /\ opc[p] \notin {"out", "dead", "asleep"} /\ label \notin {"out", "dead", "asleep"}
  BY NodeFacts DEF LockedInv, Inside
<1>2. CryptoTypes' /\ Only(p) /\ opc'[p] = label
  BY <1>1 DEF LockedInv, CryptoTypes, Only, Rings
<1>3. \A m \in devs : ring'[m] = IF m = n THEN r ELSE ring[m]
  BY <1>1, NodeFacts DEF LockedInv, CryptoTypes
<1>4. GoneInv'
  BY <1>1, <1>2 DEF LockedInv, GoneInv, Only
<1>5. \A q \in Openers, m \in devs : Holds(q, m)' <=> Holds(q, m)
  BY <1>2 DEF Holds, Only
<1>6. HolderInv'
  BY <1>5 DEF LockedInv, HolderInv
<1>7. \A q \in Openers : Holds(q, n) => q = p
  BY DEF LockedInv, HolderInv, Holds
<1>8. RequestInv'
  <2> SUFFICES ASSUME NEW m \in devs
               PROVE  /\ (\A q \in Openers : ~Holds(q, m)') => Idle(ring'[m])
                      /\ \A q \in Openers : node[q] = m => Fits(opc'[q], ring'[m])
    BY DEF RequestInv
  <2>1. CASE m = n
    <3>1. Holds(p, n)
      BY DEF Holds
    <3>2. ASSUME NEW q \in Openers, node[q] = m PROVE Fits(opc'[q], ring'[m])
      <4>1. CASE q = p
        BY <1>2, <1>3, <2>1, <4>1
      <4>2. CASE q # p
        <5>1. opc'[q] = opc[q] /\ opc[q] \notin Inside
          BY <1>2, <1>7, <2>1, <3>2, <4>2 DEF Only, Holds
        <5> QED
          BY <5>1 DEF Fits, Inside
      <4> QED
        BY <4>1, <4>2
    <3> QED
      BY <1>5, <2>1, <3>1, <3>2
  <2>2. CASE m # n
    <3>1. ring'[m] = ring[m]
      BY <1>3, <2>2
    <3>2. \A q \in Openers : node[q] = m => opc'[q] = opc[q] /\ Fits(opc[q], ring[m])
      BY <1>2, <2>2 DEF LockedInv, RequestInv, Only
    <3> QED
      BY <1>5, <3>1, <3>2 DEF LockedInv, RequestInv
  <2> QED
    BY <2>1, <2>2
<1>9. QueueInv'
  BY <1>1, <1>2, QueueStays DEF QueueInv
<1> QED
  BY <1>2, <1>4, <1>6, <1>8, <1>9 DEF LockedInv

LEMMA RequestLocked ==
  ASSUME LockedInv, NEW p \in Openers, Add(p) \/ Kick(p) \/ Got(p)
  PROVE  LockedInv'
<1> DEFINE n == node[p]
           a == ring[n].avail
           k == ring[n].added
           u == ring[n].used
           t == ring[n].notified
           c == ring[n].called
<1>1. n \in devs /\ UNCHANGED <<driver, nextMinor, devs, sema, sleepers, node>>
  BY DEF Add, Kick, Got, At
<1>2. ring[n] \in Rings /\ Fits(opc[p], ring[n])
  BY <1>1, NodeFacts DEF LockedInv, CryptoTypes, RequestInv
<1>3. a \in Nat /\ k \in Nat /\ u \in Nat /\ t \in BOOLEAN /\ c \in BOOLEAN
  BY <1>2 DEF Rings
<1>4. CASE Add(p)
  <2>1. opc[p] = "add" /\ opc' = [opc EXCEPT ![p] = "kick"]
        /\ ring' = [ring EXCEPT ![n] = Ring(a + 1, k + 1, u, t, c)]
    BY <1>4 DEF Add, At, Go
  <2>2. Ring(a + 1, k + 1, u, t, c) \in Rings
    BY <1>3 DEF Ring, Rings
  <2>3. Added(Ring(a + 1, k + 1, u, t, c))
    BY <1>2, <2>1 DEF Fits, Idle, Added, Ring
  <2> QED
    BY <1>1, <2>1, <2>2, <2>3, HolderLocked DEF Fits, Inside
<1>5. CASE Kick(p)
  <2> DEFINE told == t \/ a \in 1 .. k
  <2>1. opc[p] = "kick" /\ opc' = [opc EXCEPT ![p] = "spin"]
        /\ ring' = [ring EXCEPT ![n] = Ring(a, 0, u, told, c)]
    BY <1>5 DEF Kick, At, Go
  <2>2. told \in BOOLEAN /\ (a = 1 => told)
    BY <1>2, <1>3, <2>1 DEF Fits, Added
  <2> HIDE DEF told
  <2>3. Ring(a, 0, u, told, c) \in Rings
    BY <1>3, <2>2 DEF Ring, Rings
  <2>4. Sent(Ring(a, 0, u, told, c))
    BY <1>2, <1>3, <2>1, <2>2 DEF Fits, Added, Sent, Ring
  <2> QED
    BY <1>1, <2>1, <2>3, <2>4, HolderLocked DEF Fits, Inside
<1>6. CASE Got(p)
  <2>1. opc[p] = "spin" /\ opc' = [opc EXCEPT ![p] = "up"] /\ u > 0
        /\ ring' = [ring EXCEPT ![n] = Ring(a, k, u - 1, t, c)]
    BY <1>6 DEF Got, At, Go
  <2>2. Ring(a, k, u - 1, t, c) \in Rings
    BY <1>3, <2>1 DEF Ring, Rings
  <2>3. Idle(Ring(a, k, u - 1, t, c))
    BY <1>2, <1>3, <2>1 DEF Fits, Sent, Idle, Ring
  <2> QED
    BY <1>1, <2>1, <2>2, <2>3, HolderLocked DEF Fits, Inside
<1> QED
  BY <1>4, <1>5, <1>6

(* The device, which may find the request of the holder or nothing.        *)
LEMMA RingLocked ==
  ASSUME LockedInv, NEW n \in devs, NEW r \in Rings, ring' = [ring EXCEPT ![n] = r],
         Idle(ring[n]) => Idle(r), Added(ring[n]) => Added(r), Sent(ring[n]) => Sent(r),
         UNCHANGED <<driver, nextMinor, devs, sema, sleepers, opc, node>>
  PROVE  LockedInv'
<1>1. \A m \in Nodes : ring'[m] = IF m = n THEN r ELSE ring[m]
  BY DEF LockedInv, CryptoTypes
<1>2. CryptoTypes'
  BY DEF LockedInv, CryptoTypes
<1>3. GoneInv'
  BY <1>1 DEF LockedInv, GoneInv
<1>4. HolderInv'
  BY DEF LockedInv, HolderInv, Holds
<1>5. QueueInv'
  BY DEF LockedInv, QueueInv, QueueOf, Sleeps
<1>6. RequestInv'
  <2>1. \A m \in devs : /\ Idle(ring[m]) => Idle(ring'[m])
                        /\ \A q \in Openers : Fits(opc[q], ring[m]) => Fits(opc[q], ring'[m])
    BY <1>1, NodeFacts DEF LockedInv, Fits
  <2> QED
    BY <2>1 DEF LockedInv, RequestInv, Holds
<1> QED
  BY <1>2, <1>3, <1>4, <1>5, <1>6 DEF LockedInv

LEMMA HandleLocked ==
  ASSUME LockedInv, NEW n \in Nodes, Notice(n) \/ Handle(n)
  PROVE  LockedInv'
<1> DEFINE a == ring[n].avail
           k == ring[n].added
           u == ring[n].used
           t == ring[n].notified
           R(r) == r \in Rings /\ ring' = [ring EXCEPT ![n] = r]
<1>1. n \in devs /\ UNCHANGED <<driver, nextMinor, devs, sema, sleepers, opc, node>>
  BY DEF Notice, Handle
<1>2. a \in Nat /\ k \in Nat /\ u \in Nat /\ t \in BOOLEAN
  BY DEF LockedInv, CryptoTypes, Rings
<1>3. CASE Notice(n)
  <2>1. R(Ring(a, k, u, FALSE, TRUE))
    BY <1>2, <1>3 DEF Notice, Ring, Rings
  <2> QED
    BY <1>1, <2>1, RingLocked DEF Idle, Added, Sent, Ring
<1>4. CASE Handle(n) /\ a = 0
  <2>1. R(Ring(0, k, u, t, FALSE))
    BY <1>2, <1>4 DEF Handle, Ring, Rings
  <2> DEFINE r == Ring(0, k, u, t, FALSE)
  <2>2. (Idle(ring[n]) => Idle(r)) /\ (Added(ring[n]) => Added(r)) /\ (Sent(ring[n]) => Sent(r))
    BY <1>2, <1>4 DEF Idle, Added, Sent, Ring
  <2> HIDE DEF r
  <2> QED
    BY <1>1, <2>1, <2>2, RingLocked DEF r
<1>5. CASE Handle(n) /\ a # 0
  <2>1. R(Ring(a - 1, k, u + 1, t, FALSE))
    BY <1>2, <1>5 DEF Handle, Pushed, Ring, Rings
  <2> DEFINE r == Ring(a - 1, k, u + 1, t, FALSE)
  <2>2. (Idle(ring[n]) => Idle(r)) /\ (Added(ring[n]) => Added(r)) /\ (Sent(ring[n]) => Sent(r))
    BY <1>2, <1>5 DEF Idle, Added, Sent, Ring
  <2> HIDE DEF r
  <2> QED
    BY <1>1, <2>1, <2>2, RingLocked DEF r
<1> QED
  BY <1>3, <1>4, <1>5

(* The holder leaves: to nobody, or to who has waited longest. *)
LEMMA FailLocked ==
  ASSUME LockedInv, NEW p \in Openers, Fail(p)
  PROVE  LockedInv'
<1> DEFINE n == node[p]
<1>1. /\ n \in devs /\ n \in Nodes /\ opc[p] = "up" /\ Holds(p, n) /\ sleepers[n] \in Seq(Openers)
      /\ UNCHANGED <<driver, nextMinor, devs, ring, node>>
  BY NodeFacts DEF LockedInv, CryptoTypes, Fail, At, Holds, Inside
<1>2. sema[n] = 0 /\ Idle(ring[n]) /\ \A q \in Openers : Holds(q, n) => q = p
  BY <1>1 DEF LockedInv, HolderInv, RequestInv, Fits
<1>3. CASE sleepers[n] = << >>
  <2>1. opc' = [opc EXCEPT ![p] = "out"] /\ sema' = [sema EXCEPT ![n] = @ + 1] /\ sleepers' = sleepers
    BY <1>3 DEF Fail, Up
  <2>2. CryptoTypes' /\ Only(p) /\ opc'[p] = "out"
    BY <1>1, <2>1 DEF LockedInv, CryptoTypes, Only
  <2>3. GoneInv'
    BY <1>1, <2>1, <2>2 DEF LockedInv, GoneInv, Only
  <2>4. \A q \in Openers, m \in devs : Holds(q, m)' <=> Holds(q, m) /\ q # p
    BY <1>1, <2>2 DEF Holds, Inside, Only
  <2>5. \A m \in devs : sema'[m] = IF m = n THEN 1 ELSE sema[m]
    BY <1>1, <1>2, <2>1, NodeFacts DEF LockedInv, CryptoTypes
  <2>6. HolderInv'
    BY <1>1, <1>2, <2>4, <2>5 DEF LockedInv, HolderInv
  <2>7. ASSUME NEW m \in devs, m # n PROVE Holds(p, m) = FALSE
    BY <2>7 DEF Holds
  <2>8. RequestInv'
    <3> SUFFICES ASSUME NEW m \in devs
                 PROVE  /\ (\A q \in Openers : ~Holds(q, m)') => Idle(ring[m])
                        /\ \A q \in Openers : node[q] = m => Fits(opc'[q], ring[m])
      BY <1>1 DEF RequestInv, Fits
    <3>1. \A q \in Openers : node[q] = m => Fits(opc[q], ring[m])
      BY DEF LockedInv, RequestInv, Fits
    <3>2. \A q \in Openers : node[q] = m => Fits(opc'[q], ring[m])
      BY <2>2, <3>1 DEF Only, Fits
    <3>3. m # n => (\A q \in Openers : Holds(q, m) => Holds(q, m)')
      BY <2>4, <2>7
    <3> QED
      BY <1>2, <3>2, <3>3 DEF LockedInv, RequestInv
  <2>9. QueueInv'
    BY <1>1, <2>1, <2>2, QueueStays DEF QueueInv
  <2> QED
    BY <2>2, <2>3, <2>6, <2>8, <2>9 DEF LockedInv
<1>4. CASE sleepers[n] # << >>
  <2> DEFINE h == Head(sleepers[n])
  <2>1. /\ opc' = [opc EXCEPT ![p] = "out", ![h] = "add"] /\ sema' = sema
        /\ sleepers' = [sleepers EXCEPT ![n] = Tail(@)]
    BY <1>4 DEF Fail, Up
  <2>2. QueueOf(n) /\ Len(sleepers[n]) \in Nat \ {0} /\ h = sleepers[n][1]
    BY <1>1, <1>4 DEF LockedInv, QueueInv
  <2>3. h \in Openers /\ Sleeps(h, n) /\ h # p
    BY <1>1, <2>2 DEF QueueOf, Sleeps
  <2>4. CryptoTypes'
    <3>1. CryptoTypes
      BY DEF LockedInv
    <3>2. Tail(sleepers[n]) \in Seq(Openers)
      BY <1>1, <1>4
    <3>3. sleepers' \in [Nodes -> Seq(Openers)]
      BY <1>1, <2>1, <3>1, <3>2 DEF CryptoTypes
    <3>4. "out" \in {"out", "init", "down", "dead"} \cup Waiting \cup Inside
      OBVIOUS
    <3>5. "add" \in {"out", "init", "down", "dead"} \cup Waiting \cup Inside
      BY DEF Inside
    <3>6. opc' \in [Openers -> {"out", "init", "down", "dead"} \cup Waiting \cup Inside]
      BY <2>1, <2>3, <3>1, <3>4, <3>5 DEF CryptoTypes
    <3> QED
      BY <1>1, <2>1, <3>1, <3>3, <3>6 DEF CryptoTypes
  <2>5. opc'[p] = "out" /\ opc'[h] = "add" /\ \A q \in Openers \ {p, h} : opc'[q] = opc[q]
    BY <2>1, <2>3 DEF LockedInv, CryptoTypes
  <2>6. GoneInv'
    <3>1. \A q \in Openers : opc'[q] \notin {"out", "dead"} => opc[q] \notin {"out", "dead"}
      BY <2>3, <2>5 DEF Sleeps
    <3>2. \A m \in Nodes \ devs : sleepers'[m] = sleepers[m]
      BY <1>1, <2>1 DEF LockedInv, CryptoTypes
    <3> QED
      BY <1>1, <2>1, <3>1, <3>2 DEF LockedInv, GoneInv
  <2>7. \A q \in Openers, m \in devs : Holds(q, m)' <=> (Holds(q, m) /\ q # p) \/ (q = h /\ m = n)
    BY <1>1, <2>3, <2>5 DEF Holds, Sleeps, Inside
  <2>8. HolderInv'
    BY <1>1, <1>2, <2>1, <2>7 DEF LockedInv, HolderInv
  <2>9. RequestInv'
    <3> SUFFICES ASSUME NEW m \in devs
                 PROVE  /\ (\A q \in Openers : ~Holds(q, m)') => Idle(ring[m])
                        /\ \A q \in Openers : node[q] = m => Fits(opc'[q], ring[m])
      BY <1>1 DEF RequestInv, Fits
    <3>1. CASE m = n
      <4>1. \A q \in Openers \ {p, h} : node[q] = m => opc'[q] \notin Inside
        BY <1>2, <2>5, <3>1 DEF Holds
      <4> QED
        BY <1>2, <2>5, <3>1, <4>1 DEF Fits, Inside
    <3>2. CASE m # n
      <4>1. \A q \in Openers : node[q] = m => q # p /\ q # h
        BY <2>3, <3>2 DEF Sleeps
      <4>2. \A q \in Openers : Holds(q, m) => Holds(q, m)'
        BY <2>7, <4>1 DEF Holds
      <4>3. \A q \in Openers : node[q] = m => Fits(opc'[q], ring[m])
        BY <2>5, <4>1 DEF LockedInv, RequestInv, Fits
      <4> QED
        BY <4>2, <4>3 DEF LockedInv, RequestInv
    <3> QED
      BY <3>1, <3>2
  <2>10. ASSUME NEW m \in devs PROVE QueueOf(m)'
    <3>1. CASE m = n
      <4>1. /\ Len(sleepers'[m]) = Len(sleepers[n]) - 1
            /\ \A i \in 1 .. Len(sleepers'[m]) : sleepers'[m][i] = sleepers[n][i + 1]
        BY <1>1, <1>4, <2>1, <3>1 DEF LockedInv, CryptoTypes
      <4>2. \A i \in 1 .. Len(sleepers'[m]) :
              i + 1 \in 1 .. Len(sleepers[n]) /\ sleepers[n][i + 1] \in Openers \ {p, h}
        <5> SUFFICES ASSUME NEW i \in 1 .. Len(sleepers'[m])
                     PROVE  /\ i + 1 \in 1 .. Len(sleepers[n])
                            /\ sleepers[n][i + 1] \in Openers \ {p, h}
          OBVIOUS
        <5>1. i + 1 \in 1 .. Len(sleepers[n]) /\ 1 \in 1 .. Len(sleepers[n]) /\ i + 1 # 1
          BY <2>2, <4>1
        <5>2. Sleeps(sleepers[n][i + 1], n) /\ sleepers[n][i + 1] # h
          BY <2>2, <5>1 DEF QueueOf
        <5>3. sleepers[n] \in Seq(Openers)
          BY <1>1 DEF LockedInv, CryptoTypes
        <5>4. sleepers[n][i + 1] \in Openers
          BY <5>1, <5>3
        <5>5. sleepers[n][i + 1] # p
          BY <1>1, <5>2 DEF Sleeps, Inside
        <5> QED
          BY <5>1, <5>2, <5>4, <5>5
      <4>3. \A i \in 1 .. Len(sleepers'[m]) : node'[sleepers'[m][i]] = m /\ opc'[sleepers'[m][i]] = "asleep"
        <5> SUFFICES ASSUME NEW i \in 1 .. Len(sleepers'[m])
                     PROVE  node'[sleepers'[m][i]] = m /\ opc'[sleepers'[m][i]] = "asleep"
          OBVIOUS
        <5>1. Sleeps(sleepers[n][i + 1], n)
          BY <2>2, <4>2 DEF QueueOf
        <5>2. opc'[sleepers[n][i + 1]] = opc[sleepers[n][i + 1]]
          BY <2>5, <4>2
        <5> QED
          BY <1>1, <3>1, <4>1, <5>1, <5>2 DEF Sleeps
      <4>4. \A i, j \in 1 .. Len(sleepers'[m]) : sleepers'[m][i] = sleepers'[m][j] => i = j
        <5> SUFFICES ASSUME NEW i \in 1 .. Len(sleepers'[m]), NEW j \in 1 .. Len(sleepers'[m]),
                            sleepers'[m][i] = sleepers'[m][j]
                     PROVE  i = j
          OBVIOUS
        <5>1. i + 1 = j + 1
          BY <2>2, <4>1, <4>2 DEF QueueOf
        <5> QED
          BY <5>1
      <4> QED
        BY <4>3, <4>4 DEF QueueOf, Sleeps
    <3>2. CASE m # n
      <4>1. sleepers'[m] = sleepers[m] /\ sleepers[m] \in Seq(Openers)
        BY <2>1, <3>2, NodeFacts DEF LockedInv, CryptoTypes
      <4>2. QueueOf(m) /\ \A i \in 1 .. Len(sleepers[m]) : sleepers[m][i] \in Openers
        BY <4>1 DEF LockedInv, QueueInv
      <4>3. \A q \in Openers : Sleeps(q, m) => q # p /\ q # h
        BY <1>1, <2>3, <3>2 DEF Sleeps
      <4> QED
        BY <1>1, <2>5, <4>1, <4>2, <4>3 DEF QueueOf, Sleeps
    <3> QED
      BY <3>1, <3>2
  <2>11. QueueInv'
    BY <1>1, <2>10 DEF QueueInv
  <2> QED
    BY <2>4, <2>6, <2>8, <2>9, <2>11 DEF LockedInv
<1> QED
  BY <1>3, <1>4

(* A process dies where a device is gone, and so is its request. *)
LEMMA DeathLocked ==
  ASSUME LockedInv, NEW p \in Openers, node[p] \notin devs, opc' = [opc EXCEPT ![p] = "dead"],
         UNCHANGED <<driver, nextMinor, devs, sema, sleepers, ring, node>>
  PROVE  LockedInv'
<1>1. CryptoTypes' /\ Only(p) /\ opc'[p] = "dead"
  BY DEF LockedInv, CryptoTypes, Only
<1>2. GoneInv'
  BY <1>1 DEF LockedInv, GoneInv, Only
<1>3. \A q \in Openers, m \in devs : node[q] = m => opc'[q] = opc[q]
  BY <1>1 DEF Only
<1>4. HolderInv'
  BY <1>3 DEF LockedInv, HolderInv, Holds
<1>5. RequestInv'
  BY <1>3 DEF LockedInv, RequestInv, Holds
<1>6. ASSUME NEW m \in devs PROVE QueueOf(m)'
  <2>1. sleepers[m] \in Seq(Openers) /\ QueueOf(m)
    BY NodeFacts DEF LockedInv, CryptoTypes, QueueInv
  <2>2. \A i \in 1 .. Len(sleepers[m]) : sleepers[m][i] \in Openers
    BY <2>1
  <2> QED
    BY <1>3, <2>1, <2>2 DEF QueueOf, Sleeps
<1>7. QueueInv'
  BY <1>6 DEF QueueInv
<1> QED
  BY <1>1, <1>2, <1>4, <1>5, <1>7 DEF LockedInv

LEMMA StepLocked ==
  ASSUME CryptoInv, [CryptoNext]_cryptoVars
  PROVE  CryptoInv'
<1>1. CASE misused
  <2>1. misused' = TRUE
    BY <1>1 DEF CryptoInv, CryptoNext, cryptoVars, RegisterRegion, RegisterDriver, Probe, Unload,
       RemoveDevice, Notice, Handle, OpenSteps, SemaInit, Down, Interrupted, Add, Kick, Got, Fail, Dies, Open, NoMemory
  <2> QED
    BY <2>1 DEF CryptoInv
<1>2. CASE ~misused
  <2>1. LockedInv
    BY <1>2 DEF CryptoInv
  <2>2. CASE UNCHANGED misused /\ LockedInv'
    BY <1>2, <2>2 DEF CryptoInv
  <2>3. CASE RegisterRegion \/ RegisterDriver \/ Probe \/ Unload
    BY <2>1, <2>2, <2>3, DriverLocked, UnloadLocked DEF RegisterRegion, RegisterDriver, Probe, Unload
  <2>4. ASSUME NEW m \in Nodes, RemoveDevice(m) \/ Notice(m) \/ Handle(m) PROVE CryptoInv'
    BY <2>1, <2>2, <2>4, RemoveLocked, HandleLocked DEF RemoveDevice, Notice, Handle
  <2>5. ASSUME NEW p \in Openers, OpenSteps(p) PROVE CryptoInv'
    <3>1. CASE SemaInit(p)
      BY <1>2, <3>1, SemaInitLocked
    <3>2. CASE Down(p)
      BY <2>1, <2>2, <3>2, DownLocked DEF Down
    <3>3. CASE Add(p) \/ Kick(p) \/ Got(p)
      BY <2>1, <2>2, <3>3, RequestLocked DEF Add, Kick, Got
    <3>4. CASE Fail(p)
      BY <2>1, <2>2, <3>4, FailLocked DEF Fail
    <3>5. CASE Dies(p)
      BY <2>1, <2>2, <3>5, DeathLocked DEF Dies, Go
    <3> QED
      BY <2>5, <3>1, <3>2, <3>3, <3>4, <3>5 DEF OpenSteps
  <2>6. ASSUME NEW p \in Openers, Interrupted(p) PROVE CryptoInv'
    <3>1. CASE node[p] \in devs
      BY <2>6, <3>1 DEF Interrupted, CryptoInv
    <3>2. CASE node[p] \notin devs
      BY <2>1, <2>2, <2>6, <3>2, DeathLocked DEF Interrupted, Go
    <3> QED
      BY <3>1, <3>2
  <2>7. ASSUME NEW p \in Openers, NEW n \in Nodes, Open(p, n) \/ NoMemory(p, n) PROVE CryptoInv'
    <3>1. CASE Open(p, n)
      BY <2>1, <2>2, <3>1, OpenLocked DEF Open
    <3>2. CASE NoMemory(p, n)
      BY <1>2, <3>2, NoMemoryLocked
    <3> QED
      BY <2>7, <3>1, <3>2
  <2>8. CASE UNCHANGED cryptoVars
    BY <2>1, <2>2, <2>8 DEF cryptoVars, LockedInv, CryptoTypes, GoneInv, HolderInv, QueueInv, QueueOf,
       RequestInv, Holds, Sleeps
  <2> QED
    BY <2>3, <2>4, <2>5, <2>6, <2>7, <2>8 DEF CryptoNext
<1> QED
  BY <1>1, <1>2 DEF CryptoInv

(* However many processes open however many devices, a request that waits  *)
(* is told to the device: at most one does, and its process kicks.         *)
(* (crypto-chrdev.c:113-122, virtio-cryptodev.c:58)                        *)
THEOREM RequestsAreTold == CryptoSpec => []KickComing
<1>1. CryptoInv => KickComing
  <2> SUFFICES ASSUME CryptoInv, ~misused, NEW m \in devs, ring[m].avail > 0
               PROVE  ring[m].notified \/ ring[m].called \/ \E p \in Openers : At(p, "kick") /\ node[p] = m
    BY DEF KickComing
  <2>1. LockedInv /\ ~Idle(ring[m]) /\ ring[m] \in Rings
    BY NodeFacts DEF CryptoInv, LockedInv, CryptoTypes, Idle
  <2>2. PICK p \in Openers : Holds(p, m)
    BY <2>1 DEF LockedInv, RequestInv
  <2>3. opc[p] = "kick" \/ Sent(ring[m])
    BY <2>1, <2>2 DEF LockedInv, RequestInv, Fits, Holds, Inside
  <2>4. Sent(ring[m]) => ring[m].notified \/ ring[m].called
    BY <2>1 DEF Sent, Rings
  <2> QED
    BY <2>2, <2>3, <2>4 DEF At, Holds
<1> QED
  BY <1>1, InitLocked, StepLocked, PTL DEF CryptoSpec

-----------------------------------------------------------------------------
(***************************************************************************)
(* The types, which hold however the semaphores are used.                  *)
(***************************************************************************)
LEMMA WithoutType ==
  ASSUME NEW S, NEW list \in Seq(S), NEW p PROVE Without(list, p) \in Seq(S)
<1>1. CASE \A i \in DOMAIN list : list[i] # p
  BY <1>1 DEF Without
<1>2. CASE ~(\A i \in DOMAIN list : list[i] # p)
  <2> DEFINE i == CHOOSE i \in DOMAIN list : list[i] = p
  <2>1. i \in 1 .. Len(list) /\ Len(list) \in Nat
    BY <1>2
  <2>2. Without(list, p) = SubSeq(list, 1, i - 1) \o SubSeq(list, i + 1, Len(list))
    BY <1>2 DEF Without
  <2> HIDE DEF i
  <2>3. 1 \in Int /\ i - 1 \in Int /\ \A k \in 1 .. i - 1 : list[k] \in S
    BY <2>1
  <2>4. i + 1 \in Int /\ Len(list) \in Int /\ \A k \in i + 1 .. Len(list) : list[k] \in S
    BY <2>1
  <2>5. SubSeq(list, 1, i - 1) \in Seq(S) /\ SubSeq(list, i + 1, Len(list)) \in Seq(S)
    BY <2>3, <2>4, SubSeqProperties
  <2> QED
    BY <2>2, <2>5, ConcatProperties
<1> QED
  BY <1>1, <1>2

(* No device is there before the driver is. *)
TypesInv == CryptoTypeOK /\ (driver # "ready" => devs = {} /\ nextMinor = 0)

Labels == {"out", "init", "down", "dead"} \cup Waiting \cup Inside
Counts == Nat \cup {Unready}

LEMMA RingType ==
  ASSUME NEW a \in Nat, NEW k \in Nat, NEW u \in Nat
  PROVE  \A n, c \in BOOLEAN : Ring(a, k, u, n, c) \in Rings
BY DEF Ring, Rings

LEMMA FreedTypes ==
  ASSUME TypesInv, NEW gone, Freed(gone)
  PROVE  /\ sema' \in [Nodes -> Counts] /\ sleepers' \in [Nodes -> Seq(Openers)]
         /\ ring' \in [Nodes -> Rings]
<1>1. EmptyRing \in Rings /\ << >> \in Seq(Openers)
  BY DEF EmptyRing, Ring, Rings
<1> QED
  BY <1>1 DEF TypesInv, CryptoTypeOK, Freed, Counts

LEMMA UpTypes ==
  ASSUME TypesInv, NEW m \in Nodes, NEW then \in [Openers -> Labels], Up(m, then)
  PROVE  /\ sema' \in [Nodes -> Counts] /\ sleepers' \in [Nodes -> Seq(Openers)]
         /\ opc' \in [Openers -> Labels]
<1>1. /\ sema \in [Nodes -> Counts] /\ sleepers \in [Nodes -> Seq(Openers)]
      /\ sleepers[m] \in Seq(Openers)
  BY DEF TypesInv, CryptoTypeOK, Counts
<1>2. CASE sleepers[m] = << >>
  <2>1. sema[m] + 1 \in Counts
    BY <1>1 DEF Counts, Unready
  <2> QED
    BY <1>1, <1>2, <2>1 DEF Up
<1>3. CASE sleepers[m] # << >>
  <2>1. Head(sleepers[m]) \in Openers /\ Tail(sleepers[m]) \in Seq(Openers)
    BY <1>1, <1>3, HeadTailProperties
  <2>2. "add" \in Labels
    BY DEF Labels, Inside
  <2> QED
    BY <1>1, <1>3, <2>1, <2>2 DEF Up
<1> QED
  BY <1>2, <1>3

LEMMA StepTypesHold ==
  ASSUME TypesInv, [CryptoNext]_cryptoVars PROVE TypesInv'
<1>1. /\ driver \in {"out", "region", "ready"}
      /\ nextMinor \in 0 .. MaxMinors /\ devs \subseteq 0 .. nextMinor - 1
      /\ sema \in [Nodes -> Counts] /\ sleepers \in [Nodes -> Seq(Openers)]
      /\ ring \in [Nodes -> Rings]
      /\ opc \in [Openers -> Labels] /\ node \in [Openers -> Nodes] /\ misused \in BOOLEAN
      /\ driver # "ready" => devs = {} /\ nextMinor = 0
  BY DEF TypesInv, CryptoTypeOK, Labels, Counts
<1>2. /\ devs \subseteq Nodes /\ MaxMinors \in Nat
      /\ \A p \in Openers : node[p] \in Nodes
      /\ \A m \in Nodes : /\ ring[m] \in Rings /\ sleepers[m] \in Seq(Openers)
                          /\ sema[m] \in Counts
  BY <1>1, CryptoAssumption DEF Nodes
<1>3. ASSUME NEW p \in Openers, NEW label \in Labels
      PROVE  [opc EXCEPT ![p] = label] \in [Openers -> Labels]
  BY <1>1
<1>4. /\ "init" \in Labels /\ "down" \in Labels /\ "dead" \in Labels /\ "out" \in Labels
      /\ "asleep" \in Labels /\ "add" \in Labels /\ "kick" \in Labels /\ "spin" \in Labels
      /\ "up" \in Labels
  BY DEF Labels, Waiting, Inside
<1>5. ASSUME UNCHANGED <<driver, nextMinor, devs>>,
             sema' \in [Nodes -> Counts], sleepers' \in [Nodes -> Seq(Openers)],
             ring' \in [Nodes -> Rings], opc' \in [Openers -> Labels],
             node' \in [Openers -> Nodes], misused' \in BOOLEAN
      PROVE  TypesInv'
  BY <1>1, <1>5 DEF TypesInv, CryptoTypeOK, Labels, Counts
<1>6. CASE RegisterRegion \/ RegisterDriver
  BY <1>1, <1>2, <1>6 DEF RegisterRegion, RegisterDriver, TypesInv, CryptoTypeOK, Labels, Counts
<1>7. CASE Probe
  <2>1. StartedRing \in Rings
    BY DEF StartedRing, Ring, Rings
  <2>2. ring' \in [Nodes -> Rings]
    BY <1>1, <1>7, <2>1 DEF Probe
  <2>3. nextMinor' \in 0 .. MaxMinors /\ devs' \subseteq 0 .. nextMinor' - 1
    BY <1>1, <1>2, <1>7 DEF Probe
  <2> QED
    BY <1>1, <1>7, <2>2, <2>3 DEF Probe, TypesInv, CryptoTypeOK, Labels, Counts
<1>8. CASE Unload
  <2>1. Freed(devs) /\ 0 \in 0 .. MaxMinors
    BY <1>2, <1>8 DEF Unload
  <2>2. /\ sema' \in [Nodes -> Counts] /\ sleepers' \in [Nodes -> Seq(Openers)]
        /\ ring' \in [Nodes -> Rings]
    BY <2>1, FreedTypes
  <2> QED
    BY <1>1, <1>8, <2>1, <2>2 DEF Unload, TypesInv, CryptoTypeOK, Labels, Counts
<1>9. ASSUME NEW m \in Nodes, RemoveDevice(m) PROVE TypesInv'
  <2>1. Freed({m})
    BY <1>9 DEF RemoveDevice
  <2>2. /\ sema' \in [Nodes -> Counts] /\ sleepers' \in [Nodes -> Seq(Openers)]
        /\ ring' \in [Nodes -> Rings]
    BY <2>1, FreedTypes
  <2> QED
    BY <1>1, <1>9, <2>2 DEF RemoveDevice, TypesInv, CryptoTypeOK, Labels, Counts
<1>10. ASSUME NEW m \in Nodes, Notice(m) \/ Handle(m) PROVE TypesInv'
  <2> DEFINE r == ring[m]
  <2>2. /\ r.avail \in Nat /\ r.added \in Nat /\ r.used \in Nat
        /\ r.notified \in BOOLEAN /\ r.called \in BOOLEAN
    BY <1>2 DEF Rings
  <2>3. /\ 0 \in Nat /\ Pushed(r.used) \in Nat /\ (r.avail # 0 => r.avail - 1 \in Nat)
        /\ TRUE \in BOOLEAN /\ FALSE \in BOOLEAN
    BY <2>2 DEF Pushed
  <2>4. \E new \in Rings : ring' = [ring EXCEPT ![m] = new]
    <3>1. CASE Notice(m)
      <4>1. Ring(r.avail, r.added, r.used, FALSE, TRUE) \in Rings
        BY <2>2, <2>3, RingType
      <4> QED
        BY <3>1, <4>1 DEF Notice
    <3>2. CASE Handle(m) /\ r.avail = 0
      <4>1. Ring(0, r.added, r.used, r.notified, FALSE) \in Rings
        BY <2>2, <2>3, RingType
      <4> QED
        BY <3>2, <4>1 DEF Handle
    <3>3. CASE Handle(m) /\ r.avail # 0
      <4>1. r.avail - 1 \in Nat
        BY <2>3, <3>3
      <4>2. Ring(r.avail - 1, r.added, Pushed(r.used), r.notified, FALSE) \in Rings
        BY <2>2, <2>3, <4>1, RingType
      <4> QED
        BY <3>3, <4>2 DEF Handle
    <3> QED
      BY <1>10, <3>1, <3>2, <3>3
  <2>1. ring' \in [Nodes -> Rings]
    BY <1>1, <2>4
  <2> QED
    BY <1>1, <1>5, <1>10, <2>1 DEF Notice, Handle
<1>11. ASSUME NEW p \in Openers, NEW n \in Nodes, Open(p, n) PROVE TypesInv'
  <2>1. opc' \in [Openers -> Labels] /\ node' \in [Openers -> Nodes]
    BY <1>1, <1>4, <1>11 DEF Open, Go
  <2> QED
    BY <1>1, <1>5, <1>11, <2>1 DEF Open
<1>12. ASSUME NEW p \in Openers, NEW n \in Nodes, NoMemory(p, n) PROVE TypesInv'
  <2>1. node' \in [Openers -> Nodes] /\ UNCHANGED <<driver, nextMinor, devs, ring>>
    BY <1>1, <1>12 DEF NoMemory
  <2>2. CASE Go(p, "dead") /\ UNCHANGED <<sema, sleepers, misused>>
    BY <1>1, <1>4, <1>5, <2>1, <2>2 DEF Go
  <2>3. CASE Up(n, opc) /\ misused' = TRUE
    <3>1. /\ sema' \in [Nodes -> Counts] /\ sleepers' \in [Nodes -> Seq(Openers)]
          /\ opc' \in [Openers -> Labels]
      BY <1>1, <2>3, UpTypes
    <3> QED
      BY <1>1, <1>5, <2>1, <2>3, <3>1
  <2> QED
    BY <1>12, <2>2, <2>3 DEF NoMemory
<1>13. ASSUME NEW p \in Openers, SemaInit(p) PROVE TypesInv'
  <2>1. node[p] \in Nodes /\ SemaStart \in Counts /\ << >> \in Seq(Openers)
    BY <1>2 DEF SemaStart, Counts
  <2>2. sema' \in [Nodes -> Counts] /\ sleepers' \in [Nodes -> Seq(Openers)]
    BY <1>1, <1>13, <2>1 DEF SemaInit
  <2>3. opc' \in [Openers -> Labels]
    BY <1>1, <1>4, <1>13 DEF SemaInit, Go
  <2>4. misused' \in BOOLEAN
    BY <1>13 DEF SemaInit
  <2> QED
    BY <1>1, <1>5, <1>13, <2>2, <2>3, <2>4 DEF SemaInit
<1>14. ASSUME NEW p \in Openers, Down(p) PROVE TypesInv'
  <2>1. node[p] \in Nodes /\ sleepers[node[p]] \in Seq(Openers) /\ sema[node[p]] \in Counts
    BY <1>2
  <2>2. Append(sleepers[node[p]], p) \in Seq(Openers)
    BY <2>1
  <2>3. sema[node[p]] > 0 => sema[node[p]] - 1 \in Counts
    BY <2>1 DEF Counts, Unready
  <2>4. /\ sema' \in [Nodes -> Counts] /\ sleepers' \in [Nodes -> Seq(Openers)]
        /\ opc' \in [Openers -> Labels]
    BY <1>1, <1>4, <1>14, <2>1, <2>2, <2>3 DEF Down, Go
  <2> QED
    BY <1>1, <1>5, <1>14, <2>4 DEF Down
<1>15. ASSUME NEW p \in Openers, Interrupted(p) PROVE TypesInv'
  <2>1. node[p] \in Nodes /\ sleepers[node[p]] \in Seq(Openers)
    BY <1>2
  <2>2. Without(sleepers[node[p]], p) \in Seq(Openers)
    BY <2>1, WithoutType
  <2>3. sleepers' \in [Nodes -> Seq(Openers)] /\ opc' \in [Openers -> Labels] /\ misused' \in BOOLEAN
    BY <1>1, <1>4, <1>15, <2>1, <2>2 DEF Interrupted, Go
  <2> QED
    BY <1>1, <1>5, <1>15, <2>3 DEF Interrupted
<1>16. ASSUME NEW p \in Openers, Add(p) \/ Kick(p) \/ Got(p) PROVE TypesInv'
  <2>1. node[p] \in Nodes /\ ring[node[p]] \in Rings
    BY <1>2
  <2> DEFINE r == ring[node[p]]
  <2>4. /\ r.avail \in Nat /\ r.added \in Nat /\ r.used \in Nat
        /\ r.notified \in BOOLEAN /\ r.called \in BOOLEAN
    BY <2>1 DEF Rings
  <2>5. /\ 0 \in Nat /\ r.avail + 1 \in Nat /\ r.added + 1 \in Nat
        /\ (r.used > 0 => r.used - 1 \in Nat)
        /\ (r.notified \/ r.avail \in 1 .. r.added) \in BOOLEAN
    BY <2>4
  <2>6. \E new \in Rings : ring' = [ring EXCEPT ![node[p]] = new]
    <3>1. CASE Add(p)
      <4>1. Ring(r.avail + 1, r.added + 1, r.used, r.notified, r.called) \in Rings
        BY <2>4, <2>5, RingType
      <4> QED
        BY <3>1, <4>1 DEF Add
    <3>2. CASE Kick(p)
      <4>1. Ring(r.avail, 0, r.used, r.notified \/ r.avail \in 1 .. r.added, r.called) \in Rings
        BY <2>4, <2>5, RingType
      <4> QED
        BY <3>2, <4>1 DEF Kick
    <3>3. CASE Got(p)
      <4>1. r.used - 1 \in Nat
        BY <2>5, <3>3 DEF Got
      <4>2. Ring(r.avail, r.added, r.used - 1, r.notified, r.called) \in Rings
        BY <2>4, <4>1, RingType
      <4> QED
        BY <3>3, <4>2 DEF Got
    <3> QED
      BY <1>16, <3>1, <3>2, <3>3
  <2>2. ring' \in [Nodes -> Rings]
    BY <1>1, <2>1, <2>6
  <2>3. opc' \in [Openers -> Labels]
    BY <1>1, <1>4, <1>16 DEF Add, Kick, Got, Go
  <2> QED
    BY <1>1, <1>5, <1>16, <2>2, <2>3 DEF Add, Kick, Got
<1>17. ASSUME NEW p \in Openers, Fail(p) PROVE TypesInv'
  <2>1. node[p] \in Nodes /\ [opc EXCEPT ![p] = "out"] \in [Openers -> Labels]
    BY <1>2, <1>3, <1>4
  <2>2. Up(node[p], [opc EXCEPT ![p] = "out"])
    BY <1>17 DEF Fail
  <2>3. /\ sema' \in [Nodes -> Counts] /\ sleepers' \in [Nodes -> Seq(Openers)]
        /\ opc' \in [Openers -> Labels]
    BY <2>1, <2>2, UpTypes
  <2> QED
    BY <1>1, <1>5, <1>17, <2>3 DEF Fail
<1>18. ASSUME NEW p \in Openers, Dies(p) PROVE TypesInv'
  BY <1>1, <1>4, <1>5, <1>18 DEF Dies, Go
<1>19. CASE UNCHANGED cryptoVars
  BY <1>19 DEF cryptoVars, TypesInv, CryptoTypeOK
<1> QED
  BY <1>6, <1>7, <1>8, <1>9, <1>10, <1>11, <1>12, <1>13, <1>14, <1>15, <1>16, <1>17, <1>18, <1>19
     DEF CryptoNext, OpenSteps

LEMMA InitCrypto == CryptoInit => TypesInv
<1>1. /\ EmptyRing \in Rings /\ << >> \in Seq(Openers)
      /\ 0 \in Nodes /\ 0 \in 0 .. MaxMinors
  BY CryptoAssumption DEF EmptyRing, Ring, Rings, Nodes
<1> QED
  BY <1>1 DEF CryptoInit, TypesInv, CryptoTypeOK

(* What the driver and its devices hold, also once a semaphore has been    *)
(* misused: the list of devices has only minors that were given, no queue  *)
(* counts below nothing, and every process is somewhere in open.           *)
THEOREM DriverTypes == CryptoSpec => []CryptoTypeOK
<1>1. CryptoInit => TypesInv
  BY InitCrypto
<1>2. TypesInv /\ [CryptoNext]_cryptoVars => TypesInv'
  BY StepTypesHold
<1>3. TypesInv => CryptoTypeOK
  BY DEF TypesInv
<1> QED
  BY <1>1, <1>2, <1>3, PTL DEF CryptoSpec
=============================================================================
