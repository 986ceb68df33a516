-------------------------- MODULE SchedulerProofs --------------------------
(***************************************************************************)
(* What the operators of TaskRing do to a list; the inductive invariant of *)
(* the scheduler; and the order in which its tasks have their turns, HIGH  *)
(* ones first and as in the abstract round robin: for any number of        *)
(* programs and any requests, with or without priorities.                  *)
(***************************************************************************)
EXTENDS SchedulerRefinement, SequenceTheorems, WellFoundedInduction, FiniteSetTheorems, TLAPS

-----------------------------------------------------------------------------
(***************************************************************************)
(* What the operators of TaskRing do to the tasks in a list and to its     *)
(* head.                                                                   *)
(***************************************************************************)
(* The list built from argv holds the tasks 0 .. n, each once.             *)
LEMMA InitialRingProperties ==
  ASSUME NEW n \in Nat
  PROVE  /\ InitialRing(n) \in Seq(0 .. n)
         /\ Len(InitialRing(n)) = n + 1
         /\ IsInjective(InitialRing(n))
         /\ Range(InitialRing(n)) = 0 .. n
         /\ InitialRing(n)[1] = 0
<1> DEFINE r == InitialRing(n)
<1>1. r \in [1 .. n + 1 -> 0 .. n]
  BY DEF InitialRing
<1>2. r \in Seq(0 .. n) /\ Len(r) = n + 1
  BY <1>1, SeqDef, LenProperties, n + 1 \in Nat
<1>3. IsInjective(r)
  BY DEF InitialRing, IsInjective
<1>4. \A t \in 0 .. n : t + 1 \in DOMAIN r /\ r[t + 1] = t
  BY DEF InitialRing
<1>5. Range(r) = 0 .. n
  BY <1>1, <1>4 DEF Range
<1>6. r[1] = 0
  BY DEF InitialRing
<1> QED
  BY <1>2, <1>3, <1>5, <1>6

(* Reading the list from another node changes its head and nothing else.   *)
LEMMA RotateProperties ==
  ASSUME NEW S, NEW s \in Seq(S), IsInjective(s), NEW k \in 1 .. Len(s)
  PROVE  /\ Rotate(s, k) \in Seq(S)
         /\ Len(Rotate(s, k)) = Len(s)
         /\ IsInjective(Rotate(s, k))
         /\ Range(Rotate(s, k)) = Range(s)
         /\ Rotate(s, k)[1] = s[k]
<1> DEFINE a == SubSeq(s, k, Len(s))
           b == SubSeq(s, 1, k - 1)
           n == Len(s)
           r == Rotate(s, k)
<1>1. n \in Nat /\ s \in [1 .. n -> S] /\ DOMAIN s = 1 .. n
  BY LenProperties
<1>2. /\ a \in Seq(S) /\ Len(a) = n - k + 1
      /\ \A i \in 1 .. n - k + 1 : a[i] = s[k + i - 1]
  BY <1>1, SubSeqProperties
<1>3. /\ b \in Seq(S) /\ Len(b) = k - 1
      /\ \A i \in 1 .. k - 1 : b[i] = s[i]
  <2>1. \A i \in 1 .. k - 1 : s[i] \in S
    BY <1>1
  <2>2. /\ b \in Seq(S) /\ Len(b) = IF 1 <= k - 1 THEN (k - 1) - 1 + 1 ELSE 0
        /\ \A i \in 1 .. (k - 1) - 1 + 1 : b[i] = s[1 + i - 1]
    BY <2>1, <1>1, SubSeqProperties
  <2> QED
    BY <2>2, <1>1
<1>a. r = a \o b
  BY DEF Rotate
<1> HIDE DEF a, b, r, n
<1>4. /\ r \in Seq(S) /\ Len(r) = n
      /\ \A i \in 1 .. n : r[i] = IF i <= n - k + 1 THEN s[k + i - 1] ELSE s[i - (n - k + 1)]
  <2>0. k \in 1 .. n
    BY DEF n
  <2>2. /\ a \o b \in Seq(S) /\ Len(a \o b) = Len(a) + Len(b)
        /\ \A i \in 1 .. Len(a) + Len(b) :
              (a \o b)[i] = IF i <= Len(a) THEN a[i] ELSE b[i - Len(a)]
    BY <1>2, <1>3, ConcatProperties
  <2>3. Len(r) = n
    BY <1>a, <2>0, <2>2, <1>1, <1>2, <1>3
  <2>4. ASSUME NEW i \in 1 .. n
        PROVE  r[i] = IF i <= n - k + 1 THEN s[k + i - 1] ELSE s[i - (n - k + 1)]
    <3>0. i \in 1 .. Len(a) + Len(b)
      BY <2>0, <1>1, <1>2, <1>3
    <3>1. r[i] = IF i <= n - k + 1 THEN a[i] ELSE b[i - (n - k + 1)]
      BY <3>0, <1>a, <2>2, <1>2
    <3>2. i <= n - k + 1 => i \in 1 .. n - k + 1
      BY <1>1
    <3>3. ~(i <= n - k + 1) => i - (n - k + 1) \in 1 .. k - 1
      BY <2>0, <1>1
    <3> QED
      BY <3>1, <3>2, <3>3, <1>2, <1>3
  <2> QED
    BY <1>a, <2>2, <2>3, <2>4
<1>5. DOMAIN r = 1 .. n
  BY <1>4, LenProperties
<1>6. IsInjective(r)
  <2> SUFFICES ASSUME NEW i \in 1 .. n, NEW j \in 1 .. n, r[i] = r[j]
               PROVE  i = j
    BY <1>5 DEF IsInjective
  <2> DEFINE at(x) == IF x <= n - k + 1 THEN k + x - 1 ELSE x - (n - k + 1)
  <2>1. at(i) \in 1 .. n /\ at(j) \in 1 .. n
    BY <1>1 DEF n
  <2>2. s[at(i)] = s[at(j)]
    BY <1>4
  <2>3. at(i) = at(j)
    BY <2>1, <2>2, <1>1 DEF IsInjective
  <2> QED
    BY <2>3, <1>1 DEF n
<1>7. Range(r) = Range(s)
  <2>1. ASSUME NEW i \in 1 .. n PROVE r[i] \in Range(s)
    <3> DEFINE j == IF i <= n - k + 1 THEN k + i - 1 ELSE i - (n - k + 1)
    <3>1. j \in 1 .. n /\ r[i] = s[j]
      BY <1>1, <1>4 DEF n
    <3> QED
      BY <3>1, <1>1 DEF Range
  <2>2. ASSUME NEW i \in 1 .. n PROVE s[i] \in Range(r)
    <3> DEFINE j == IF k <= i THEN i - k + 1 ELSE i + (n - k + 1)
    <3>1. j \in 1 .. n
      BY <1>1 DEF n
    <3>2. IF j <= n - k + 1 THEN k + j - 1 = i ELSE j - (n - k + 1) = i
      BY <1>1 DEF n
    <3>3. r[j] = s[i]
      BY <3>1, <3>2, <1>4
    <3> QED
      BY <3>1, <3>3, <1>5 DEF Range
  <2> QED
    BY <2>1, <2>2, <1>1, <1>5 DEF Range
<1>8. r[1] = s[k]
  BY <1>1, <1>4 DEF n
<1> QED
  BY <1>4, <1>6, <1>7, <1>8 DEF r, n

(* Unlinking a task removes it, and only the head's death changes the head.*)
LEMMA WithoutProperties ==
  ASSUME NEW S, NEW s \in Seq(S), IsInjective(s), NEW t \in Range(s)
  PROVE  /\ Without(s, t) \in Seq(S)
         /\ Len(Without(s, t)) = Len(s) - 1
         /\ IsInjective(Without(s, t))
         /\ Range(Without(s, t)) = Range(s) \ {t}
         /\ s[1] # t => Without(s, t)[1] = s[1]
<1> DEFINE n == Len(s)
           k == PositionOf(s, t)
           a == SubSeq(s, 1, k - 1)
           b == SubSeq(s, k + 1, Len(s))
           r == Without(s, t)
<1>1. n \in Nat /\ s \in [1 .. n -> S] /\ DOMAIN s = 1 .. n
  BY LenProperties
<1>2. k \in 1 .. n /\ s[k] = t
  <2>1. \E i \in 1 .. n : s[i] = t
    BY <1>1 DEF Range
  <2> QED
    BY <2>1 DEF PositionOf
<1> HIDE DEF k
<1>3. /\ a \in Seq(S) /\ Len(a) = k - 1
      /\ \A i \in 1 .. k - 1 : a[i] = s[i]
  <2>1. \A i \in 1 .. k - 1 : s[i] \in S
    BY <1>1, <1>2
  <2>2. /\ a \in Seq(S) /\ Len(a) = IF 1 <= k - 1 THEN (k - 1) - 1 + 1 ELSE 0
        /\ \A i \in 1 .. (k - 1) - 1 + 1 : a[i] = s[1 + i - 1]
    BY <2>1, <1>1, <1>2, SubSeqProperties
  <2> QED
    BY <2>2, <1>1, <1>2
<1>4. /\ b \in Seq(S) /\ Len(b) = n - k
      /\ \A i \in 1 .. n - k : b[i] = s[k + i]
  <2>1. \A i \in k + 1 .. n : s[i] \in S
    BY <1>1, <1>2
  <2>2. /\ b \in Seq(S) /\ Len(b) = IF k + 1 <= n THEN n - (k + 1) + 1 ELSE 0
        /\ \A i \in 1 .. n - (k + 1) + 1 : b[i] = s[(k + 1) + i - 1]
    BY <2>1, <1>1, <1>2, SubSeqProperties
  <2> HIDE DEF b, n
  <2>3. /\ n - (k + 1) + 1 = n - k
        /\ (IF k + 1 <= n THEN n - (k + 1) + 1 ELSE 0) = n - k
        /\ \A i \in 1 .. n - k : (k + 1) + i - 1 = k + i
    BY <1>1, <1>2
  <2> QED
    BY <2>2, <2>3
<1>a. r = a \o b
  BY DEF Without, RemoveAt, k
<1> HIDE DEF a, b, r, n
<1>5. /\ r \in Seq(S) /\ Len(r) = n - 1
      /\ \A i \in 1 .. n - 1 : r[i] = IF i < k THEN s[i] ELSE s[i + 1]
  <2>2. /\ a \o b \in Seq(S) /\ Len(a \o b) = Len(a) + Len(b)
        /\ \A i \in 1 .. Len(a) + Len(b) :
              (a \o b)[i] = IF i <= Len(a) THEN a[i] ELSE b[i - Len(a)]
    BY <1>3, <1>4, ConcatProperties
  <2>3. Len(r) = n - 1
    BY <1>a, <2>2, <1>1, <1>2, <1>3, <1>4
  <2>4. ASSUME NEW i \in 1 .. n - 1
        PROVE  r[i] = IF i < k THEN s[i] ELSE s[i + 1]
    <3>1. r[i] = IF i <= k - 1 THEN a[i] ELSE b[i - (k - 1)]
      BY <1>a, <2>2, <1>1, <1>2, <1>3, <1>4
    <3>2. ~(i <= k - 1) => i - (k - 1) \in 1 .. n - k /\ k + (i - (k - 1)) = i + 1
      BY <1>1, <1>2
    <3> QED
      BY <3>1, <3>2, <1>1, <1>2, <1>3, <1>4
  <2> QED
    BY <1>a, <2>2, <2>3, <2>4
<1>6. DOMAIN r = 1 .. n - 1
  <2>1. Len(r) = n - 1
    BY <1>5
  <2> QED
    BY <1>5, <2>1, LenProperties
<1>7. IsInjective(r)
  <2> SUFFICES ASSUME NEW i \in 1 .. n - 1, NEW j \in 1 .. n - 1, r[i] = r[j]
               PROVE  i = j
    BY <1>6 DEF IsInjective
  <2> DEFINE at(x) == IF x < k THEN x ELSE x + 1
  <2>1. at(i) \in 1 .. n /\ at(j) \in 1 .. n /\ s[at(i)] = s[at(j)]
    BY <1>1, <1>2, <1>5
  <2>2. at(i) = at(j)
    BY <2>1, <1>1 DEF IsInjective
  <2> QED
    BY <2>2, <1>1, <1>2
<1>8. Range(r) = Range(s) \ {t}
  <2>1. ASSUME NEW i \in 1 .. n - 1 PROVE r[i] \in Range(s) \ {t}
    <3> DEFINE j == IF i < k THEN i ELSE i + 1
    <3>1. j \in 1 .. n /\ j # k /\ r[i] = s[j]
      BY <1>1, <1>2, <1>5
    <3> QED
      BY <3>1, <1>1, <1>2 DEF Range, IsInjective
  <2>2. ASSUME NEW i \in 1 .. n, s[i] # t PROVE s[i] \in Range(r)
    <3> DEFINE j == IF i < k THEN i ELSE i - 1
    <3>1. j \in 1 .. n - 1 /\ r[j] = s[i]
      BY <2>2, <1>1, <1>2, <1>5
    <3> QED
      BY <3>1, <1>6 DEF Range
  <2> QED
    BY <2>1, <2>2, <1>1, <1>6 DEF Range
<1>9. s[1] # t => r[1] = s[1]
  BY <1>1, <1>2, <1>5
<1> QED
  BY <1>5, <1>7, <1>8, <1>9 DEF r, n

(* A new node goes in after the head.                                      *)
LEMMA InsertAfterHeadProperties ==
  ASSUME NEW S, NEW s \in Seq(S), IsInjective(s), s # << >>,
         NEW t \in S, t \notin Range(s)
  PROVE  /\ InsertAfterHead(s, t) \in Seq(S)
         /\ Len(InsertAfterHead(s, t)) = Len(s) + 1
         /\ IsInjective(InsertAfterHead(s, t))
         /\ Range(InsertAfterHead(s, t)) = Range(s) \cup {t}
         /\ InsertAfterHead(s, t)[1] = s[1]
<1> DEFINE n == Len(s)
           a == SubSeq(s, 1, 1)
           b == SubSeq(s, 2, Len(s))
           r == InsertAfterHead(s, t)
<1>1. n \in Nat \ {0} /\ s \in [1 .. n -> S] /\ DOMAIN s = 1 .. n
  BY LenProperties, EmptySeq
<1>2. a \in Seq(S) /\ Len(a) = 1 /\ a[1] = s[1]
  <2>1. \A i \in 1 .. 1 : s[i] \in S
    BY <1>1
  <2>2. /\ a \in Seq(S) /\ Len(a) = IF 1 <= 1 THEN 1 - 1 + 1 ELSE 0
        /\ \A i \in 1 .. 1 - 1 + 1 : a[i] = s[1 + i - 1]
    BY <2>1, SubSeqProperties
  <2> HIDE DEF a
  <2> QED
    BY <2>2
<1>3. b \in Seq(S) /\ Len(b) = n - 1 /\ \A i \in 1 .. n - 1 : b[i] = s[i + 1]
  <2>1. \A i \in 2 .. n : s[i] \in S
    BY <1>1
  <2>2. /\ b \in Seq(S) /\ Len(b) = IF 2 <= n THEN n - 2 + 1 ELSE 0
        /\ \A i \in 1 .. n - 2 + 1 : b[i] = s[2 + i - 1]
    BY <2>1, <1>1, SubSeqProperties
  <2>3. /\ n - 2 + 1 = n - 1 /\ (IF 2 <= n THEN n - 2 + 1 ELSE 0) = n - 1
        /\ \A i \in 1 .. n - 1 : 2 + i - 1 = i + 1
    BY <1>1
  <2> HIDE DEF b, n
  <2> QED
    BY <2>2, <2>3
<1>4. r = (a \o <<t>>) \o b
  <2>1. 2 - 1 = 1
    OBVIOUS
  <2> QED
    BY <2>1 DEF InsertAfterHead, InsertAt
<1> HIDE DEF a, b, r, n
<1> DEFINE c == a \o <<t>>
<1>5. c \in Seq(S) /\ Len(c) = 2 /\ c[1] = s[1] /\ c[2] = t
  <2>1. <<t>> \in Seq(S) /\ Len(<<t>>) = 1 /\ <<t>>[1] = t
    OBVIOUS
  <2>2. /\ c \in Seq(S) /\ Len(c) = Len(a) + Len(<<t>>)
        /\ \A i \in 1 .. Len(a) + Len(<<t>>) :
              c[i] = IF i <= Len(a) THEN a[i] ELSE <<t>>[i - Len(a)]
    BY <1>2, <2>1, ConcatProperties
  <2> QED
    BY <2>1, <2>2, <1>2
<1> HIDE DEF c
<1>6. /\ r \in Seq(S) /\ Len(r) = n + 1
      /\ \A i \in 1 .. n + 1 : r[i] = IF i = 1 THEN s[1] ELSE IF i = 2 THEN t ELSE s[i - 1]
  <2>1. /\ r \in Seq(S) /\ Len(r) = Len(c) + Len(b)
        /\ \A i \in 1 .. Len(c) + Len(b) : r[i] = IF i <= Len(c) THEN c[i] ELSE b[i - Len(c)]
    BY <1>3, <1>4, <1>5, ConcatProperties DEF c
  <2>2. Len(c) + Len(b) = n + 1
    BY <1>1, <1>3, <1>5
  <2>3. ASSUME NEW i \in 1 .. n + 1, ~(i <= 2)
        PROVE  b[i - 2] = s[i - 1]
    <3>1. i - 2 \in 1 .. n - 1 /\ (i - 2) + 1 = i - 1
      BY <2>3, <1>1
    <3> QED
      BY <3>1, <1>3
  <2>4. \A i \in 1 .. n + 1 : i <= 2 <=> i = 1 \/ i = 2
    BY <1>1
  <2> QED
    BY <2>1, <2>2, <2>3, <2>4, <1>5
<1>7. DOMAIN r = 1 .. n + 1
  <2>1. Len(r) = n + 1
    BY <1>6
  <2> QED
    BY <1>6, <2>1, LenProperties
<1>8. IsInjective(r)
  <2> SUFFICES ASSUME NEW i \in 1 .. n + 1, NEW j \in 1 .. n + 1, r[i] = r[j]
               PROVE  i = j
    BY <1>7 DEF IsInjective
  <2> DEFINE at(x) == IF x = 1 THEN 1 ELSE x - 1
  <2>1. CASE i = 2 \/ j = 2
    BY <2>1, <1>1, <1>6 DEF Range
  <2>2. CASE i # 2 /\ j # 2
    <3>1. at(i) \in 1 .. n /\ at(j) \in 1 .. n /\ s[at(i)] = s[at(j)]
      BY <2>2, <1>1, <1>6
    <3>2. at(i) = at(j)
      BY <3>1, <1>1 DEF IsInjective
    <3> QED
      BY <3>2, <2>2, <1>1
  <2> QED
    BY <2>1, <2>2
<1>9. Range(r) = Range(s) \cup {t}
  <2>1. ASSUME NEW i \in 1 .. n + 1 PROVE r[i] \in Range(s) \cup {t}
    <3>1. i = 1 \/ i = 2 \/ i - 1 \in 1 .. n
      BY <1>1
    <3> QED
      BY <3>1, <1>1, <1>6 DEF Range
  <2>2. ASSUME NEW i \in 1 .. n PROVE s[i] \in Range(r)
    <3> DEFINE j == IF i = 1 THEN 1 ELSE i + 1
    <3>1. j \in 1 .. n + 1 /\ j # 2 /\ (j # 1 => j - 1 = i) /\ (j = 1 => i = 1)
      BY <1>1
    <3>2. r[j] = s[i]
      BY <3>1, <1>6
    <3> QED
      BY <3>1, <3>2, <1>7 DEF Range
  <2>3. t \in Range(r)
    <3>1. 2 \in 1 .. n + 1
      BY <1>1
    <3>2. r[2] = t
      BY <3>1, <1>6
    <3> QED
      BY <3>1, <3>2, <1>7 DEF Range
  <2> QED
    BY <2>1, <2>2, <2>3, <1>1, <1>7 DEF Range
<1> QED
  BY <1>1, <1>6, <1>8, <1>9 DEF r, n

(* A set of positions that is not empty has a first one.                   *)
LEMMA MinProperties ==
  ASSUME NEW T \in SUBSET Nat, T # {}
  PROVE  Min(T) \in T /\ \A x \in T : Min(T) <= x
<1> DEFINE R == {ss \in Nat \X Nat : ss[1] < ss[2]}
<1>1. IsWellFoundedOn(R, Nat)
  BY NatLessThanWellFounded DEF OpToRel
<1>2. PICK x \in T : \A y \in T : ~(<<y, x>> \in R)
  BY <1>1, WFMin
<1>3. ASSUME NEW y \in T PROVE x <= y
  <2>1. x \in Nat /\ y \in Nat
    OBVIOUS
  <2>2. y < x => <<y, x>> \in R
    BY <2>1
  <2> HIDE DEF R
  <2> QED
    BY <1>2, <2>1, <2>2
<1> QED
  BY <1>3 DEF Min

(* The search finds a position of T whenever there is one.                 *)
LEMMA FirstAfterHeadProperties ==
  ASSUME NEW S, NEW s \in Seq(S), NEW T
  PROVE  LET k == FirstAfterHead(s, T)
         IN  /\ k \in 0 .. Len(s)
             /\ k # 0 => k \in 1 .. Len(s) /\ s[k] \in T
             /\ k = 0 <=> Range(s) \cap T = {}
<1> DEFINE k == FirstAfterHead(s, T)
           later == {i \in 2 .. Len(s) : s[i] \in T}
<1>1. Len(s) \in Nat /\ DOMAIN s = 1 .. Len(s)
  BY LenProperties
<1>2. CASE later # {}
  <2>1. later \in SUBSET Nat
    BY <1>1
  <2>2. k = Min(later)
    BY <1>2 DEF FirstAfterHead
  <2>3. Min(later) \in later
    BY <2>1, <1>2, MinProperties
  <2>4. k \in 2 .. Len(s) /\ s[k] \in T
    BY <2>2, <2>3
  <2> HIDE DEF k
  <2> QED
    BY <2>4, <1>1 DEF Range, k
<1>3. CASE later = {}
  <2>1. k = IF Len(s) > 0 /\ s[1] \in T THEN 1 ELSE 0
    BY <1>3 DEF FirstAfterHead
  <2>2. ASSUME NEW i \in 1 .. Len(s), s[i] \in T PROVE i = 1
    BY <2>2, <1>1, <1>3
  <2> HIDE DEF k
  <2> QED
    BY <2>1, <2>2, <1>1 DEF Range, k
<1> QED
  BY <1>2, <1>3

-----------------------------------------------------------------------------
(***************************************************************************)
(* The scheduler.                                                          *)
(***************************************************************************)
USE DEF Shell, Tasks, Levels, ProcStates, Alive, Serving, Asleep

-----------------------------------------------------------------------------
(* What is known of the list while the scheduler runs.                     *)
LEMMA RingFacts ==
  ASSUME TypeOK, ListedNumbers, Serving
  PROVE  /\ ring \in Seq(Tasks) /\ Len(ring) \in Nat \ {0} /\ DOMAIN ring = 1 .. Len(ring)
         /\ Curr \in Listed /\ Curr \in Tasks
         /\ Listed \subseteq Tasks
         /\ IsFiniteSet(Listed) /\ IsFiniteSet(HighTasks)
<1>1. ring \in Seq(Tasks) /\ ring # << >>
  BY DEF TypeOK, ListedNumbers
<1>2. Len(ring) \in Nat \ {0} /\ ring \in [1 .. Len(ring) -> Tasks] /\ DOMAIN ring = 1 .. Len(ring)
  BY <1>1, LenProperties, EmptySeq
<1>3. Curr \in Listed /\ Listed \subseteq Tasks
  BY <1>2 DEF Curr, Listed, Range
<1>4. IsFiniteSet(Tasks)
  BY CountAssumption, FS_Interval
<1>5. IsFiniteSet(Listed)
  BY <1>3, <1>4, FS_Subset
<1>6. HighTasks \subseteq Listed
  BY DEF HighTasks
<1>7. IsFiniteSet(HighTasks)
  BY <1>5, <1>6, FS_Subset
<1> QED
  BY <1>1, <1>2, <1>3, <1>5, <1>7

(* SIGCONT wakes those it is sent to and touches nobody else.              *)
LEMMA ContEffect ==
  ASSUME NEW T \in SUBSET Tasks, NEW p \in [Tasks -> ProcStates], Cont(T, p),
         pend \in [Tasks -> SUBSET {"STOP", "KILL"}], chld \in BOOLEAN
  PROVE  /\ proc' \in [Tasks -> ProcStates]
         /\ pend' \in [Tasks -> SUBSET {"STOP", "KILL"}]
         /\ chld' \in BOOLEAN
         /\ \A q \in Tasks : ~Asleep(p[q]) => proc'[q] = p[q]
         /\ \A q \in Tasks : Asleep(p[q]) => proc'[q] \in {p[q], "run"}
         /\ \A q \in T : ~Asleep(proc'[q])
         /\ (\E q \in T : Asleep(p[q])) => chld'
BY DEF Cont

(* SIGSTOP and SIGKILL only add to what a child has yet to act on.         *)
LEMMA PostEffect ==
  ASSUME NEW sig \in {"STOP", "KILL"}, NEW T, TypeOK
  PROVE  /\ Post(sig, T) \in [Tasks -> SUBSET {"STOP", "KILL"}]
         /\ \A q \in Tasks : pend[q] # {} => Post(sig, T)[q] # {}
         /\ \A q \in Tasks : q \in T /\ proc[q] = "run" => Post(sig, T)[q] # {}
BY DEF Post, TypeOK

-----------------------------------------------------------------------------
(* The initial state satisfies the inductive invariant.                    *)
LEMMA InitIInv == Init => IInv
<1> SUFFICES ASSUME Init PROVE IInv
  OBVIOUS
<1>1. << >> \in Seq(Tasks)
  OBVIOUS
<1>2. TypeOK
  BY <1>1, CountAssumption DEF Init, TypeOK
<1>3. BootState
  BY CountAssumption DEF Init, BootState
<1>4. ListedNumbers /\ HandlerState /\ HighCount /\ ListIsChildren /\ CurrentNotParked /\ WakeUpComing
  BY DEF Init, ListedNumbers, HandlerState, HighCount, ListIsChildren, CurrentNotParked, WakeUpComing
<1>5. ExecBound
  BY DEF Init, ExecBound, NoRequest
<1> QED
  BY <1>2, <1>3, <1>4, <1>5 DEF IInv

(* Before the handlers are installed a child changes state and main counts *)
(* it; no list exists yet.                                                 *)
LEMMA BootStep ==
  ASSUME IInv, NEW t \in Tasks, WaitReady(t) \/ WaitDead(t)
  PROVE  IInv'
<1> USE DEF listVars, signalVars, pipeVars, childVars
<1>1. TypeOK'
  BY DEF IInv, TypeOK, WaitReady, WaitDead
<1>2. BootState'
  BY DEF IInv, TypeOK, BootState, WaitReady, WaitDead
<1>3. ExecBound'
  BY DEF IInv, ExecBound, WaitReady, WaitDead
<1>4. (ListedNumbers /\ HandlerState /\ HighCount /\ ListIsChildren /\ CurrentNotParked /\ WakeUpComing)'
  BY DEF WaitReady, WaitDead, ListedNumbers, HandlerState, HighCount, ListIsChildren, CurrentNotParked, WakeUpComing
<1> QED
  BY <1>1, <1>2, <1>3, <1>4 DEF IInv

(* main builds the list from the children, which are all stopped, and      *)
(* wakes the shell.                                                        *)
LEMMA StartStep ==
  ASSUME IInv, Start
  PROVE  IInv'
<1> USE DEF listVars, signalVars, pipeVars, childVars
<1>1. /\ TypeOK /\ BootState /\ ExecBound /\ pc = "boot"
      /\ \A t \in 0 .. NProc : proc[t] = "parked"
      /\ ring' = InitialRing(NProc)
      /\ Cont({0}, proc)
      /\ pc' = IF NProc = 0 THEN "exit1" ELSE "read"
      /\ UNCHANGED <<prio, hashigh, nproc, dead, nopid, handler, alrm, alarm, fresh, pipeVars>>
  BY DEF IInv, Start
<1>2. /\ NProc \in Nat /\ MaxTasks \in Nat /\ NProc <= MaxTasks /\ 0 \in Tasks /\ 0 .. NProc \subseteq Tasks
  BY CountAssumption
<1>3. /\ proc' \in [Tasks -> ProcStates] /\ pend' \in [Tasks -> SUBSET {"STOP", "KILL"}]
      /\ chld' \in BOOLEAN
      /\ \A q \in Tasks : ~Asleep(proc[q]) => proc'[q] = proc[q]
      /\ \A q \in Tasks : Asleep(proc[q]) => proc'[q] \in {proc[q], "run"}
      /\ ~Asleep(proc'[0]) /\ chld'
  <2>1. {0} \in SUBSET Tasks /\ Asleep(proc[0])
    BY <1>1, <1>2
  <2>2. /\ proc \in [Tasks -> ProcStates] /\ pend \in [Tasks -> SUBSET {"STOP", "KILL"}]
        /\ chld \in BOOLEAN
    BY <1>1 DEF TypeOK
  <2>3. \E q \in {0} : Asleep(proc[q])
    BY <2>1
  <2>4. Cont({0}, proc)
    BY <1>1
  <2>5. \A q \in {0} : ~Asleep(proc'[q])
    BY <2>1, <2>2, <2>4, ContEffect
  <2> QED
    BY <2>1, <2>2, <2>3, <2>4, <2>5, ContEffect
<1>4. /\ ring' \in Seq(0 .. NProc) /\ Len(ring') = NProc + 1 /\ IsInjective(ring')
      /\ Range(ring') = 0 .. NProc /\ ring'[1] = 0
  BY <1>1, <1>2, InitialRingProperties
<1>5. ring' \in Seq(Tasks)
  BY <1>2, <1>4, SeqMonotonic
<1>6. /\ hashigh' = 0 /\ nproc' = NProc /\ dead' = 0 /\ nopid' = {} /\ handler' = "out"
      /\ prio' = [t \in Tasks |-> "LOW"]
  BY <1>1 DEF BootState
<1>7. TypeOK'
  BY <1>1, <1>3, <1>5 DEF TypeOK
<1>8. Child' = 0 .. NProc
  <2>1. \A t \in Tasks : proc[t] \notin {"none", "gone"} <=> t <= NProc
    BY <1>1, <1>2 DEF BootState
  <2>2. \A t \in Tasks : proc'[t] \notin {"none", "gone"} <=> proc[t] \notin {"none", "gone"}
    BY <1>3
  <2> QED
    BY <2>1, <2>2, <1>2 DEF Child
<1>9. ListIsChildren'
  BY <1>2, <1>4, <1>6, <1>8 DEF ListIsChildren, Listed
<1>10. ListedNumbers'
  BY <1>2, <1>4, <1>6, EmptySeq DEF ListedNumbers, Listed
<1>11. HighCount'
  <2>1. HighTasks' = {}
    BY <1>2, <1>4, <1>6 DEF HighTasks, Listed
  <2> QED
    BY <2>1, <1>6, FS_EmptySet DEF HighCount
<1>12. HandlerState'
  BY <1>2, <1>3, <1>6, <1>8 DEF HandlerState
<1>13. CurrentNotParked'
  BY <1>3, <1>4, <1>6 DEF CurrentNotParked, SentTo, Curr
<1>14. WakeUpComing'
  BY <1>3 DEF WakeUpComing
<1>15. BootState' /\ ExecBound'
  BY <1>1 DEF BootState, ExecBound
<1> QED
  BY <1>7, <1>9, <1>10, <1>11, <1>12, <1>13, <1>14, <1>15 DEF IInv

-----------------------------------------------------------------------------
(* A step that leaves the list and the children's states alone keeps       *)
(* everything that is about them.                                          *)
LEMMA ListKept ==
  ASSUME IInv, UNCHANGED <<listVars, proc>>,
         pc' = "boot" => pc = "boot" /\ handler' = handler,
         pc' = "exit0" => pc = "exit0",
         Serving' => Serving
  PROVE  (BootState /\ ListedNumbers /\ HighCount /\ ListIsChildren /\ CurrentNotParked)'
<1> USE DEF listVars
<1>1. BootState'
  BY DEF IInv, BootState
<1>2. ListedNumbers'
  BY DEF IInv, ListedNumbers, Listed
<1>3. HighCount'
  BY DEF IInv, HighCount, HighTasks, Listed
<1>4. ListIsChildren'
  BY DEF IInv, ListIsChildren, Listed, Child
<1>5. CurrentNotParked'
  BY DEF IInv, CurrentNotParked, SentTo, Curr
<1> QED
  BY <1>1, <1>2, <1>3, <1>4, <1>5

(* The timer and the signals reach the scheduler.  When SIGALRM is handled *)
(* and nothing else is coming, curr runs and takes the SIGSTOP.            *)
LEMMA SignalStep ==
  ASSUME IInv, AlarmExpires \/ Sigalrm \/ Sigchld \/ Rearm \/ SigchldReturn
  PROVE  IInv'
<1> USE DEF listVars, signalVars, pipeVars, childVars
<1>1. (BootState /\ ListedNumbers /\ HighCount /\ ListIsChildren /\ CurrentNotParked)'
  <2>1. /\ UNCHANGED <<listVars, proc, pc>>
        /\ pc = "boot" => handler' = handler
    BY DEF AlarmExpires, Sigalrm, Sigchld, Rearm, SigchldReturn, IInv, BootState
  <2> QED
    BY <2>1, ListKept
<1>2. TypeOK'
  <2>1. CASE Sigalrm
    BY <2>1, PostEffect DEF Sigalrm, IInv, TypeOK
  <2>2. CASE ~Sigalrm
    BY <2>2 DEF AlarmExpires, Sigchld, Rearm, SigchldReturn, IInv, TypeOK
  <2> QED
    BY <2>1, <2>2
<1>3. ExecBound'
  BY DEF AlarmExpires, Sigalrm, Sigchld, Rearm, SigchldReturn, IInv, ExecBound
<1>4. HandlerState'
  <2>1. CASE AlarmExpires
    BY <2>1 DEF AlarmExpires, IInv, HandlerState, Child
  <2>2. CASE Sigalrm
    BY <2>2 DEF Sigalrm, IInv, HandlerState, Child
  <2>3. CASE Sigchld
    BY <2>3 DEF Sigchld, IInv, HandlerState, Child
  <2>4. CASE Rearm
    BY <2>4 DEF Rearm, IInv, HandlerState, Child
  <2>5. CASE SigchldReturn
    BY <2>5 DEF SigchldReturn, IInv, HandlerState, Child
  <2> QED
    BY <2>1, <2>2, <2>3, <2>4, <2>5
<1>5. WakeUpComing'
  <2>1. CASE AlarmExpires
    BY <2>1 DEF AlarmExpires, WakeUpComing
  <2>2. CASE Sigalrm
    <3>1. CASE chld \/ alarm
      BY <2>2, <3>1 DEF Sigalrm, WakeUpComing
    <3>2. CASE ~chld
      <4>1. \A t \in Tasks : proc[t] \notin {"stopped", "zombie"}
        BY <2>2, <3>2 DEF Sigalrm, IInv, HandlerState
      <4>2. PICK t \in SentTo(Curr) : t \in Child
        <5>1. /\ Curr \in Tasks /\ Curr \in Listed
              /\ Listed = Child \cup nopid /\ Child # {} /\ Child \subseteq Tasks
          BY <2>2, RingFacts DEF Sigalrm, IInv, ListIsChildren, HandlerState, Child
        <5>2. CASE Curr \in nopid
          BY <5>1, <5>2 DEF SentTo
        <5>3. CASE Curr \notin nopid
          BY <5>1, <5>3 DEF SentTo
        <5> QED
          BY <5>2, <5>3
      <4>3. t \in Tasks /\ proc[t] = "run"
        BY <2>2, <4>1, <4>2 DEF Sigalrm, IInv, CurrentNotParked, Child, TypeOK
      <4>4. pend'[t] # {}
        BY <2>2, <4>2, <4>3, PostEffect DEF Sigalrm, IInv
      <4>5. t \in SentTo(Curr)' /\ proc'[t] = "run"
        BY <2>2, <4>2, <4>3 DEF Sigalrm, SentTo, Curr
      <4> QED
        BY <4>4, <4>5 DEF WakeUpComing
    <3> QED
      BY <3>1, <3>2
  <2>3. CASE Sigchld \/ Rearm
    BY <2>3 DEF Sigchld, Rearm, WakeUpComing
  <2>4. CASE SigchldReturn
    BY <2>4 DEF SigchldReturn, IInv, HandlerState, WakeUpComing
  <2> QED
    BY <2>1, <2>2, <2>3, <2>4
<1> QED
  BY <1>1, <1>2, <1>3, <1>4, <1>5 DEF IInv

(* Failing in waitpid, or giving up on requests, changes nothing else.     *)
LEMMA QuietStep ==
  ASSUME IInv, NoChildren \/ WriteReply \/ ReadEof \/ IssueRequest \/ GetReply
               \/ ServePrint \/ ServeUnknown
  PROVE  IInv'
<1> USE DEF listVars, signalVars, pipeVars, childVars, Serve
<1>1. /\ UNCHANGED <<listVars, childVars, signalVars, handler>>
      /\ pc' = "boot" => pc = "boot"
      /\ pc' = "exit0" => pc = "exit0"
      /\ Serving' => Serving
  BY DEF NoChildren, WriteReply, ReadEof, IssueRequest, GetReply, ServePrint, ServeUnknown
<1>2. (BootState /\ ListedNumbers /\ HighCount /\ ListIsChildren /\ CurrentNotParked)'
  BY <1>1, ListKept
<1>3. HandlerState'
  BY <1>1 DEF IInv, HandlerState, Child
<1>4. WakeUpComing'
  BY <1>1 DEF IInv, WakeUpComing, SentTo, Curr
<1>5. /\ pc' \in {"boot", "read", "reply", "pause", "exit0", "exit1", "wild"}
      /\ rq' \in Requests \cup {NoRequest}
      /\ ret' \in {"none", "ok", "nosys"} /\ shell' \in {"idle", "waiting"}
  BY DEF IInv, TypeOK, NoChildren, WriteReply, ReadEof, IssueRequest, GetReply, ServePrint, ServeUnknown
<1>6. TypeOK'
  BY <1>1, <1>5 DEF IInv, TypeOK
<1>7. ExecBound'
  BY DEF IInv, ExecBound, NoChildren, WriteReply, ReadEof, IssueRequest, GetReply,
         ServePrint, ServeUnknown, NoRequest
<1> QED
  BY <1>2, <1>3, <1>4, <1>6, <1>7 DEF IInv

(* A kill request posts a SIGKILL and cannot take a wake-up away.          *)
LEMMA KillStep ==
  ASSUME IInv, ServeKill
  PROVE  IInv'
<1> USE DEF listVars, signalVars, pipeVars, childVars, Serve
<1>1. /\ UNCHANGED <<listVars, proc, fresh, signalVars, handler, shell>>
      /\ pc = "read" /\ pc' = "reply" /\ rq' = NoRequest /\ ret' = "ok"
  BY DEF ServeKill
<1>2. /\ pend' \in [Tasks -> SUBSET {"STOP", "KILL"}]
      /\ \A q \in Tasks : pend[q] # {} => pend'[q] # {}
  <2>1. pend \in [Tasks -> SUBSET {"STOP", "KILL"}] /\ TypeOK
    BY DEF IInv, TypeOK
  <2> QED
    BY <2>1, PostEffect DEF ServeKill
<1>3. (BootState /\ ListedNumbers /\ HighCount /\ ListIsChildren /\ CurrentNotParked)'
  BY <1>1, ListKept
<1>4. HandlerState'
  BY <1>1 DEF IInv, HandlerState, Child
<1>5. WakeUpComing'
  <2>1. SentTo(Curr)' = SentTo(Curr)
    BY <1>1 DEF SentTo, Curr
  <2>2. SentTo(Curr) \subseteq Tasks
    BY <1>1, RingFacts DEF SentTo, IInv
  <2> QED
    BY <1>1, <1>2, <2>1, <2>2 DEF IInv, WakeUpComing
<1>6. TypeOK'
  BY <1>1, <1>2 DEF IInv, TypeOK
<1>7. ExecBound'
  BY <1>1 DEF ExecBound, NoRequest
<1> QED
  BY <1>3, <1>4, <1>5, <1>6, <1>7 DEF IInv

(* A child that stops or ends stays a child, and its SIGCHLD is pending.   *)
LEMMA ChildStep ==
  ASSUME IInv, NEW t \in Tasks, TakeSignal(t) \/ Exit(t)
  PROVE  IInv'
<1> USE DEF listVars, signalVars, pipeVars, childVars
<1>1. PICK state \in {"stopped", "zombie"} :
        /\ proc[t] \in {"run", "stopped", "parked"} /\ Becomes(t, state)
        /\ pend' \in {pend, [pend EXCEPT ![t] = {}]} /\ fresh' \in {fresh, fresh \ {t}}
  BY DEF TakeSignal, RaiseStop, TakeStop, TakeKill, Exit
<1>2. /\ proc' = [proc EXCEPT ![t] = state] /\ chld' = (chld \/ pc # "boot")
      /\ UNCHANGED <<listVars, pc, handler, alrm, alarm, pipeVars>>
  BY <1>1 DEF Becomes
<1>3. TypeOK'
  BY <1>1, <1>2 DEF IInv, TypeOK
<1>4. /\ proc'[t] = state /\ \A q \in Tasks : q # t => proc'[q] = proc[q]
  BY <1>2 DEF IInv, TypeOK
<1>5. Child' = Child
  BY <1>1, <1>4 DEF Child
<1>6. BootState'
  BY <1>1, <1>2, <1>4 DEF IInv, BootState
<1>7. (ListedNumbers /\ HighCount /\ ListIsChildren /\ ExecBound)'
  BY <1>2, <1>5 DEF IInv, ListedNumbers, HighCount, HighTasks, ListIsChildren, Listed, ExecBound
<1>8. HandlerState'
  BY <1>2, <1>4, <1>5 DEF IInv, HandlerState
<1>9. CurrentNotParked'
  <2> SUFFICES ASSUME Serving', NEW q \in SentTo(Curr)' PROVE proc'[q] # "parked"
    BY DEF CurrentNotParked
  <2>1. Serving /\ q \in SentTo(Curr)
    BY <1>2 DEF SentTo, Curr
  <2>2. q \in Tasks
    BY <2>1, RingFacts DEF SentTo, IInv
  <2> QED
    BY <2>1, <2>2, <1>4 DEF IInv, CurrentNotParked
<1>10. WakeUpComing'
  BY <1>2 DEF WakeUpComing
<1> QED
  BY <1>3, <1>6, <1>7, <1>8, <1>9, <1>10 DEF IInv

(* A request for a priority moves the counter exactly when the task enters *)
(* or leaves the set of HIGH tasks.                                        *)
LEMMA PriorityStep ==
  ASSUME IInv, ServeHigh \/ ServeLow
  PROVE  IInv'
<1> USE DEF signalVars, childVars, Serve
<1>1. /\ UNCHANGED <<ring, nproc, dead, nopid, handler, signalVars, childVars, shell>>
      /\ pc = "read" /\ pc' = "reply" /\ rq' = NoRequest /\ ret' = "ok"
      /\ rq.op \in {"high", "low"}
  BY DEF ServeHigh, ServeLow, SetPriority
<1>2. rq.id \in Tasks
  BY <1>1 DEF IInv, TypeOK, Requests, NoRequest
<1>3. Listed' = Listed
  BY <1>1 DEF Listed
<1>4. IsFiniteSet(HighTasks) /\ Listed \subseteq Tasks
  BY <1>1, RingFacts DEF IInv
<1>5. /\ prio' \in [Tasks -> Levels] /\ hashigh' \in Int
      /\ hashigh' = Cardinality(HighTasks')
  <2> DEFINE id == rq.id
  <2>1. /\ prio \in [Tasks -> Levels] /\ hashigh \in Int /\ hashigh = Cardinality(HighTasks)
    BY <1>1 DEF IInv, TypeOK, HighCount
  <2>2. CASE prio' = prio /\ hashigh' = hashigh
    BY <2>1, <2>2, <1>3 DEF HighTasks
  <2>3. CASE ServeHigh /\ id \in Listed /\ prio[id] # "HIGH"
    <3>1. prio' = [prio EXCEPT ![id] = "HIGH"] /\ hashigh' = hashigh + 1
      BY <2>3 DEF ServeHigh, SetPriority, Changes
    <3>2. HighTasks' = HighTasks \cup {id} /\ id \notin HighTasks
      BY <2>1, <2>3, <3>1, <1>2, <1>3, <1>4 DEF HighTasks
    <3>3. Cardinality(HighTasks \cup {id}) = Cardinality(HighTasks) + 1
      BY <3>2, <1>4, FS_AddElement
    <3> QED
      BY <2>1, <3>1, <3>2, <3>3, <1>2
  <2>4. CASE ServeLow /\ id \in Listed /\ prio[id] # "LOW"
    <3>1. prio' = [prio EXCEPT ![id] = "LOW"] /\ hashigh' = hashigh - 1
      BY <2>1, <2>4 DEF ServeLow, SetPriority, Changes
    <3>2. HighTasks' = HighTasks \ {id} /\ id \in HighTasks
      BY <2>1, <2>4, <3>1, <1>2, <1>3, <1>4 DEF HighTasks
    <3>3. Cardinality(HighTasks \ {id}) = Cardinality(HighTasks) - 1
      BY <3>2, <1>4, FS_RemoveElement
    <3> QED
      BY <2>1, <3>1, <3>2, <3>3, <1>2
  <2> QED
    BY <2>2, <2>3, <2>4 DEF ServeHigh, ServeLow, SetPriority, Changes
<1>6. TypeOK'
  BY <1>1, <1>5 DEF IInv, TypeOK
<1>7. HighCount'
  BY <1>5 DEF HighCount
<1>8. (BootState /\ ExecBound)'
  BY <1>1 DEF BootState, ExecBound, NoRequest
<1>9. (ListedNumbers /\ ListIsChildren)'
  BY <1>1, <1>3 DEF IInv, ListedNumbers, ListIsChildren, Child
<1>10. (HandlerState /\ CurrentNotParked /\ WakeUpComing)'
  BY <1>1 DEF IInv, HandlerState, CurrentNotParked, WakeUpComing, Child, SentTo, Curr
<1> QED
  BY <1>6, <1>7, <1>8, <1>9, <1>10 DEF IInv

(* A new task gets a number nobody has, whether the fork succeeds or not.  *)
LEMMA ExecStep ==
  ASSUME IInv, ServeExec \/ ServeExecNoFork
  PROVE  IInv'
<1> USE DEF signalVars, Serve
<1> DEFINE t == nproc + 1
<1>1. PICK forked \in BOOLEAN : AddTask(forked) /\ (forked \/ ForkMayFail)
  BY DEF ServeExec, ServeExecNoFork
<1>2. /\ pc = "read" /\ pc' = "reply" /\ rq' = NoRequest /\ ret' = "ok" /\ rq.op = "exec"
      /\ handler = "out"
      /\ ring' = InsertAfterHead(ring, t) /\ prio' = [prio EXCEPT ![t] = "LOW"] /\ nproc' = t
      /\ nopid' = IF forked THEN nopid ELSE nopid \cup {t}
      /\ proc' = IF forked THEN [proc EXCEPT ![t] = "run"] ELSE proc
      /\ fresh' = IF forked THEN fresh \cup {t} ELSE fresh
      /\ UNCHANGED <<hashigh, dead, handler, chld, alrm, alarm, pend, shell>>
  BY <1>1 DEF AddTask, Linked
<1>3. /\ TypeOK /\ ring \in Seq(Tasks) /\ ring # << >> /\ Len(ring) \in Nat /\ IsInjective(ring)
      /\ Listed \subseteq Tasks /\ \A q \in Listed : q <= nproc
      /\ Listed = Child \cup nopid /\ Child \cap nopid = {} /\ dead + Len(ring) = nproc + 1
      /\ Curr \in Listed /\ IsFiniteSet(HighTasks)
      /\ ForkMayFail \/ nopid = {}
  BY <1>2, RingFacts DEF IInv, ListedNumbers, ListIsChildren
<1>4. t \in Tasks /\ t \notin Listed /\ nproc \in Nat /\ t \in NProc .. MaxTasks
  <2>1. nproc \in NProc .. MaxTasks /\ nproc < MaxTasks
    BY <1>2 DEF IInv, TypeOK, ExecBound
  <2> QED
    BY <2>1, <1>3, CountAssumption
<1>5. /\ ring' \in Seq(Tasks) /\ Len(ring') = Len(ring) + 1 /\ IsInjective(ring')
      /\ Listed' = Listed \cup {t} /\ Curr' = Curr
  BY <1>2, <1>3, <1>4, InsertAfterHeadProperties DEF Listed, Curr
<1>6. TypeOK'
  BY <1>2, <1>3, <1>4, <1>5 DEF TypeOK
<1>7. (BootState /\ ExecBound)'
  BY <1>2 DEF BootState, ExecBound, NoRequest
<1>8. /\ proc \in [Tasks -> ProcStates] /\ Child' = IF forked THEN Child \cup {t} ELSE Child
      /\ \A q \in Tasks : q # t => proc'[q] = proc[q]
      /\ proc'[t] \in {"run", proc[t]}
  <2>1. proc \in [Tasks -> ProcStates]
    BY <1>3 DEF TypeOK
  <2> QED
    BY <2>1, <1>2, <1>4 DEF Child
<1>9. ListIsChildren'
  <2>1. Listed' = (Child \cup nopid)' /\ (Child \cap nopid = {})'
    BY <1>2, <1>3, <1>4, <1>5, <1>8
  <2>2. (dead + Len(ring) = nproc + 1)'
    <3>1. /\ dead' = dead /\ nproc' = nproc + 1 /\ Len(ring') = Len(ring) + 1
          /\ dead + Len(ring) = nproc + 1
      BY <1>2, <1>3, <1>5
    <3>2. dead \in Nat /\ nproc \in Nat /\ Len(ring) \in Nat
      BY <1>3, <1>4 DEF TypeOK
    <3> QED
      BY <3>1, <3>2
  <2> QED
    BY <2>1, <2>2, <1>5 DEF ListIsChildren
<1>10. ListedNumbers'
  <2>1. ring' # << >>
    BY <1>3, <1>5, EmptySeq
  <2>2. \A q \in Listed' : q <= nproc'
    BY <1>2, <1>3, <1>4, <1>5
  <2> QED
    BY <2>1, <2>2, <1>1, <1>2, <1>3 DEF ListedNumbers
<1>11. HighCount'
  <2>1. HighTasks' = HighTasks
    BY <1>2, <1>3, <1>4, <1>5 DEF HighTasks, TypeOK
  <2> QED
    BY <2>1, <1>2 DEF HighCount, IInv
<1>12. HandlerState'
  BY <1>2, <1>8 DEF IInv, HandlerState
<1>13. Curr \in Tasks /\ Curr # t
  BY <1>3, <1>4
<1>14. CurrentNotParked'
  <2> SUFFICES ASSUME NEW q \in SentTo(Curr)' PROVE proc'[q] # "parked"
    BY DEF CurrentNotParked
  <2>1. q \in SentTo(Curr) /\ q \in Tasks
    BY <1>2, <1>5, <1>13 DEF SentTo
  <2>2. proc[q] # "parked"
    BY <2>1, <1>2 DEF IInv, CurrentNotParked
  <2> QED
    BY <2>1, <2>2, <1>8
<1>15. WakeUpComing'
  <2>1. SentTo(Curr)' = SentTo(Curr) /\ SentTo(Curr) \subseteq Tasks
    BY <1>2, <1>5, <1>13 DEF SentTo
  <2>2. \A q \in Tasks : proc[q] = "run" => proc'[q] = "run"
    BY <1>8
  <2> QED
    BY <2>1, <2>2, <1>2 DEF IInv, WakeUpComing
<1> QED
  BY <1>6, <1>7, <1>9, <1>10, <1>11, <1>12, <1>14, <1>15 DEF IInv

-----------------------------------------------------------------------------
(* A task to dispatch is found, because the counter is right, whenever the *)
(* list is not empty once the dead task (or nobody) is left out.           *)
LEMMA SomeoneEligible ==
  ASSUME IInv, Serving
  PROVE  /\ Eligible(hashigh) \subseteq Listed /\ Eligible(hashigh) # {}
         /\ \A t \in Listed :
              LET h == hashigh - (IF prio[t] = "HIGH" THEN 1 ELSE 0)
              IN  /\ h \in Int /\ h = Cardinality(HighTasks \ {t})
                  /\ Eligible(h) \subseteq Listed
                  /\ Listed # {t} => Eligible(h) \ {t} # {}
<1>1. /\ IsFiniteSet(HighTasks) /\ Curr \in Listed /\ HighTasks \subseteq Listed
      /\ hashigh \in Int /\ hashigh = Cardinality(HighTasks)
  BY RingFacts DEF IInv, HighTasks, HighCount, TypeOK
<1>2. Eligible(hashigh) \subseteq Listed /\ Eligible(hashigh) # {}
  BY <1>1, FS_EmptySet DEF Eligible
<1>3. ASSUME NEW t \in Listed
      PROVE  LET h == hashigh - (IF prio[t] = "HIGH" THEN 1 ELSE 0)
             IN  /\ h \in Int /\ h = Cardinality(HighTasks \ {t})
                 /\ Eligible(h) \subseteq Listed
                 /\ Listed # {t} => Eligible(h) \ {t} # {}
  <2> DEFINE h == hashigh - (IF prio[t] = "HIGH" THEN 1 ELSE 0)
  <2>1. /\ IsFiniteSet(HighTasks \ {t})
        /\ Cardinality(HighTasks \ {t}) =
             IF t \in HighTasks THEN Cardinality(HighTasks) - 1 ELSE Cardinality(HighTasks)
    BY <1>1, FS_RemoveElement
  <2>2. t \in HighTasks <=> prio[t] = "HIGH"
    BY <1>3 DEF HighTasks
  <2>3. h \in Int /\ h = Cardinality(HighTasks \ {t})
    BY <1>1, <2>1, <2>2
  <2>4. Eligible(h) \subseteq Listed
    BY <1>1 DEF Eligible
  <2>5. Listed # {t} => Eligible(h) \ {t} # {}
    <3>1. CASE h = 0
      BY <1>3, <3>1 DEF Eligible
    <3>2. CASE h # 0
      <4>1. HighTasks \ {t} # {}
        BY <2>3, <3>2, FS_EmptySet
      <4> QED
        BY <3>2, <4>1 DEF Eligible
    <3> QED
      BY <3>1, <3>2
  <2> QED
    BY <2>3, <2>4, <2>5
<1> QED
  BY <1>2, <1>3

(* A reported stop is followed by a dispatch: the new curr is awake, be it *)
(* the task that stopped.                                                  *)
LEMMA ReapStoppedStep ==
  ASSUME IInv, NEW t \in Tasks, ReapStopped(t)
  PROVE  IInv'
<1> USE DEF pipeVars
<1> DEFINE k == FirstAfterHead(ring, Eligible(hashigh))
           p == [proc EXCEPT ![t] = "parked"]
<1>1. /\ Alive /\ handler = "loop" /\ proc[t] = "stopped"
      /\ ring' = IF k = 0 THEN ring ELSE Rotate(ring, k)
      /\ Dispatch(k, p)
      /\ UNCHANGED <<prio, hashigh, nproc, dead, nopid, pc, handler, alrm, alarm, fresh, pipeVars>>
  BY DEF ReapStopped
<1>2. Serving /\ TypeOK
  BY <1>1 DEF IInv, TypeOK, BootState
<1>3. /\ ring \in Seq(Tasks) /\ Len(ring) \in Nat \ {0} /\ DOMAIN ring = 1 .. Len(ring)
      /\ IsInjective(ring) /\ Listed \subseteq Tasks
      /\ Listed = Child \cup nopid /\ Child \cap nopid = {} /\ dead + Len(ring) = nproc + 1
      /\ ring # << >> /\ \A q \in Listed : q <= nproc
      /\ ForkMayFail \/ nopid = {}
  BY <1>2, RingFacts DEF IInv, ListIsChildren, ListedNumbers
<1>4. Eligible(hashigh) \subseteq Listed /\ Eligible(hashigh) # {}
  BY <1>2, SomeoneEligible
<1>5. k \in 1 .. Len(ring)
  <2>1. /\ k # 0 => k \in 1 .. Len(ring)
        /\ k = 0 <=> Range(ring) \cap Eligible(hashigh) = {}
    BY <1>3, FirstAfterHeadProperties
  <2>2. Range(ring) \cap Eligible(hashigh) # {}
    BY <1>4 DEF Listed
  <2> HIDE DEF k
  <2> QED
    BY <2>1, <2>2
<1>6. ring' = Rotate(ring, k) /\ Cont(SentTo(ring[k]), p)
  BY <1>1, <1>5 DEF Dispatch
<1> HIDE DEF k
<1>7. /\ ring' \in Seq(Tasks) /\ Len(ring') = Len(ring) /\ IsInjective(ring')
      /\ Listed' = Listed /\ Curr' = ring[k] /\ ring[k] \in Tasks
  <2>1. /\ Rotate(ring, k) \in Seq(Tasks) /\ Len(Rotate(ring, k)) = Len(ring)
        /\ IsInjective(Rotate(ring, k)) /\ Range(Rotate(ring, k)) = Range(ring)
        /\ Rotate(ring, k)[1] = ring[k]
    BY <1>3, <1>5, RotateProperties
  <2>2. ring[k] \in Tasks
    BY <1>3, <1>5, ElementOfSeq
  <2> QED
    BY <2>1, <2>2, <1>6 DEF Listed, Curr
<1>8. /\ p \in [Tasks -> ProcStates] /\ p[t] = "parked"
      /\ \A q \in Tasks : q # t => p[q] = proc[q]
  BY <1>2 DEF TypeOK
<1> HIDE DEF p
<1>9. /\ proc' \in [Tasks -> ProcStates] /\ pend' \in [Tasks -> SUBSET {"STOP", "KILL"}]
      /\ chld' \in BOOLEAN
      /\ \A q \in Tasks : ~Asleep(p[q]) => proc'[q] = p[q]
      /\ \A q \in Tasks : Asleep(p[q]) => proc'[q] \in {p[q], "run"}
      /\ \A q \in SentTo(ring[k]) : ~Asleep(proc'[q])
  <2>1. SentTo(ring[k]) \in SUBSET Tasks
    BY <1>7 DEF SentTo
  <2>2. pend \in [Tasks -> SUBSET {"STOP", "KILL"}] /\ chld \in BOOLEAN
    BY <1>2 DEF TypeOK
  <2> QED
    BY <2>1, <2>2, <1>6, <1>8, ContEffect
<1>10. Child' = Child
  <2>1. \A q \in Tasks : p[q] \notin {"none", "gone"} <=> proc[q] \notin {"none", "gone"}
    BY <1>1, <1>8
  <2>2. \A q \in Tasks : proc'[q] \notin {"none", "gone"} <=> p[q] \notin {"none", "gone"}
    BY <1>9
  <2> QED
    BY <2>1, <2>2 DEF Child
<1>11. TypeOK'
  BY <1>1, <1>2, <1>7, <1>9 DEF TypeOK
<1>12. (BootState /\ ExecBound)'
  BY <1>1, <1>2 DEF IInv, BootState, ExecBound
<1>13. ListIsChildren'
  BY <1>1, <1>3, <1>7, <1>10 DEF ListIsChildren
<1>14. ListedNumbers'
  <2>1. ring' # << >>
    BY <1>3, <1>7, EmptySeq
  <2> QED
    BY <2>1, <1>1, <1>3, <1>7 DEF ListedNumbers
<1>15. HighCount'
  <2>1. HighTasks' = HighTasks
    BY <1>1, <1>7 DEF HighTasks
  <2> QED
    BY <2>1, <1>1 DEF IInv, HighCount
<1>16. (HandlerState /\ WakeUpComing)'
  BY <1>1, <1>2 DEF IInv, HandlerState, WakeUpComing
<1>17. CurrentNotParked'
  <2>1. SentTo(Curr)' = SentTo(ring[k])
    BY <1>1, <1>7 DEF SentTo
  <2> QED
    BY <2>1, <1>9 DEF CurrentNotParked
<1> QED
  BY <1>11, <1>12, <1>13, <1>14, <1>15, <1>16, <1>17 DEF IInv

(* A reported death: the task leaves the list and the counter, and         *)
(* somebody else is dispatched, or the head of the list, which was not the *)
(* dead task, stays; unless the list is empty and the scheduler exits, or  *)
(* its head has been freed.                                                *)
LEMMA ReapDeadStep ==
  ASSUME IInv, NEW t \in Tasks, ReapDead(t)
  PROVE  IInv'
<1> USE DEF pipeVars
<1> DEFINE h == hashigh - (IF prio[t] = "HIGH" THEN 1 ELSE 0)
           stale == h # 0 /\ Len(ring) > 1 /\ ring[2] = t
           k == IF stale THEN 0 ELSE FirstAfterHead(ring, Eligible(h) \ {t})
           s == IF k = 0 THEN ring ELSE Rotate(ring, k)
           p == [proc EXCEPT ![t] = "gone"]
<1>1. /\ Alive /\ handler = "loop" /\ proc[t] = "zombie"
      /\ ring' = Without(s, t) /\ hashigh' = h /\ dead' = dead + 1
      /\ Dispatch(k, p)
      /\ pc' = IF dead' = nproc + 1 THEN "exit0"
               ELSE IF stale /\ prio[t] = "HIGH" THEN "wild" ELSE pc
      /\ UNCHANGED <<prio, nproc, nopid, handler, alrm, alarm, fresh, pipeVars>>
  BY DEF ReapDead, HighLeft, AllDead
<1>2. Serving /\ TypeOK
  BY <1>1 DEF IInv, TypeOK, BootState
<1>3. /\ ring \in Seq(Tasks) /\ Len(ring) \in Nat \ {0} /\ DOMAIN ring = 1 .. Len(ring)
      /\ IsInjective(ring) /\ Listed \subseteq Tasks
      /\ Listed = Child \cup nopid /\ Child \cap nopid = {} /\ dead + Len(ring) = nproc + 1
      /\ ring # << >> /\ \A q \in Listed : q <= nproc
      /\ ForkMayFail \/ nopid = {}
      /\ dead \in Nat /\ nproc \in Nat
  BY <1>2, RingFacts, CountAssumption DEF IInv, ListIsChildren, ListedNumbers, TypeOK
<1>4. t \in Child /\ t \in Listed
  BY <1>1, <1>3 DEF Child
<1>5. /\ h \in Int /\ h = Cardinality(HighTasks \ {t})
      /\ Eligible(h) \subseteq Listed
      /\ Listed # {t} => Eligible(h) \ {t} # {}
  BY <1>2, <1>4, SomeoneEligible
<1>6. k # 0 => k \in 1 .. Len(ring) /\ ring[k] \in Eligible(h) \ {t}
  <2>1. \A T : LET i == FirstAfterHead(ring, T)
               IN  i # 0 => i \in 1 .. Len(ring) /\ ring[i] \in T
    BY <1>3, FirstAfterHeadProperties
  <2> QED
    BY <2>1
<1>7. k = 0 => stale \/ Listed = {t}
  <2>1. \A T : FirstAfterHead(ring, T) = 0 => Range(ring) \cap T = {}
    BY <1>3, FirstAfterHeadProperties
  <2> HIDE DEF h
  <2>2. ASSUME Listed # {t} PROVE Listed \cap (Eligible(h) \ {t}) # {}
    <3>1. PICK q : q \in Eligible(h) \ {t}
      BY <2>2, <1>5
    <3>2. q \in Listed
      BY <3>1, <1>5
    <3> QED
      BY <3>1, <3>2
  <2>3. ~stale => k = FirstAfterHead(ring, Eligible(h) \ {t})
    OBVIOUS
  <2>4. Listed # {t} => FirstAfterHead(ring, Eligible(h) \ {t}) # 0
    BY <2>1, <2>2 DEF Listed
  <2> HIDE DEF k, stale
  <2> QED
    BY <2>3, <2>4
<1>8. /\ p \in [Tasks -> ProcStates] /\ p[t] = "gone"
      /\ \A q \in Tasks : q # t => p[q] = proc[q]
  BY <1>2 DEF TypeOK
<1> HIDE DEF k, p, h
<1>9. /\ s \in Seq(Tasks) /\ Len(s) = Len(ring) /\ IsInjective(s) /\ Range(s) = Listed
      /\ k # 0 => s[1] = ring[k]
      /\ k = 0 => s = ring
  <2>1. CASE k = 0
    BY <2>1, <1>3 DEF Listed
  <2>2. CASE k # 0
    <3>1. s = Rotate(ring, k) /\ k \in 1 .. Len(ring)
      BY <2>2, <1>6
    <3>2. /\ Rotate(ring, k) \in Seq(Tasks) /\ Len(Rotate(ring, k)) = Len(ring)
          /\ IsInjective(Rotate(ring, k)) /\ Range(Rotate(ring, k)) = Range(ring)
          /\ Rotate(ring, k)[1] = ring[k]
      BY <3>1, <1>3, RotateProperties
    <3> QED
      BY <2>2, <3>1, <3>2 DEF Listed
  <2> QED
    BY <2>1, <2>2
<1> HIDE DEF s
<1>10. /\ ring' \in Seq(Tasks) /\ Len(ring') = Len(ring) - 1 /\ IsInjective(ring')
       /\ Listed' = Listed \ {t}
       /\ s[1] # t => Curr' = s[1]
  <2>1. /\ Without(s, t) \in Seq(Tasks) /\ Len(Without(s, t)) = Len(s) - 1
        /\ IsInjective(Without(s, t)) /\ Range(Without(s, t)) = Range(s) \ {t}
        /\ s[1] # t => Without(s, t)[1] = s[1]
    BY <1>4, <1>9, WithoutProperties
  <2> QED
    BY <2>1, <1>1, <1>9 DEF Listed, Curr
<1>11. /\ proc' \in [Tasks -> ProcStates] /\ pend' \in [Tasks -> SUBSET {"STOP", "KILL"}]
       /\ chld' \in BOOLEAN
       /\ \A q \in Tasks : ~Asleep(p[q]) => proc'[q] = p[q]
       /\ \A q \in Tasks : Asleep(p[q]) => proc'[q] \in {p[q], "run"}
       /\ k = 0 => proc' = p
       /\ k # 0 => \A q \in SentTo(ring[k]) : ~Asleep(proc'[q])
  <2>1. pend \in [Tasks -> SUBSET {"STOP", "KILL"}] /\ chld \in BOOLEAN
    BY <1>2 DEF TypeOK
  <2>2. CASE k = 0
    BY <2>1, <2>2, <1>1, <1>8 DEF Dispatch
  <2>3. CASE k # 0
    <3>1. Cont(SentTo(ring[k]), p)
      BY <2>3, <1>1 DEF Dispatch
    <3>2. SentTo(ring[k]) \in SUBSET Tasks
      <4>1. ring[k] \in Tasks
        BY <2>3, <1>3, <1>6, ElementOfSeq
      <4> QED
        BY <4>1 DEF SentTo
    <3> QED
      BY <2>1, <2>3, <3>1, <3>2, <1>8, ContEffect
  <2> QED
    BY <2>2, <2>3
<1>12. Child' = Child \ {t}
  <2>1. \A q \in Tasks : p[q] \notin {"none", "gone"} <=> q # t /\ proc[q] \notin {"none", "gone"}
    BY <1>8
  <2>2. \A q \in Tasks : proc'[q] \notin {"none", "gone"} <=> p[q] \notin {"none", "gone"}
    BY <1>11
  <2> QED
    BY <2>1, <2>2 DEF Child
<1>13. t \notin nopid
  BY <1>2, <1>4 DEF IInv, ListIsChildren
<1>14. TypeOK'
  <2>1. pc' \in {"boot", "read", "reply", "pause", "exit0", "exit1", "wild"}
    BY <1>1, <1>2
  <2>2. hashigh' \in Int /\ dead' \in Nat
    BY <1>1, <1>3, <1>5
  <2> QED
    BY <2>1, <2>2, <1>1, <1>2, <1>10, <1>11 DEF TypeOK
<1>15. dead' + Len(ring') = nproc' + 1
  <2>1. dead' = dead + 1 /\ nproc' = nproc /\ Len(ring') = Len(ring) - 1
    BY <1>1, <1>10
  <2> QED
    BY <2>1, <1>3
<1>16. ListIsChildren'
  <2>1. Listed' = (Child \cup nopid)' /\ (Child \cap nopid = {})'
    BY <1>1, <1>3, <1>10, <1>12, <1>13
  <2> QED
    BY <2>1, <1>10, <1>15 DEF ListIsChildren
<1>17. Serving' => ring' # << >> /\ Listed # {t} /\ ~(stale /\ prio[t] = "HIGH")
  <2> SUFFICES ASSUME Serving' PROVE ring' # << >> /\ Listed # {t} /\ ~(stale /\ prio[t] = "HIGH")
    OBVIOUS
  <2>1. dead' # nproc + 1 /\ ~(stale /\ prio[t] = "HIGH")
    BY <1>1
  <2>2. Len(ring') # 0
    BY <2>1, <1>1, <1>3, <1>15
  <2>3. ring' # << >>
    BY <2>2, EmptySeq
  <2>4. DOMAIN ring' = 1 .. Len(ring') /\ Len(ring') \in Nat
    BY <1>10, LenProperties
  <2>5. Listed' # {}
    <3>1. 1 \in DOMAIN ring'
      BY <2>2, <2>4
    <3> QED
      BY <3>1 DEF Listed, Range
  <2> QED
    BY <2>1, <2>3, <2>5, <1>10
<1>18. ListedNumbers'
  <2>1. pc' = "exit0" => ring' = << >>
    <3>1. pc' = "exit0" => dead' = nproc + 1
      BY <1>1, <1>2
    <3>2. dead' = nproc + 1 => Len(ring') = 0
      BY <1>1, <1>3, <1>10, <1>15, LenProperties
    <3> QED
      BY <3>1, <3>2, <1>10, EmptySeq
  <2> QED
    BY <2>1, <1>1, <1>3, <1>10, <1>17 DEF ListedNumbers
<1>19. HighCount'
  <2>1. HighTasks' = HighTasks \ {t}
    BY <1>1, <1>10 DEF HighTasks
  <2> QED
    BY <2>1, <1>1, <1>5 DEF HighCount
<1>20. (BootState /\ HandlerState /\ WakeUpComing /\ ExecBound)'
  BY <1>1, <1>2 DEF IInv, BootState, HandlerState, WakeUpComing, ExecBound
<1>21. CurrentNotParked'
  <2> SUFFICES ASSUME Serving', NEW q \in SentTo(Curr)' PROVE proc'[q] # "parked"
    BY DEF CurrentNotParked
  <2>1. CASE k # 0
    <3>1. s[1] = ring[k] /\ ring[k] # t
      BY <2>1, <1>6, <1>9
    <3>2. SentTo(Curr)' = SentTo(ring[k])
      BY <3>1, <1>1, <1>10 DEF SentTo
    <3> QED
      BY <2>1, <3>2, <1>11
  <2>2. CASE k = 0
    <3>1. stale
      BY <2>2, <1>7, <1>17
    <3>2. Curr # t
      BY <3>1, <1>3 DEF IsInjective, Curr
    <3>3. Curr' = Curr
      BY <2>2, <3>2, <1>9, <1>10 DEF Curr
    <3>4. SentTo(Curr)' = SentTo(Curr) /\ SentTo(Curr) \subseteq Tasks
      BY <3>3, <1>1, <1>2, RingFacts DEF SentTo, IInv
    <3>5. q \in Tasks /\ proc[q] # "parked"
      BY <3>4, <1>2 DEF IInv, CurrentNotParked
    <3> QED
      BY <2>2, <3>5, <1>8, <1>11
  <2> QED
    BY <2>1, <2>2
<1> QED
  BY <1>14, <1>16, <1>18, <1>19, <1>20, <1>21 DEF IInv

-----------------------------------------------------------------------------
(* Every step of the scheduler keeps the inductive invariant.              *)
LEMMA NextIInv == IInv /\ [Next]_vars => IInv'
<1> SUFFICES ASSUME IInv, [Next]_vars PROVE IInv'
  OBVIOUS
<1>1. CASE Main
  <2>1. CASE \E t \in Tasks : WaitReady(t) \/ WaitDead(t)
    BY <2>1, BootStep
  <2>2. CASE Start
    BY <2>2, StartStep
  <2>3. CASE ServeKill
    BY <2>3, KillStep
  <2>4. CASE ServeExec \/ ServeExecNoFork
    BY <2>4, ExecStep
  <2>5. CASE ServeHigh \/ ServeLow
    BY <2>5, PriorityStep
  <2>6. CASE ServePrint \/ ServeUnknown \/ WriteReply \/ ReadEof
    BY <2>6, QuietStep
  <2> QED
    BY <1>1, <2>1, <2>2, <2>3, <2>4, <2>5, <2>6 DEF Main
<1>2. CASE SigchldHandler
  <2>1. CASE \E t \in Tasks : ReapStopped(t)
    BY <2>1, ReapStoppedStep
  <2>2. CASE \E t \in Tasks : ReapDead(t)
    BY <2>2, ReapDeadStep
  <2>3. CASE NoChildren
    BY <2>3, QuietStep
  <2>4. CASE Sigchld \/ Rearm \/ SigchldReturn
    BY <2>4, SignalStep
  <2> QED
    BY <1>2, <2>1, <2>2, <2>3, <2>4 DEF SigchldHandler
<1>3. CASE AlarmExpires \/ Sigalrm
  BY <1>3, SignalStep
<1>4. CASE \E t \in Tasks : TakeSignal(t) \/ Exit(t)
  BY <1>4, ChildStep
<1>5. CASE IssueRequest \/ GetReply
  BY <1>5, QuietStep
<1>6. CASE Stopped \/ UNCHANGED vars
  <2>1. /\ UNCHANGED <<ring, prio, hashigh, nproc, dead, nopid>>
        /\ UNCHANGED <<pc, handler, chld, alrm, alarm>>
        /\ UNCHANGED <<proc, fresh, pend, rq, ret, shell>>
    BY <1>6 DEF Stopped, vars
  <2>2. (Listed = Listed') /\ (HighTasks = HighTasks') /\ (Curr = Curr') /\ (Child = Child')
    BY <2>1 DEF Listed, HighTasks, Curr, Child
  <2>3. SentTo(Curr)' = SentTo(Curr)
    BY <2>1, <2>2 DEF SentTo
  <2>4. TypeOK' /\ BootState' /\ ListedNumbers' /\ HandlerState' /\ ExecBound'
    BY <2>1, <2>2 DEF IInv, TypeOK, BootState, ListedNumbers, HandlerState, ExecBound, Serving
  <2>5. HighCount' /\ ListIsChildren' /\ CurrentNotParked' /\ WakeUpComing'
    BY <2>1, <2>2, <2>3 DEF IInv, HighCount, ListIsChildren, CurrentNotParked, WakeUpComing, Serving
  <2> QED
    BY <2>4, <2>5 DEF IInv
<1> QED
  BY <1>1, <1>2, <1>3, <1>4, <1>5, <1>6 DEF Next

(* In every behaviour of the scheduler the inductive invariant holds.      *)
THEOREM Invariance == Spec => []IInv
  BY InitIInv, NextIInv, PTL DEF Spec

(* Every variable has its type, throughout.                                *)
THEOREM TypeCorrect == Spec => []TypeOK
<1>1. IInv => TypeOK
  BY DEF IInv
<1> QED
  BY <1>1, Invariance, PTL

(* The counter hashigh of scheduler-prio.c is exact.                       *)
THEOREM HighCountExact == Spec => []HighCount
<1>1. IInv => HighCount
  BY DEF IInv
<1> QED
  BY <1>1, Invariance, PTL

(* The circular list is the unreaped children, and the death counter and   *)
(* nproc agree with it.                                                    *)
THEOREM ListExact == Spec => []ListIsChildren
<1>1. IInv => ListIsChildren
  BY DEF IInv
<1> QED
  BY <1>1, Invariance, PTL

(* The task whose turn it is has been woken since it was last stopped, so  *)
(* the SIGSTOP that ends its turn has somebody to stop.                    *)
THEOREM CurrentAwake == Spec => []CurrentNotParked
<1>1. IInv => CurrentNotParked
  BY DEF IInv
<1> QED
  BY <1>1, Invariance, PTL

(* Scheduling does not come to rest while the scheduler runs: the timer is *)
(* set or a signal is on its way.                                          *)
THEOREM WakeUpAlwaysComing == Spec => []WakeUpComing
<1>1. IInv => WakeUpComing
  BY DEF IInv
<1> QED
  BY <1>1, Invariance, PTL

(* exit(0) is reached only when every child has been reaped.               *)
THEOREM ExitOnlyWhenAllDead == Spec => []ExitMeansAllDead
<1>1. IInv => ExitMeansAllDead
  <2> SUFFICES ASSUME IInv, pc = "exit0" PROVE Child = {}
    BY DEF ExitMeansAllDead
  <2>1. Listed = Child \cup nopid /\ ring = << >>
    BY DEF IInv, ListIsChildren, ListedNumbers
  <2>2. Range(<< >>) = {}
    BY DEF Range
  <2> QED
    BY <2>1, <2>2 DEF Listed
<1> QED
  BY <1>1, Invariance, PTL

(* Unless a fork of an 'e' command fails, the scheduler does not run out   *)
(* of children in waitpid.                                                 *)
THEOREM NoFailure ==
  ASSUME ~ForkMayFail
  PROVE  Spec => NoFailureExit
<1>1. ASSUME IInv, [Next]_vars, pc' = "exit1"
      PROVE  pc \in {"boot", "exit1"}
  <2>1. ~NoChildren \/ ~Serving
    <3>1. ASSUME NoChildren, Serving PROVE FALSE
      <4>1. Curr \in Listed /\ Listed = Child \cup nopid /\ nopid = {} /\ Child = {}
        BY <1>1, <3>1, RingFacts DEF IInv, ListIsChildren, ListedNumbers, NoChildren
      <4> QED
        BY <4>1
    <3> QED
      BY <3>1
  <2>2. NoChildren => pc \in {"boot", "exit1"}
    BY <1>1, <2>1 DEF NoChildren, IInv, TypeOK
  <2>3. ASSUME NEW t \in Tasks, ReapStopped(t) \/ ReapDead(t) PROVE pc \in {"boot", "exit1"}
    BY <1>1, <2>3 DEF ReapStopped, ReapDead
  <2>4. ASSUME NEW t \in Tasks, TakeSignal(t) \/ Exit(t) \/ WaitReady(t) \/ WaitDead(t)
        PROVE  pc \in {"boot", "exit1"}
    BY <1>1, <2>4 DEF TakeSignal, RaiseStop, TakeStop, TakeKill, Exit, Becomes, WaitReady, WaitDead
  <2>5. CASE UNCHANGED vars \/ Stopped
    BY <1>1, <2>5 DEF vars, Stopped
  <2>6. ASSUME NEW op, Serve(op) PROVE FALSE
    BY <1>1, <2>6 DEF Serve
  <2>7. CASE Main
    BY <1>1, <2>4, <2>6, <2>7 DEF Main, Start, ServePrint, ServeKill, ServeExec, ServeExecNoFork,
         AddTask, ServeHigh, ServeLow, SetPriority, ServeUnknown, WriteReply, ReadEof
  <2>8. CASE AlarmExpires \/ Sigalrm \/ Sigchld \/ Rearm \/ SigchldReturn \/ IssueRequest \/ GetReply
    BY <1>1, <2>8 DEF AlarmExpires, Sigalrm, Sigchld, Rearm, SigchldReturn, IssueRequest, GetReply
  <2> QED
    BY <1>1, <2>2, <2>3, <2>4, <2>5, <2>7, <2>8 DEF Next, SigchldHandler
<1>2. IInv /\ [Next]_vars => [pc' = "exit1" => pc \in {"boot", "exit1"}]_vars
  BY <1>1
<1> QED
  BY <1>2, Invariance, PTL DEF Spec, NoFailureExit

-----------------------------------------------------------------------------
(* The steps that change the list or a priority.                           *)
LEMMA ListSteps ==
  ASSUME [Next]_vars
  PROVE  \/ Start
         \/ \E t \in Tasks : ReapStopped(t) \/ ReapDead(t)
         \/ \E forked \in BOOLEAN : AddTask(forked)
         \/ ServeHigh \/ ServeLow
         \/ UNCHANGED <<ring, prio>>
<1> USE DEF listVars
<1>1. CASE Main
  BY <1>1 DEF Main, WaitReady, WaitDead, ServePrint, ServeKill, ServeExec, ServeExecNoFork,
     ServeUnknown, WriteReply, ReadEof
<1>2. CASE AlarmExpires \/ Sigalrm \/ IssueRequest \/ GetReply
  BY <1>2 DEF AlarmExpires, Sigalrm, IssueRequest, GetReply
<1>3. CASE SigchldHandler
  BY <1>3 DEF SigchldHandler, Sigchld, Rearm, SigchldReturn, NoChildren
<1>4. CASE \E t \in Tasks : TakeSignal(t) \/ Exit(t)
  BY <1>4 DEF TakeSignal, RaiseStop, TakeStop, TakeKill, Exit, Becomes
<1>5. CASE Stopped \/ UNCHANGED vars
  BY <1>5 DEF Stopped, vars
<1> QED
  BY <1>1, <1>2, <1>3, <1>4, <1>5 DEF Next

(* Whom sigchld_handler dispatches when a task has stopped.                *)
LEMMA StoppedTurn ==
  ASSUME IInv, NEW t \in Tasks, ReapStopped(t)
  PROVE  LET C == IF HighTasks = {} THEN Listed ELSE HighTasks
             k == FirstAfterHead(ring, C)
         IN  /\ ring # << >> /\ HighTasks' = HighTasks
             /\ k \in 1 .. Len(ring) /\ ring[k] \in C
             /\ ring' = Rotate(ring, k) /\ Curr' = ring[k]
<1> DEFINE C == IF HighTasks = {} THEN Listed ELSE HighTasks
           k == FirstAfterHead(ring, C)
<1>1. Serving /\ TypeOK /\ UNCHANGED prio
  BY DEF ReapStopped, IInv, TypeOK, BootState
<1>2. /\ ring \in Seq(Tasks) /\ Len(ring) \in Nat \ {0} /\ IsInjective(ring) /\ ring # << >>
      /\ Curr \in Listed /\ IsFiniteSet(HighTasks) /\ hashigh = Cardinality(HighTasks)
  BY <1>1, RingFacts DEF IInv, ListIsChildren, ListedNumbers, HighCount
<1>3. C = Eligible(hashigh)
  BY <1>2, FS_EmptySet DEF Eligible
<1>4. Range(ring) \cap C # {}
  BY <1>2 DEF Listed, HighTasks
<1>5. k \in 1 .. Len(ring) /\ ring[k] \in C
  <2>1. /\ k # 0 => k \in 1 .. Len(ring) /\ ring[k] \in C
        /\ k = 0 <=> Range(ring) \cap C = {}
    BY <1>2, FirstAfterHeadProperties
  <2> HIDE DEF k, C
  <2> QED
    BY <2>1, <1>4
<1>6. ring' = Rotate(ring, k)
  <2>1. ring' = IF FirstAfterHead(ring, Eligible(hashigh)) = 0 THEN ring
                ELSE Rotate(ring, FirstAfterHead(ring, Eligible(hashigh)))
    BY DEF ReapStopped
  <2>2. ring' = IF k = 0 THEN ring ELSE Rotate(ring, k)
    BY <2>1, <1>3
  <2> HIDE DEF k
  <2> QED
    BY <2>2, <1>5
<1> HIDE DEF k
<1>7. Range(ring') = Range(ring) /\ ring'[1] = ring[k]
  BY <1>2, <1>5, <1>6, RotateProperties
<1>8. HighTasks' = HighTasks /\ Curr' = ring[k]
  BY <1>1, <1>7 DEF HighTasks, Listed, Curr
<1> QED
  BY <1>2, <1>5, <1>6, <1>8 DEF k

(* Whom it dispatches when a task has died, if anybody: whoever is next of *)
(* those who may be, unless the dead task hides them.                      *)
LEMMA DeadTurn ==
  ASSUME IInv, NEW t \in Tasks, ReapDead(t)
  PROVE  LET H == HighTasks \ {t}
             C == IF H = {} THEN Listed \ {t} ELSE H
             k == FirstAfterHead(ring, C)
         IN  /\ t \in Listed /\ HighTasks' = H
             /\ \/ /\ k \in 1 .. Len(ring) /\ ring[k] \in C /\ C # {}
                   /\ ring' = Without(Rotate(ring, k), t) /\ Curr' = ring[k]
                \/ /\ C = {} /\ ring' = Without(ring, t)
                \/ /\ ring[1] # t /\ ring' = Without(ring, t) /\ Curr' = Curr
<1> DEFINE h == HighLeft(t)
           H == HighTasks \ {t}
           C == IF H = {} THEN Listed \ {t} ELSE H
           k == FirstAfterHead(ring, C)
           stale == h # 0 /\ Len(ring) > 1 /\ ring[2] = t
<1>1. Serving /\ TypeOK /\ UNCHANGED prio /\ proc[t] = "zombie"
  BY DEF ReapDead, IInv, TypeOK, BootState
<1>2. /\ ring \in Seq(Tasks) /\ Len(ring) \in Nat \ {0} /\ IsInjective(ring)
      /\ DOMAIN ring = 1 .. Len(ring)
      /\ IsFiniteSet(H) /\ t \in Listed
  BY <1>1, RingFacts, FS_Subset DEF IInv, ListIsChildren, Child
<1>3. h = Cardinality(H)
  BY <1>1, <1>2, SomeoneEligible DEF HighLeft
<1>4. Eligible(h) \ {t} = C
  BY <1>2, <1>3, FS_EmptySet DEF Eligible
<1>5. ring' = Without(IF stale \/ k = 0 THEN ring ELSE Rotate(ring, k), t)
  <2>1. LET j == IF stale THEN 0 ELSE FirstAfterHead(ring, Eligible(h) \ {t})
        IN  ring' = Without(IF j = 0 THEN ring ELSE Rotate(ring, j), t)
    BY DEF ReapDead
  <2> HIDE DEF stale, h, C
  <2> QED
    BY <2>1, <1>4
<1>6. /\ k # 0 => k \in 1 .. Len(ring) /\ ring[k] \in C
      /\ k = 0 <=> C = {}
  <2>1. /\ k # 0 => k \in 1 .. Len(ring) /\ ring[k] \in C
        /\ k = 0 <=> Range(ring) \cap C = {}
    BY <1>2, FirstAfterHeadProperties
  <2>2. Range(ring) \cap C = C
    BY DEF Listed, HighTasks
  <2> HIDE DEF k, C
  <2> QED
    BY <2>1, <2>2
<1>7. \A s \in Seq(Tasks) : (IsInjective(s) /\ Range(s) = Listed) =>
        /\ Range(Without(s, t)) = Listed \ {t}
        /\ s[1] # t => Without(s, t)[1] = s[1]
  BY <1>2, WithoutProperties
<1> HIDE DEF k, stale
<1>8. ASSUME NEW s \in Seq(Tasks), IsInjective(s), Range(s) = Listed, ring' = Without(s, t)
      PROVE  HighTasks' = H /\ (s[1] # t => Curr' = s[1])
  <2>1. Listed' = Listed \ {t}
    BY <1>7, <1>8 DEF Listed
  <2> QED
    BY <1>1, <1>7, <1>8, <2>1 DEF HighTasks, Curr
<1>9. CASE stale \/ k = 0
  <2>1. ring' = Without(ring, t) /\ HighTasks' = H /\ (ring[1] # t => Curr' = Curr)
    BY <1>2, <1>5, <1>8, <1>9 DEF Listed, Curr
  <2>2. stale => ring[1] # t
    BY <1>2 DEF stale, IsInjective
  <2> QED
    BY <1>2, <1>6, <1>9, <2>1, <2>2 DEF k
<1>10. CASE ~stale /\ k # 0
  <2> DEFINE s == Rotate(ring, k)
  <2>1. s \in Seq(Tasks) /\ IsInjective(s) /\ Range(s) = Listed /\ s[1] = ring[k]
    BY <1>2, <1>6, <1>10, RotateProperties DEF Listed
  <2>2. ring' = Without(s, t) /\ ring[k] # t
    BY <1>5, <1>6, <1>10
  <2> HIDE DEF s
  <2>3. HighTasks' = H /\ Curr' = ring[k]
    BY <2>1, <2>2, <1>8
  <2> QED
    BY <1>2, <1>6, <1>10, <2>2, <2>3 DEF k, s
<1> QED
  BY <1>9, <1>10

(* A new task is linked behind the current one.                            *)
LEMMA AddedTask ==
  ASSUME IInv, NEW forked, AddTask(forked)
  PROVE  LET t == nproc + 1
         IN  /\ ring # << >> /\ t \notin Listed /\ t \in Listed'
             /\ ring' = InsertAfterHead(ring, t) /\ Curr' = Curr
             /\ HighTasks' = HighTasks
<1> DEFINE t == nproc + 1
<1>1. /\ ring \in Seq(Tasks) /\ IsInjective(ring) /\ ring # << >>
      /\ t \in Tasks /\ t \notin Listed /\ prio \in [Tasks -> Levels] /\ Listed \subseteq Tasks
  <2>1. /\ nproc \in NProc .. MaxTasks /\ nproc < MaxTasks /\ \A q \in Listed : q <= nproc
        /\ Listed \subseteq Tasks
    BY RingFacts DEF IInv, TypeOK, ExecBound, ListedNumbers, AddTask, Serve
  <2> QED
    BY <2>1, CountAssumption DEF IInv, TypeOK, ListIsChildren, ListedNumbers, AddTask, Serve
<1>2. ring' = InsertAfterHead(ring, t) /\ prio' = [prio EXCEPT ![t] = "LOW"]
  BY DEF AddTask, Linked
<1>3. Range(ring') = Range(ring) \cup {t} /\ ring'[1] = ring[1]
  BY <1>1, <1>2, InsertAfterHeadProperties DEF Listed
<1>4. HighTasks' = HighTasks
  BY <1>1, <1>2, <1>3 DEF HighTasks, Listed
<1> QED
  BY <1>1, <1>2, <1>3, <1>4 DEF t, Listed, Curr

-----------------------------------------------------------------------------
(* No dispatch passes over the HIGH tasks: neither the one that ends a     *)
(* turn nor the one that follows a death.  (scheduler-prio.c:224-284)      *)
THEOREM HighTasksFirst == Spec => HighFirst
<1>1. ASSUME IInv, [Next]_vars, Serving, Curr' # Curr, HighTasks' # {}
      PROVE  Curr' \in HighTasks'
  <2>1. ASSUME NEW t \in Tasks, ReapStopped(t) PROVE Curr' \in HighTasks'
    BY <1>1, <2>1, StoppedTurn
  <2>2. ASSUME NEW t \in Tasks, ReapDead(t) PROVE Curr' \in HighTasks'
    BY <1>1, <2>2, DeadTurn
  <2>3. ASSUME NEW forked \in BOOLEAN, AddTask(forked) PROVE FALSE
    BY <1>1, <2>3, AddedTask
  <2>4. ~Start
    BY <1>1 DEF Start
  <2>5. ~(ServeHigh \/ ServeLow \/ UNCHANGED <<ring, prio>>)
    BY <1>1 DEF ServeHigh, ServeLow, SetPriority, Curr
  <2> QED
    BY <1>1, <2>1, <2>2, <2>3, <2>4, <2>5, ListSteps
<1>2. IInv /\ [Next]_vars =>
        [Serving /\ Serving' /\ Curr' # Curr /\ HighTasks' # {} => Curr' \in HighTasks']_vars
  BY <1>1
<1> QED
  BY <1>2, Invariance, PTL DEF Spec, HighFirst

-----------------------------------------------------------------------------
(* The list is empty until main has built it.                              *)
NoListYet == pc = "boot" => ring = << >>

LEMMA NoListYetStep ==
  ASSUME IInv, NoListYet, [Next]_vars
  PROVE  NoListYet'
<1> SUFFICES ASSUME pc' = "boot" PROVE ring' = << >>
  BY DEF NoListYet
<1>1. CASE Main
  BY <1>1 DEF NoListYet, Main, Start, WaitReady, WaitDead, ServePrint, ServeKill, ServeExec,
     ServeExecNoFork, AddTask, ServeHigh, ServeLow, SetPriority, ServeUnknown, Serve, WriteReply,
     ReadEof, listVars
<1>2. CASE AlarmExpires \/ Sigalrm \/ IssueRequest \/ GetReply
  BY <1>2 DEF NoListYet, AlarmExpires, Sigalrm, IssueRequest, GetReply, listVars
<1>3. CASE Sigchld \/ Rearm \/ SigchldReturn \/ NoChildren
  BY <1>3 DEF NoListYet, Sigchld, Rearm, SigchldReturn, NoChildren, listVars
<1>4. ASSUME NEW t \in Tasks, ReapStopped(t) \/ ReapDead(t) PROVE FALSE
  BY <1>4 DEF ReapStopped, ReapDead, IInv, BootState
<1>5. CASE \E t \in Tasks : TakeSignal(t) \/ Exit(t)
  BY <1>5 DEF NoListYet, TakeSignal, RaiseStop, TakeStop, TakeKill, Exit, Becomes, listVars
<1>6. CASE Stopped \/ UNCHANGED vars
  BY <1>6 DEF NoListYet, Stopped, vars
<1> QED
  BY <1>1, <1>2, <1>3, <1>4, <1>5, <1>6 DEF Next, SigchldHandler

(* The instance's operators on sequences are those of TaskRing.            *)
LEMMA SameOperators ==
  /\ \A n : RR!InitialRing(n) = InitialRing(n)
  /\ \A s, k : RR!Rotate(s, k) = Rotate(s, k)
  /\ \A s, t : RR!InsertAfterHead(s, t) = InsertAfterHead(s, t)
  /\ \A s, t : RR!Without(s, t) = Without(s, t)
  /\ \A s, T : RR!FirstAfterHead(s, T) = FirstAfterHead(s, T)
  /\ \A s : RR!Range(s) = Range(s)
<1>1. \A n : RR!InitialRing(n) = InitialRing(n)
  BY DEF RR!InitialRing, InitialRing
<1>2. \A s, k : RR!Rotate(s, k) = Rotate(s, k)
  BY DEF RR!Rotate, Rotate
<1>3. \A s, t : RR!InsertAfterHead(s, t) = InsertAfterHead(s, t)
  BY DEF RR!InsertAfterHead, InsertAfterHead, RR!InsertAt, InsertAt
<1>4. \A s, t : RR!PositionOf(s, t) = PositionOf(s, t)
  BY Zenon DEF RR!PositionOf, PositionOf
<1>5. \A s, k : RR!RemoveAt(s, k) = RemoveAt(s, k)
  BY DEF RR!RemoveAt, RemoveAt
<1>6. \A s, t : RR!Without(s, t) = Without(s, t)
  BY <1>4, <1>5, Zenon DEF RR!Without, Without
<1>7. \A T : RR!Min(T) = Min(T)
  BY Zenon DEF RR!Min, Min
<1>8. \A s, T : RR!FirstAfterHead(s, T) = FirstAfterHead(s, T)
  BY <1>7, Zenon DEF RR!FirstAfterHead, FirstAfterHead
<1>9. \A s : RR!Range(s) = Range(s)
  BY DEF RR!Range, Range
<1> QED
  BY <1>1, <1>2, <1>3, <1>6, <1>8, <1>9

(* Each step that changes the list is a step of the round robin.           *)
LEMMA StartIsBegin ==
  ASSUME IInv, NoListYet, Start
  PROVE  RR!Begin
<1>1. ring = << >> /\ ring' = InitialRing(NProc) /\ prio = [t \in Tasks |-> "LOW"] /\ UNCHANGED prio
  BY DEF IInv, NoListYet, BootState, Start
<1>2. HighTasks = {} /\ HighTasks' = {}
  <2>1. Range(ring') = 0 .. NProc
    BY <1>1, InitialRingProperties, CountAssumption
  <2> QED
    BY <1>1, <2>1, CountAssumption DEF HighTasks, Listed, Range
<1> QED
  BY <1>1, <1>2, SameOperators DEF RR!Begin

LEMMA StoppedIsTurn ==
  ASSUME IInv, NEW t \in Tasks, ReapStopped(t)
  PROVE  RR!Turn
  BY StoppedTurn, SameOperators DEF RR!Turn, RR!Candidates, Listed

LEMMA DeadIsLeave ==
  ASSUME IInv, NEW t \in Tasks, ReapDead(t)
  PROVE  RR!Leave(t)
  BY DeadTurn, SameOperators DEF RR!Leave, RR!Candidates, Listed

LEMMA AddedIsAdmit ==
  ASSUME IInv, NEW forked, AddTask(forked)
  PROVE  \E t \in Range(ring') : RR!Admit(t)
  BY AddedTask, SameOperators DEF RR!Admit, Listed

LEMMA PriorityIsSet ==
  ASSUME IInv, ServeHigh \/ ServeLow
  PROVE  UNCHANGED <<ring, HighTasks>> \/ \E t \in Range(ring) : RR!SetHigh(t) \/ RR!SetLow(t)
<1>1. ring' = ring /\ Listed' = Listed /\ prio \in [Tasks -> Levels] /\ Listed \subseteq Tasks
  BY RingFacts DEF IInv, TypeOK, ServeHigh, ServeLow, SetPriority, Serve, Listed
<1>2. CASE ServeHigh
  <2>1. CASE Changes("HIGH")
    <3>1. rq.id \in Listed /\ prio' = [prio EXCEPT ![rq.id] = "HIGH"]
      BY <1>2, <2>1 DEF ServeHigh, SetPriority, Changes
    <3>2. HighTasks' = HighTasks \cup {rq.id}
      BY <1>1, <3>1 DEF HighTasks
    <3> QED
      BY <1>1, <3>1, <3>2, SameOperators DEF RR!SetHigh, Listed
  <2>2. CASE ~Changes("HIGH")
    BY <1>1, <1>2, <2>2 DEF ServeHigh, SetPriority, HighTasks
  <2> QED
    BY <2>1, <2>2
<1>3. CASE ServeLow
  <2>1. CASE Changes("LOW")
    <3>1. rq.id \in Listed /\ prio' = [prio EXCEPT ![rq.id] = "LOW"] /\ prio[rq.id] = "HIGH"
      BY <1>1, <1>3, <2>1 DEF ServeLow, SetPriority, Changes
    <3>2. HighTasks' = HighTasks \ {rq.id} /\ rq.id \in HighTasks
      BY <1>1, <3>1 DEF HighTasks
    <3> QED
      BY <1>1, <3>1, <3>2 DEF RR!SetLow, Listed
  <2>2. CASE ~Changes("LOW")
    BY <1>1, <1>3, <2>2 DEF ServeLow, SetPriority, HighTasks
  <2> QED
    BY <2>1, <2>2
<1> QED
  BY <1>2, <1>3

(* The program's list implements the abstract round robin: initial states  *)
(* map to initial states, and every step to a step or a stutter.           *)
(* (scheduler-prio.c:85-160, 204-284, 440-462)                             *)
THEOREM ListIsRoundRobin == Spec => ImplementsRoundRobin
<1>1. Init => RR!Init /\ NoListYet
  BY DEF Init, RR!Init, NoListYet, HighTasks, Listed, Range
<1>2. ASSUME IInv, NoListYet, [Next]_vars
      PROVE  RR!Next \/ UNCHANGED RR!rrVars
  <2>1. CASE Start
    BY <1>2, <2>1, StartIsBegin DEF RR!Next
  <2>2. ASSUME NEW t \in Tasks, ReapStopped(t) PROVE RR!Next
    BY <1>2, <2>2, StoppedIsTurn DEF RR!Next
  <2>3. ASSUME NEW t \in Tasks, ReapDead(t) PROVE RR!Next
    <3>1. t \in Range(ring)
      BY <1>2, <2>3, DeadTurn DEF Listed
    <3> QED
      BY <1>2, <2>3, <3>1, DeadIsLeave, SameOperators DEF RR!Next
  <2>4. ASSUME NEW forked, AddTask(forked) PROVE RR!Next
    BY <1>2, <2>4, AddedIsAdmit, SameOperators DEF RR!Next
  <2>5. CASE ServeHigh \/ ServeLow
    BY <1>2, <2>5, PriorityIsSet, SameOperators DEF RR!Next, RR!rrVars
  <2>6. CASE UNCHANGED <<ring, prio>>
    BY <2>6 DEF RR!rrVars, HighTasks, Listed
  <2> QED
    BY <1>2, <2>1, <2>2, <2>3, <2>4, <2>5, <2>6, ListSteps
<1>3. IInv /\ NoListYet /\ [Next]_vars => [pc' # "wild" => [RR!Next]_(RR!rrVars)]_vars
  BY <1>2
<1>4. IInv /\ NoListYet /\ [Next]_vars => NoListYet'
  BY NoListYetStep
<1> QED
  BY <1>1, <1>3, <1>4, Invariance, PTL DEF Spec, ImplementsRoundRobin

-----------------------------------------------------------------------------
(***************************************************************************)
(* One task at a time, as long as the shell asks for no new program and    *)
(* for no death: a new child runs until it stops itself, and the death of  *)
(* a task that waits for its turn dispatches a second one.                 *)
(***************************************************************************)
Busy == {t \in Tasks : proc[t] \in {"run", "stopped", "zombie"}}

(* Who runs, or has a stop or a death that waitpid has not reported, is    *)
(* one task, which nobody has killed.                                      *)
OneBusy ==
  /\ nopid = {} /\ \A t \in Tasks : "KILL" \notin pend[t]
  /\ Serving => \A s, t \in Busy : s = t

(* SIGCONT goes to one task, and the others wait for their turn.           *)
LEMMA OneIsWoken ==
  ASSUME NEW p \in [Tasks -> ProcStates], NEW s \in Tasks, Cont({s}, p),
         \A q \in Tasks : p[q] \in {"none", "parked", "gone"}
  PROVE  /\ \A q \in Tasks : proc'[q] \in {"run", "stopped", "zombie"} => q = s
         /\ \A q \in Tasks : pend'[q] \subseteq pend[q]
<1>1. /\ proc' = [q \in Tasks |-> IF q \in {s} /\ Asleep(p[q]) THEN "run" ELSE p[q]]
      /\ pend' = [q \in Tasks |-> IF q \in {s} THEN pend[q] \ {"STOP"} ELSE pend[q]]
  BY DEF Cont
<1>2. \A q \in Tasks : proc'[q] = (IF q \in {s} /\ Asleep(p[q]) THEN "run" ELSE p[q])
  BY <1>1
<1>3. \A q \in Tasks : pend'[q] = IF q \in {s} THEN pend[q] \ {"STOP"} ELSE pend[q]
  BY <1>1
<1> QED
  BY <1>2, <1>3

(* A dispatch, after the only busy task t has stopped or died. *)
LEMMA OneIsDispatched ==
  ASSUME IInv, OneBusy, Serving, NEW t \in Busy, NEW end \in {"parked", "gone"},
         NEW k \in 0 .. Len(ring), Dispatch(k, [proc EXCEPT ![t] = end]), nopid' = nopid
  PROVE  OneBusy'
<1>1. TypeOK /\ nopid = {} /\ t \in Tasks
  BY DEF IInv, OneBusy, Busy
<1> DEFINE p == [proc EXCEPT ![t] = end]
<1>2. /\ p \in [Tasks -> ProcStates]
      /\ \A q \in Tasks : p[q] \in {"none", "parked", "gone"}
  BY <1>1 DEF TypeOK, OneBusy, Busy
<1>3. CASE k = 0
  <2>1. proc' = p /\ pend' = pend
    BY <1>3 DEF Dispatch
  <2> HIDE DEF p
  <2> QED
    BY <1>2, <2>1 DEF OneBusy, Busy
<1>4. CASE k # 0
  <2>1. ring[k] \in Tasks
    <3>1. ring \in Seq(Tasks) /\ Len(ring) \in Nat
      BY <1>1 DEF TypeOK
    <3>2. k \in 1 .. Len(ring)
      BY <1>4, <3>1
    <3> QED
      BY <3>1, <3>2, ElementOfSeq
  <2>2. Cont({ring[k]}, p)
    BY <1>1, <1>4 DEF Dispatch, SentTo
  <2> HIDE DEF p
  <2>3. /\ \A q \in Tasks : proc'[q] \in {"run", "stopped", "zombie"} => q = ring[k]
        /\ \A q \in Tasks : pend'[q] \subseteq pend[q]
    BY <1>2, <2>1, <2>2, OneIsWoken
  <2> QED
    BY <2>3 DEF OneBusy, Busy
<1> QED
  BY <1>3, <1>4

LEMMA OneBusyStep ==
  ASSUME Ops \cap {"kill", "exec"} = {}, IInv, OneBusy, [Next]_vars
  PROVE  OneBusy'
<1> USE DEF listVars, signalVars, childVars, pipeVars
<1>1. TypeOK /\ BootState /\ nopid = {} /\ rq.op \notin {"kill", "exec"}
  BY DEF IInv, TypeOK, OneBusy, Requests, NoRequest
<1>2. CASE Main
  <2>1. CASE \E t \in Tasks : WaitReady(t) \/ WaitDead(t)
    BY <2>1 DEF OneBusy, WaitReady, WaitDead
  <2>2. CASE Start
    <3>1. \A q \in Tasks : proc[q] \in {"none", "parked"}
      <4>1. \A q \in Tasks : q \in 0 .. NProc \/ q > NProc
        BY CountAssumption
      <4> QED
        BY <1>1, <2>2, <4>1 DEF Start, BootState
    <3>2. proc \in [Tasks -> ProcStates] /\ 0 \in Tasks /\ Cont({0}, proc) /\ nopid' = nopid
      BY <1>1, <2>2, CountAssumption DEF TypeOK, Start
    <3>3. /\ \A q \in Tasks : proc'[q] \in {"run", "stopped", "zombie"} => q = 0
          /\ \A q \in Tasks : pend'[q] \subseteq pend[q]
      BY <3>1, <3>2, OneIsWoken
    <3> QED
      BY <3>2, <3>3 DEF OneBusy, Busy
  <2>3. CASE ServePrint \/ ServeKill \/ ServeExec \/ ServeExecNoFork \/ ServeHigh \/ ServeLow
             \/ ServeUnknown \/ WriteReply \/ ReadEof
    <3>1. UNCHANGED <<proc, pend, nopid>> /\ Serving
      BY <1>1, <2>3 DEF ServePrint, ServeKill, ServeExec, ServeExecNoFork, AddTask, ServeHigh, ServeLow,
         SetPriority, ServeUnknown, WriteReply, ReadEof, Serve
    <3> QED
      BY <3>1 DEF OneBusy, Busy
  <2> QED
    BY <1>2, <2>1, <2>2, <2>3 DEF Main
<1>3. CASE SigchldHandler
  <2>1. ASSUME NEW t \in Tasks, ReapStopped(t) PROVE OneBusy'
    <3>1. Serving /\ t \in Busy /\ nopid' = nopid
      BY <1>1, <2>1 DEF ReapStopped, BootState, TypeOK, Busy
    <3>2. FirstAfterHead(ring, Eligible(hashigh)) \in 0 .. Len(ring)
      BY <1>1, StoppedTurn, <2>1, FirstAfterHeadProperties DEF IInv, ListIsChildren, TypeOK
    <3> QED
      BY <2>1, <3>1, <3>2, OneIsDispatched DEF ReapStopped
  <2>2. ASSUME NEW t \in Tasks, ReapDead(t) PROVE OneBusy'
    <3> DEFINE h == HighLeft(t)
               stale == h # 0 /\ Len(ring) > 1 /\ ring[2] = t
               k == IF stale THEN 0 ELSE FirstAfterHead(ring, Eligible(h) \ {t})
    <3>1. Serving /\ t \in Busy /\ nopid' = nopid
      BY <1>1, <2>2 DEF ReapDead, BootState, TypeOK, Busy
    <3>2. /\ ring \in Seq(Tasks) /\ Len(ring) \in Nat \ {0} /\ ring # << >>
      BY <1>1, <3>1, RingFacts DEF IInv, ListedNumbers
    <3>3. FirstAfterHead(ring, Eligible(h) \ {t}) \in 0 .. Len(ring)
      BY <3>2, FirstAfterHeadProperties
    <3>4. k \in 0 .. Len(ring)
      BY <3>2, <3>3
    <3>5. Dispatch(k, [proc EXCEPT ![t] = "gone"])
      BY <2>2 DEF ReapDead
    <3> HIDE DEF k
    <3> QED
      BY <3>1, <3>4, <3>5, OneIsDispatched
  <2>3. CASE Sigchld \/ Rearm \/ SigchldReturn \/ NoChildren
    <3>1. UNCHANGED <<proc, pend, nopid>> /\ (Serving' => Serving)
      BY <2>3 DEF Sigchld, Rearm, SigchldReturn, NoChildren
    <3> QED
      BY <3>1 DEF OneBusy, Busy
  <2> QED
    BY <1>3, <2>1, <2>2, <2>3 DEF SigchldHandler
<1>4. CASE Sigalrm
  <2>1. /\ pend' = Post("STOP", SentTo(Curr)) /\ UNCHANGED <<proc, nopid, pc>>
    BY <1>4 DEF Sigalrm
  <2>2. \A q \in Tasks : "KILL" \notin pend'[q]
    BY <2>1 DEF Post, OneBusy
  <2> QED
    BY <2>1, <2>2 DEF OneBusy, Busy
<1>5. CASE AlarmExpires \/ IssueRequest \/ GetReply \/ Stopped \/ UNCHANGED vars
  <2>1. UNCHANGED <<proc, pend, nopid, pc>>
    BY <1>5 DEF AlarmExpires, IssueRequest, GetReply, Stopped, vars
  <2> QED
    BY <2>1 DEF OneBusy, Busy
<1>6. ASSUME NEW t \in Tasks, TakeSignal(t) \/ Exit(t)
      PROVE  OneBusy'
  <2>1. /\ proc[t] = "run" /\ \A q \in Tasks \ {t} : proc'[q] = proc[q]
        /\ UNCHANGED <<pc, nopid>>
        /\ \A q \in Tasks : pend'[q] \subseteq pend[q]
    BY <1>1, <1>6 DEF TakeSignal, RaiseStop, TakeStop, TakeKill, Exit, Becomes, TypeOK, OneBusy
  <2> QED
    BY <2>1 DEF OneBusy, Busy
<1> QED
  BY <1>2, <1>3, <1>4, <1>5, <1>6 DEF Next

(* As long as the shell's user asks neither for a new program nor for a    *)
(* death, only one task is on the processor, however many there are,       *)
(* whatever their priorities and whenever they end by themselves.          *)
(* (scheduler-prio.c:204-284)                                              *)
THEOREM OneRunsAtATime ==
  ASSUME Ops \cap {"kill", "exec"} = {}
  PROVE  Spec => []AtMostOneRuns
<1>1. Init => OneBusy
  BY DEF Init, OneBusy
<1>2. IInv /\ OneBusy /\ [Next]_vars => OneBusy'
  BY OneBusyStep
<1>3. OneBusy => AtMostOneRuns
  <2> SUFFICES ASSUME OneBusy, Serving
               PROVE  Cardinality({t \in Tasks : proc[t] = "run"}) <= 1
    BY DEF AtMostOneRuns
  <2> DEFINE R == {t \in Tasks : proc[t] = "run"}
  <2>1. CASE R = {}
    BY <2>1, FS_EmptySet
  <2>2. CASE R # {}
    <3>1. PICK t \in R : TRUE
      BY <2>2
    <3>2. R = {t}
      BY <3>1 DEF OneBusy, Busy
    <3> QED
      BY <3>2, FS_Singleton
  <2> QED
    BY <2>1, <2>2
<1> QED
  BY <1>1, <1>2, <1>3, Invariance, PTL DEF Spec
=============================================================================
