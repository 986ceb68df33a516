-------------------------- MODULE FileMergeProofs --------------------------
(***************************************************************************)
(* What fconc leaves in its output, for files of any bytes and any length, *)
(* reads of any size and writes cut anywhere.                              *)
(***************************************************************************)
EXTENDS FileMerge, FiniteSetTheorems, SequenceTheorems, WellFoundedInduction, TLAPS

-----------------------------------------------------------------------------
(***************************************************************************)
(* Picking places of a sequence.                                           *)
(***************************************************************************)
(* The n elements behind place a. *)
LEMMA SubSeqBehind ==
  ASSUME NEW X, NEW s \in Seq(X), NEW a \in Nat, NEW n \in Nat, a + n <= Len(s)
  PROVE  /\ SubSeq(s, a + 1, a + n) \in Seq(X)
         /\ Len(SubSeq(s, a + 1, a + n)) = n
         /\ \A i \in 1 .. n : SubSeq(s, a + 1, a + n)[i] = s[a + i]
<1> DEFINE t == SubSeq(s, a + 1, a + n)
<1>1. a + 1 \in Int /\ a + n \in Int /\ \A i \in a + 1 .. a + n : s[i] \in X
  OBVIOUS
<1>2. /\ t \in Seq(X) /\ Len(t) = IF a + 1 <= a + n THEN a + n - (a + 1) + 1 ELSE 0
      /\ \A i \in 1 .. a + n - (a + 1) + 1 : t[i] = s[a + 1 + i - 1]
  BY <1>1, SubSeqProperties
<1>3. \A i \in 1 .. n : a + 1 + i - 1 = a + i /\ i \in 1 .. a + n - (a + 1) + 1
  OBVIOUS
<1> HIDE DEF t
<1>4. Len(t) = n /\ \A i \in 1 .. n : t[i] = s[a + i]
  BY <1>2, <1>3
<1> QED
  BY <1>2, <1>4 DEF t

(* How many places of S there are up to i. *)
Rank(S, i) == Cardinality(S \cap (1 .. i))

LEMMA RankType ==
  ASSUME NEW N \in Nat, NEW S \in SUBSET (1 .. N), NEW i \in Nat
  PROVE  /\ IsFiniteSet(S) /\ Cardinality(S) \in Nat /\ Cardinality(S) <= N
         /\ IsFiniteSet(S \cap (1 .. i))
         /\ Rank(S, i) \in Nat /\ Rank(S, i) <= Cardinality(S) /\ Rank(S, i) <= i
<1>0. 1 \in Int /\ N \in Int /\ i \in Int
  OBVIOUS
<1>1. IsFiniteSet(1 .. N) /\ Cardinality(1 .. N) = N
  BY <1>0, FS_Interval
<1>2. IsFiniteSet(1 .. i) /\ Cardinality(1 .. i) = i
  BY <1>0, FS_Interval
<1>3. IsFiniteSet(S) /\ Cardinality(S) <= N
  BY <1>1, FS_Subset
<1>4. IsFiniteSet(S \cap (1 .. i)) /\ Cardinality(S \cap (1 .. i)) <= i
  BY <1>2, FS_Subset
<1>5. Cardinality(S \cap (1 .. i)) <= Cardinality(S)
  BY <1>3, FS_Subset
<1> QED
  BY <1>3, <1>4, <1>5, FS_CardinalityType DEF Rank

(* Ranks grow with the places, and two places have not the same.           *)
LEMMA RankGrows ==
  ASSUME NEW N \in Nat, NEW S \in SUBSET (1 .. N), NEW i \in Nat, NEW j \in Nat, i < j, j \in S
  PROVE  Rank(S, i) < Rank(S, j)
<1>1. IsFiniteSet(S \cap (1 .. i)) /\ IsFiniteSet(S \cap (1 .. j))
  BY RankType
<1>2. S \cap (1 .. i) \in SUBSET (S \cap (1 .. j))
  OBVIOUS
<1>3. j \in S \cap (1 .. j) /\ j \notin S \cap (1 .. i)
  OBVIOUS
<1>4. Cardinality(S \cap (1 .. i)) <= Cardinality(S \cap (1 .. j))
  BY <1>1, <1>2, FS_Subset
<1>5. Cardinality(S \cap (1 .. i)) # Cardinality(S \cap (1 .. j))
  BY <1>1, <1>2, <1>3, FS_Subset
<1>6. Rank(S, i) \in Nat /\ Rank(S, j) \in Nat
  BY RankType
<1> QED
  BY <1>4, <1>5, <1>6 DEF Rank

(* A run of m places behind i adds m to the rank.                          *)
LEMMA RankOfRun ==
  ASSUME NEW N \in Nat, NEW S \in SUBSET (1 .. N), NEW i \in Nat, NEW m \in Nat,
         S \cap (i + 1 .. i + m) = i + 1 .. i + m
  PROVE  Rank(S, i + m) = Rank(S, i) + m
<1> DEFINE A == S \cap (1 .. i)
           B == i + 1 .. i + m
<1>1. S \cap (1 .. (i + m)) = A \cup B
  OBVIOUS
<1>2. IsFiniteSet(A) /\ Cardinality(A) \in Nat
  BY RankType DEF Rank
<1>3. i + 1 \in Int /\ i + m \in Int
  OBVIOUS
<1>4. IsFiniteSet(B) /\ Cardinality(B) = m
  <2>1. IsFiniteSet(B) /\ Cardinality(B) = IF i + 1 > i + m THEN 0 ELSE i + m - (i + 1) + 1
    BY <1>3, FS_Interval
  <2> QED
    BY <2>1
<1>5. A \cap B = {}
  OBVIOUS
<1> HIDE DEF A, B
<1>6. Cardinality(A \cap B) = 0
  BY <1>5, FS_EmptySet
<1>7. Cardinality(A \cup B) = Cardinality(A) + Cardinality(B) - Cardinality(A \cap B)
  BY <1>2, <1>4, FS_Union
<1>8. Cardinality(A \cup B) = Cardinality(A) + m
  BY <1>2, <1>4, <1>6, <1>7
<1>9. Rank(S, i) = Cardinality(A)
  BY DEF Rank, A
<1>10. Rank(S, i + m) = Cardinality(A \cup B)
  BY <1>1 DEF Rank, A, B
<1> QED
  BY <1>8, <1>9, <1>10

(* The places have the ranks 1, 2, ... up to how many there are.           *)
LEMMA RankOnto ==
  ASSUME NEW N \in Nat, NEW S \in SUBSET (1 .. N)
  PROVE  /\ \A i \in S : Rank(S, i) \in 1 .. Cardinality(S)
         /\ \A i, j \in S : Rank(S, i) = Rank(S, j) => i = j
         /\ \A k \in 1 .. Cardinality(S) : \E i \in S : Rank(S, i) = k
<1> DEFINE n == Cardinality(S)
           T == 1 .. n
           f == [i \in S |-> Rank(S, i)]
<1>1. IsFiniteSet(S) /\ n \in Nat
  BY RankType, 0 \in Nat
<1>2. \A i \in S : Rank(S, i) \in T
  <2> TAKE i \in S
  <2>1. i \in Nat /\ 0 \in Nat /\ 0 < i
    OBVIOUS
  <2>2. Rank(S, 0) < Rank(S, i)
    BY <2>1, RankGrows
  <2>3. Rank(S, 0) \in Nat /\ Rank(S, i) \in Nat /\ Rank(S, i) <= n
    BY <2>1, RankType
  <2> QED
    BY <1>1, <2>2, <2>3
<1>3. \A i, j \in S : Rank(S, i) = Rank(S, j) => i = j
  <2> SUFFICES ASSUME NEW i \in S, NEW j \in S, i # j PROVE Rank(S, i) # Rank(S, j)
    OBVIOUS
  <2>0. i \in Nat /\ j \in Nat
    OBVIOUS
  <2>1. Rank(S, i) \in Nat /\ Rank(S, j) \in Nat
    BY <2>0, RankType
  <2>2. CASE i < j
    <3>1. Rank(S, i) < Rank(S, j)
      BY <2>0, <2>2, RankGrows
    <3> QED
      BY <2>1, <3>1
  <2>3. CASE j < i
    <3>1. Rank(S, j) < Rank(S, i)
      BY <2>0, <2>3, RankGrows
    <3> QED
      BY <2>1, <3>1
  <2> QED
    BY <2>0, <2>2, <2>3
<1>4. f \in Injection(S, T)
  BY <1>2, <1>3 DEF Injection, IsInjective
<1>5. IsFiniteSet(T) /\ Cardinality(T) = n
  <2>1. 1 \in Int /\ n \in Int
    BY <1>1
  <2>2. IsFiniteSet(1 .. n) /\ Cardinality(1 .. n) = IF 1 > n THEN 0 ELSE n - 1 + 1
    BY <2>1, FS_Interval
  <2> QED
    BY <1>1, <2>2
<1>6. f \in Surjection(S, T)
  <2> HIDE DEF f, T
  <2> QED
    BY <1>4, <1>5, FS_Injection
<1>7. \A k \in T : \E i \in S : f[i] = k
  BY <1>6 DEF Surjection
<1>8. \A k \in T : \E i \in S : Rank(S, i) = k
  BY <1>7
<1> QED
  BY <1>2, <1>3, <1>8

(* What is picked: as many elements as places, each at its rank.           *)
LEMMA PickedProperties ==
  ASSUME NEW X, NEW s \in Seq(X), NEW S \in SUBSET (1 .. Len(s))
  PROVE  /\ Picked(s, S) \in Seq(X)
         /\ Len(Picked(s, S)) = Cardinality(S)
         /\ Cardinality(S) \in Nat
         /\ \A i \in S : Rank(S, i) \in 1 .. Cardinality(S) /\ Picked(s, S)[Rank(S, i)] = s[i]
         /\ \A k \in 1 .. Cardinality(S) : \E i \in S : Rank(S, i) = k
<1> DEFINE at(k) == CHOOSE i \in S : Rank(S, i) = k
           n == Cardinality(S)
<1>1. Len(s) \in Nat
  OBVIOUS
<1>2. n \in Nat
  BY <1>1, RankType, 0 \in Nat
<1>3. /\ \A i \in S : Rank(S, i) \in 1 .. n
      /\ \A i, j \in S : Rank(S, i) = Rank(S, j) => i = j
      /\ \A k \in 1 .. n : \E i \in S : Rank(S, i) = k
  BY <1>1, RankOnto
<1>4. \A k \in 1 .. n : at(k) \in S /\ Rank(S, at(k)) = k
  BY <1>3
<1>5. \A i \in S : at(Rank(S, i)) = i
  BY <1>3, <1>4
<1>6. Picked(s, S) = [k \in 1 .. n |-> s[at(k)]]
  BY DEF Picked, Rank
<1> HIDE DEF at, n
<1>7. \A i \in S : s[i] \in X
  BY <1>1
<1>8. [k \in 1 .. n |-> s[at(k)]] \in [1 .. n -> X]
  BY <1>4, <1>7
<1>9. Picked(s, S) \in Seq(X) /\ Len(Picked(s, S)) = n
  BY <1>2, <1>6, <1>8, LenProperties, SeqDef
<1>10. \A i \in S : Picked(s, S)[Rank(S, i)] = s[i]
  BY <1>3, <1>5, <1>6
<1> QED
  BY <1>2, <1>3, <1>9, <1>10 DEF n

(* A run of places behind all others is the end of what is picked.         *)
LEMMA PickedGrows ==
  ASSUME NEW X, NEW s \in Seq(X), NEW a \in Nat, NEW m \in Nat, a + m <= Len(s)
  PROVE  \A S \in SUBSET (1 .. a) :
           /\ S \cup (a + 1 .. a + m) \in SUBSET (1 .. a + m)
           /\ Picked(s, S \cup (a + 1 .. a + m)) = Picked(s, S) \o SubSeq(s, a + 1, a + m)
<1> TAKE S \in SUBSET (1 .. a)
<1> DEFINE U == S \cup (a + 1 .. a + m)
           p == Picked(s, S)
           t == SubSeq(s, a + 1, a + m)
           r == Picked(s, U)
           n == Cardinality(S)
<1>0. Len(s) \in Nat
  OBVIOUS
<1>1. U \in SUBSET (1 .. a + m) /\ U \in SUBSET (1 .. Len(s)) /\ S \in SUBSET (1 .. Len(s))
  BY <1>0
<1>2. /\ p \in Seq(X) /\ Len(p) = n /\ n \in Nat
      /\ \A i \in S : Rank(S, i) \in 1 .. n /\ p[Rank(S, i)] = s[i]
      /\ \A k \in 1 .. n : \E i \in S : Rank(S, i) = k
  BY <1>1, PickedProperties
<1>3. /\ r \in Seq(X) /\ Len(r) = Cardinality(U)
      /\ \A i \in U : r[Rank(U, i)] = s[i]
  BY <1>1, PickedProperties
<1>4. /\ t \in Seq(X) /\ Len(t) = m
      /\ \A j \in 1 .. m : t[j] = s[a + j]
  BY SubSeqBehind
<1>5. \A i \in S : Rank(U, i) = Rank(S, i)
  <2> TAKE i \in S
  <2>1. U \cap (1 .. i) = S \cap (1 .. i)
    OBVIOUS
  <2> QED
    BY <2>1 DEF Rank
<1>6. \A j \in 0 .. m : Rank(U, a + j) = n + j
  <2> TAKE j \in 0 .. m
  <2>1. U \cap (1 .. a) = S
    <3>1. (a + 1 .. a + m) \cap (1 .. a) = {}
      OBVIOUS
    <3>2. S \cap (1 .. a) = S
      OBVIOUS
    <3> QED
      BY <3>1, <3>2
  <2>2. Rank(U, a) = n
    BY <2>1 DEF Rank
  <2>3. j \in Nat /\ a + m \in Nat /\ U \cap (a + 1 .. a + j) = a + 1 .. a + j
    OBVIOUS
  <2>4. U \in SUBSET (1 .. a + m)
    BY <1>1
  <2> HIDE DEF U
  <2>5. Rank(U, a + j) = Rank(U, a) + j
    BY <2>3, <2>4, RankOfRun
  <2> QED
    BY <2>2, <2>5
<1>7. Cardinality(U) = n + m
  <2>1. U \cap (1 .. (a + m)) = U
    BY <1>1
  <2>2. Rank(U, a + m) = Cardinality(U)
    BY <2>1 DEF Rank
  <2> HIDE DEF U, n
  <2> QED
    BY <1>6, <2>2
<1> HIDE DEF U, p, t, r, n
<1>8. /\ p \o t \in Seq(X) /\ Len(p \o t) = n + m
      /\ \A k \in 1 .. n + m : (p \o t)[k] = IF k <= n THEN p[k] ELSE t[k - n]
  BY <1>2, <1>4, ConcatProperties
<1>9. \A k \in 1 .. n + m : r[k] = (p \o t)[k]
  <2> TAKE k \in 1 .. n + m
  <2>1. CASE k <= n
    <3>1. k \in 1 .. n
      BY <1>2, <2>1
    <3>2. PICK i \in S : Rank(S, i) = k
      BY <1>2, <3>1
    <3>3. i \in U /\ p[k] = s[i]
      BY <1>2, <3>2 DEF U
    <3> QED
      BY <1>3, <1>5, <1>8, <2>1, <3>2, <3>3
  <2>2. CASE k > n
    <3>1. k - n \in 1 .. m /\ a + (k - n) \in U /\ n + (k - n) = k
      BY <1>2, <2>2 DEF U
    <3>2. Rank(U, a + (k - n)) = k
      BY <1>6, <3>1
    <3>3. r[k] = s[a + (k - n)]
      BY <1>3, <3>1, <3>2
    <3>4. t[k - n] = s[a + (k - n)]
      BY <1>4, <3>1
    <3> QED
      BY <1>2, <1>8, <2>2, <3>3, <3>4
  <2>3. k <= n \/ k > n
    BY <1>2
  <2> QED
    BY <2>1, <2>2, <2>3
<1>10. r = p \o t
  BY <1>3, <1>7, <1>8, <1>9, SeqEqual
<1> QED
  BY <1>1, <1>10 DEF U, p, t, r

(***************************************************************************)
(* A sequence is picked from another when its elements are found there in  *)
(* their order.                                                            *)
(***************************************************************************)
Finds(f, t, s) ==
  /\ f \in [1 .. Len(t) -> 1 .. Len(s)]
  /\ \A j, k \in 1 .. Len(t) : j < k => f[j] < f[k]
  /\ \A k \in 1 .. Len(t) : t[k] = s[f[k]]

Embeds(t, s) == \E f : Finds(f, t, s)

LEMMA PickedEmbeds ==
  ASSUME NEW X, NEW s \in Seq(X), NEW S \in SUBSET (1 .. Len(s))
  PROVE  Embeds(Picked(s, S), s)
<1> DEFINE n == Cardinality(S)
           at(k) == CHOOSE i \in S : Rank(S, i) = k
           f == [k \in 1 .. n |-> at(k)]
<1>1. /\ Len(Picked(s, S)) = n /\ n \in Nat
      /\ \A i \in S : Picked(s, S)[Rank(S, i)] = s[i]
      /\ \A k \in 1 .. n : \E i \in S : Rank(S, i) = k
  BY PickedProperties
<1>2. \A k \in 1 .. n : at(k) \in S /\ Rank(S, at(k)) = k
  BY <1>1
<1> HIDE DEF n, at
<1>3. f \in [1 .. n -> 1 .. Len(s)] /\ \A k \in 1 .. n : Picked(s, S)[k] = s[f[k]]
  BY <1>1, <1>2
<1>4. ASSUME NEW j \in 1 .. n, NEW k \in 1 .. n, j < k PROVE f[j] < f[k]
  <2>1. /\ at(j) \in Nat /\ at(k) \in Nat /\ at(j) \in S /\ at(k) \in S
        /\ Rank(S, at(j)) = j /\ Rank(S, at(k)) = k
    <3>1. \A i \in S : i \in Nat
      OBVIOUS
    <3>2. at(j) \in S /\ Rank(S, at(j)) = j
      BY <1>2
    <3>3. at(k) \in S /\ Rank(S, at(k)) = k
      BY <1>2
    <3> HIDE DEF f
    <3> QED
      BY <3>1, <3>2, <3>3
  <2>2. at(j) # at(k)
    BY <1>4, <2>1
  <2>3. ASSUME at(k) < at(j) PROVE FALSE
    <3>1. Rank(S, at(k)) < Rank(S, at(j))
      <4>1. Len(s) \in Nat
        OBVIOUS
      <4> QED
        BY <2>1, <2>3, <4>1, RankGrows
    <3> QED
      BY <1>1, <1>4, <2>1, <3>1
  <2> QED
    BY <2>1, <2>2, <2>3
<1> HIDE DEF f
<1>5. Finds(f, Picked(s, S), s)
  BY <1>1, <1>3, <1>4 DEF Finds
<1> QED
  BY <1>5 DEF Embeds

LEMMA EmbedsPicked ==
  ASSUME NEW X, NEW s \in Seq(X), NEW t \in Seq(X), Embeds(t, s)
  PROVE  \E S \in SUBSET (1 .. Len(s)) : t = Picked(s, S)
<1>1. PICK f : Finds(f, t, s)
  BY DEF Embeds
<1> DEFINE n == Len(t)
           Found(m) == {f[j] : j \in 1 .. m}
           S == Found(n)
<1>2. n \in Nat /\ Len(s) \in Nat
  OBVIOUS
<1>3. /\ f \in [1 .. n -> 1 .. Len(s)]
      /\ \A j, k \in 1 .. n : j < k => f[j] < f[k]
      /\ \A k \in 1 .. n : t[k] = s[f[k]]
  BY <1>1 DEF Finds
<1> HIDE DEF n
<1>4. ASSUME NEW m \in 0 .. n PROVE Cardinality(Found(m)) = m
  <2> DEFINE g == [j \in 1 .. m |-> f[j]]
  <2>1. m \in Nat /\ 1 .. m \subseteq 1 .. n
    BY <1>2
  <2>2. \A j, k \in 1 .. m : f[j] = f[k] => j = k
    <3> SUFFICES ASSUME NEW j \in 1 .. m, NEW k \in 1 .. m, j # k PROVE f[j] # f[k]
      OBVIOUS
    <3>1. f[j] \in Nat /\ f[k] \in Nat /\ (j < k \/ k < j)
      BY <1>2, <1>3, <2>1
    <3> QED
      BY <1>3, <2>1, <3>1
  <2>3. g \in Bijection(1 .. m, Found(m))
    BY <2>2 DEF Bijection, Injection, Surjection, IsInjective
  <2>4. ExistsBijection(1 .. m, Found(m))
    BY <2>3 DEF ExistsBijection
  <2>5. IsFiniteSet(1 .. m) /\ Cardinality(1 .. m) = m
    <3>1. 1 \in Int /\ m \in Int
      BY <2>1
    <3>2. IsFiniteSet(1 .. m) /\ Cardinality(1 .. m) = IF 1 > m THEN 0 ELSE m - 1 + 1
      BY <3>1, FS_Interval
    <3> QED
      BY <2>1, <3>2
  <2> HIDE DEF Found
  <2> QED
    BY <2>4, <2>5, FS_Bijection
<1>5. S \in SUBSET (1 .. Len(s))
  BY <1>3
<1>6. ASSUME NEW k \in 1 .. n PROVE f[k] \in S /\ Rank(S, f[k]) = k
  <2>1. S \cap (1 .. f[k]) = Found(k)
    <3>1. ASSUME NEW j \in 1 .. n PROVE f[j] \in 1 .. f[k] <=> j \in 1 .. k
      <4>1. f[j] \in Nat \ {0} /\ f[k] \in Nat \ {0} /\ j \in Nat \ {0} /\ k \in Nat
        BY <1>2, <1>3
      <4>2. j < k => f[j] < f[k]
        BY <1>3
      <4>3. k < j => f[k] < f[j]
        BY <1>3
      <4>4. j = k => f[j] = f[k]
        OBVIOUS
      <4> QED
        BY <4>1, <4>2, <4>3, <4>4
    <3>2. 1 .. k \subseteq 1 .. n
      BY <1>2
    <3> QED
      BY <3>1, <3>2
  <2>2. k \in 0 .. n
    BY <1>2
  <2>3. f[k] \in S
    OBVIOUS
  <2> HIDE DEF S, Found
  <2> QED
    BY <1>4, <2>1, <2>2, <2>3 DEF Rank
<1>7. Cardinality(S) = n
  BY <1>2, <1>4
<1> HIDE DEF S, Found
<1>8. /\ Picked(s, S) \in Seq(X) /\ Len(Picked(s, S)) = n
      /\ \A i \in S : Picked(s, S)[Rank(S, i)] = s[i]
  BY <1>5, <1>7, PickedProperties
<1>9. \A k \in 1 .. n : t[k] = Picked(s, S)[k]
  BY <1>3, <1>6, <1>8
<1>10. t = Picked(s, S)
  BY <1>8, <1>9, SeqEqual DEF n
<1> QED
  BY <1>5, <1>10

(* What is picked from what was picked is picked from the whole.           *)
LEMMA EmbedsTransitive ==
  ASSUME NEW X, NEW s \in Seq(X), NEW t \in Seq(X), NEW u \in Seq(X), Embeds(u, t), Embeds(t, s)
  PROVE  Embeds(u, s)
<1>1. PICK f : Finds(f, u, t)
  BY DEF Embeds
<1>2. PICK g : Finds(g, t, s)
  BY DEF Embeds
<1> DEFINE h == [k \in 1 .. Len(u) |-> g[f[k]]]
<1>3. Finds(h, u, s)
  BY <1>1, <1>2 DEF Finds
<1> QED
  BY <1>3 DEF Embeds

(* Two sequences of which each is picked from another: so are both.        *)
LEMMA EmbedsConcat ==
  ASSUME NEW X, NEW s \in Seq(X), NEW t \in Seq(X), Embeds(t, s)
  PROVE  \A v, u \in Seq(X) : Embeds(u, v) => Embeds(t \o u, s \o v)
<1> SUFFICES ASSUME NEW v \in Seq(X), NEW u \in Seq(X), Embeds(u, v)
             PROVE  Embeds(t \o u, s \o v)
  OBVIOUS
<1>1. PICK f : Finds(f, t, s)
  BY DEF Embeds
<1>2. PICK g : Finds(g, u, v)
  BY DEF Embeds
<1> DEFINE a == Len(t)  b == Len(u)  c == Len(s)  d == Len(v)
           tu == t \o u
           sv == s \o v
           h == [k \in 1 .. a + b |-> IF k <= a THEN f[k] ELSE c + g[k - a]]
<1>3. a \in Nat /\ b \in Nat /\ c \in Nat /\ d \in Nat
  OBVIOUS
<1>4. /\ Len(tu) = a + b
      /\ \A k \in 1 .. a + b : tu[k] = IF k <= a THEN t[k] ELSE u[k - a]
  BY ConcatProperties
<1>5. /\ Len(sv) = c + d
      /\ \A k \in 1 .. c + d : sv[k] = IF k <= c THEN s[k] ELSE v[k - c]
  BY ConcatProperties
<1>6. /\ f \in [1 .. a -> 1 .. c] /\ \A j, k \in 1 .. a : j < k => f[j] < f[k]
      /\ \A k \in 1 .. a : t[k] = s[f[k]]
  BY <1>1 DEF Finds
<1>7. /\ g \in [1 .. b -> 1 .. d] /\ \A j, k \in 1 .. b : j < k => g[j] < g[k]
      /\ \A k \in 1 .. b : u[k] = v[g[k]]
  BY <1>2 DEF Finds
<1> HIDE DEF a, b, c, d, tu, sv
<1>8. ASSUME NEW k \in 1 .. a + b
      PROVE  IF k <= a THEN /\ k \in 1 .. a /\ h[k] = f[k] /\ f[k] \in 1 .. c
                       ELSE /\ k - a \in 1 .. b /\ h[k] = c + g[k - a] /\ g[k - a] \in 1 .. d
  <2>1. CASE k <= a
    <3>1. k \in 1 .. a
      BY <1>3, <2>1
    <3> QED
      BY <1>6, <2>1, <3>1
  <2>2. CASE ~(k <= a)
    <3>1. k - a \in 1 .. b
      BY <1>3, <2>2
    <3> QED
      BY <1>7, <2>2, <3>1
  <2> QED
    BY <2>1, <2>2
<1> HIDE DEF h
<1>9. h \in [1 .. a + b -> 1 .. c + d]
  <2>1. ASSUME NEW k \in 1 .. a + b PROVE h[k] \in 1 .. c + d
    <3>1. CASE k <= a
      <4>1. h[k] \in 1 .. c
        BY <1>8, <3>1
      <4> QED
        BY <1>3, <4>1
    <3>2. CASE ~(k <= a)
      <4>1. h[k] = c + g[k - a] /\ g[k - a] \in 1 .. d
        BY <1>8, <3>2
      <4> QED
        BY <1>3, <4>1
    <3> QED
      BY <3>1, <3>2
  <2>2. h = [k \in 1 .. a + b |-> h[k]]
    BY DEF h
  <2> QED
    BY <2>1, <2>2
<1>10. ASSUME NEW j \in 1 .. a + b, NEW k \in 1 .. a + b, j < k PROVE h[j] < h[k]
  <2>1. CASE k <= a
    <3>1. j <= a
      BY <1>3, <1>10, <2>1
    <3> QED
      BY <1>6, <1>8, <1>10, <2>1, <3>1
  <2>2. CASE ~(k <= a) /\ j <= a
    <3>1. h[j] \in 1 .. c /\ h[k] = c + g[k - a] /\ g[k - a] \in 1 .. d
      BY <1>8, <2>2
    <3> QED
      BY <1>3, <3>1
  <2>3. CASE ~(j <= a)
    <3>1. ~(k <= a) /\ j - a < k - a
      BY <1>3, <1>10, <2>3
    <3>2. /\ j - a \in 1 .. b /\ h[j] = c + g[j - a] /\ g[j - a] \in 1 .. d
          /\ k - a \in 1 .. b /\ h[k] = c + g[k - a] /\ g[k - a] \in 1 .. d
      BY <1>8, <2>3, <3>1
    <3>3. g[j - a] < g[k - a]
      BY <1>7, <3>1, <3>2
    <3> QED
      BY <1>3, <3>2, <3>3
  <2> QED
    BY <2>1, <2>2, <2>3
<1>11. ASSUME NEW k \in 1 .. a + b PROVE tu[k] = sv[h[k]]
  <2>1. CASE k <= a
    <3>1. tu[k] = t[k] /\ k \in 1 .. a /\ h[k] = f[k] /\ f[k] \in 1 .. c
      BY <1>4, <1>8, <2>1
    <3>2. f[k] \in 1 .. c + d /\ f[k] <= c
      BY <1>3, <3>1
    <3> QED
      BY <1>5, <1>6, <3>1, <3>2
  <2>2. CASE ~(k <= a)
    <3>1. /\ tu[k] = u[k - a] /\ k - a \in 1 .. b
          /\ h[k] = c + g[k - a] /\ g[k - a] \in 1 .. d
      BY <1>4, <1>8, <2>2
    <3>2. PICK y : y = g[k - a]
      OBVIOUS
    <3>3. u[k - a] = v[y] /\ h[k] = c + y /\ y \in 1 .. d
      BY <1>7, <3>1, <3>2
    <3>4. PICK z : z = c + y
      OBVIOUS
    <3>5. z \in 1 .. c + d /\ ~(z <= c) /\ z - c = y
      BY <1>3, <3>3, <3>4
    <3>6. sv[z] = v[z - c]
      BY <1>5, <3>5
    <3> QED
      BY <3>1, <3>3, <3>4, <3>5, <3>6
  <2> QED
    BY <2>1, <2>2
<1>12. Finds(h, tu, sv)
  BY <1>4, <1>5, <1>9, <1>10, <1>11 DEF Finds
<1> QED
  BY <1>12 DEF Embeds, tu, sv

-----------------------------------------------------------------------------
(***************************************************************************)
(* Reading a file in pieces.                                               *)
(***************************************************************************)
(* A set of numbers that is not empty has a least one. *)
LEMMA LeastNumber ==
  ASSUME NEW T \in SUBSET Nat, T # {}
  PROVE  \E m \in T : \A y \in T : m <= y
<1> DEFINE R == {ss \in Nat \X Nat : ss[1] < ss[2]}
<1>1. IsWellFoundedOn(R, Nat)
  BY NatLessThanWellFounded DEF OpToRel
<1>2. PICK m \in T : \A y \in T : ~(<<y, m>> \in R)
  BY <1>1, WFMin
<1>3. ASSUME NEW y \in T PROVE m <= y
  <2>1. m \in Nat /\ y \in Nat
    OBVIOUS
  <2>2. y < m => <<y, m>> \in R
    BY <2>1
  <2> HIDE DEF R
  <2> QED
    BY <1>2, <2>1, <2>2
<1> QED
  BY <1>3

(* strlen: the string is what is before the first NUL, or everything.      *)
LEMMA StringProperties ==
  ASSUME NEW b \in Seq(Bytes)
  PROVE  \E n \in 0 .. Len(b) :
           /\ String(b) = SubSeq(b, 1, n)
           /\ \A i \in 1 .. n : b[i] # Nul
           /\ n < Len(b) => b[n + 1] = Nul
<1> DEFINE P(n) == /\ \A i \in 1 .. n : b[i] # Nul
                   /\ n < Len(b) => b[n + 1] = Nul
           T == {i \in 1 .. Len(b) : b[i] = Nul}
<1>0. Len(b) \in Nat
  OBVIOUS
<1>1. \E n \in 0 .. Len(b) : P(n)
  <2>1. CASE T = {}
    <3>1. P(Len(b))
      BY <1>0, <2>1
    <3> HIDE DEF P
    <3> QED
      BY <1>0, <3>1
  <2>2. CASE T # {}
    <3>1. T \in SUBSET Nat
      BY <1>0
    <3>2. PICK m \in T : \A y \in T : m <= y
      BY <2>2, <3>1, LeastNumber
    <3>3. m - 1 \in 0 .. Len(b) /\ m \in Nat /\ b[m] = Nul /\ m - 1 + 1 = m
      BY <1>0
    <3>4. P(m - 1)
      BY <1>0, <3>2, <3>3
    <3> HIDE DEF P
    <3> QED
      BY <3>3, <3>4
  <2> QED
    BY <2>1, <2>2
<1> DEFINE n == CHOOSE n \in 0 .. Len(b) : P(n)
<1>2. n \in 0 .. Len(b) /\ P(n)
  <2> HIDE DEF P
  <2> QED
    BY <1>1
<1>3. String(b) = SubSeq(b, 1, n)
  BY DEF String
<1> HIDE DEF n
<1> QED
  BY <1>2, <1>3

(* A place is in one piece only. *)
LEMMA OnePiece ==
  ASSUME NEW p \in Nat, NEW q \in Nat, NEW i \in Nat,
         i \in p * ReadMax + 1 .. p * ReadMax + ReadMax,
         i \in q * ReadMax + 1 .. q * ReadMax + ReadMax
  PROVE  p = q
<1>1. ReadMax \in Nat
  BY MergeAssumption
<1>2. ASSUME NEW x \in Nat, NEW y \in Nat, x < y PROVE x * ReadMax + ReadMax <= y * ReadMax
  <2>1. PICK d \in Nat : y = x + 1 + d
    <3>1. y - x - 1 \in Nat /\ y = x + 1 + (y - x - 1)
      BY <1>2
    <3> QED
      BY <3>1
  <2>2. y * ReadMax = x * ReadMax + ReadMax + d * ReadMax
    BY <1>1, <2>1
  <2>3. d * ReadMax \in Nat /\ x * ReadMax \in Nat
    BY <1>1
  <2> QED
    BY <1>1, <2>2, <2>3
<1>3. p * ReadMax \in Nat /\ q * ReadMax \in Nat
  BY <1>1
<1>4. CASE p < q
  BY <1>1, <1>2, <1>3, <1>4
<1>5. CASE q < p
  BY <1>1, <1>2, <1>3, <1>5
<1> QED
  BY <1>4, <1>5

(* Where a file that is read in pieces is kept: up to the first NUL of     *)
(* each piece.                                                             *)
KeptPlaces(bytes) ==
  {i \in DOMAIN bytes : \E q \in 0 .. i :
     /\ i \in q * ReadMax + 1 .. q * ReadMax + ReadMax
     /\ \A j \in q * ReadMax + 1 .. i : bytes[j] # Nul}

Kept(bytes) == Picked(bytes, KeptPlaces(bytes))

(* What of the inputs comes to the output when no call fails.              *)
Contents(k) == Kept(Given(k))
Merged == Contents(1) \o Contents(2)

(* How many bytes of b are kept of its first o. *)
KeptUpTo(b, o) == Rank(KeptPlaces(b), o)

(* What is kept has a byte for each of the places, in their order.         *)
LEMMA KeptProperties ==
  ASSUME NEW b \in Seq(Bytes)
  PROVE  /\ KeptPlaces(b) \in SUBSET (1 .. Len(b))
         /\ Len(b) \in Nat
         /\ Kept(b) \in Seq(Bytes)
         /\ KeptUpTo(b, 0) = 0
         /\ KeptUpTo(b, Len(b)) = Len(Kept(b))
         /\ \A o \in Nat : KeptUpTo(b, o) \in 0 .. Len(Kept(b))
         /\ \A i \in KeptPlaces(b) :
              KeptUpTo(b, i) \in 1 .. Len(Kept(b)) /\ Kept(b)[KeptUpTo(b, i)] = b[i]
         /\ \A k \in 1 .. Len(Kept(b)) : Kept(b)[k] # Nul
<1> DEFINE S == KeptPlaces(b)
<1>1. S \in SUBSET (1 .. Len(b)) /\ Len(b) \in Nat
  BY DEF KeptPlaces
<1>2. \A i \in S : b[i] # Nul
  <2> SUFFICES ASSUME NEW i \in S PROVE b[i] # Nul
    OBVIOUS
  <2>1. PICK q \in 0 .. i : /\ i \in q * ReadMax + 1 .. q * ReadMax + ReadMax
                            /\ \A j \in q * ReadMax + 1 .. i : b[j] # Nul
    BY DEF KeptPlaces
  <2>2. i \in Nat /\ q \in Nat /\ q * ReadMax \in Nat
    BY <1>1, MergeAssumption
  <2> QED
    BY <2>1, <2>2
<1> HIDE DEF S
<1>3. /\ Picked(b, S) \in Seq(Bytes)
      /\ Len(Picked(b, S)) = Cardinality(S)
      /\ Cardinality(S) \in Nat
      /\ \A i \in S : Rank(S, i) \in 1 .. Cardinality(S) /\ Picked(b, S)[Rank(S, i)] = b[i]
      /\ \A k \in 1 .. Cardinality(S) : \E i \in S : Rank(S, i) = k
  BY <1>1, PickedProperties
<1>4. Kept(b) = Picked(b, S)
  BY DEF Kept, S
<1>5. \A o \in Nat : Rank(S, o) \in Nat /\ Rank(S, o) <= Cardinality(S) /\ Rank(S, o) <= o
  BY <1>1, RankType
<1>6. Rank(S, 0) = 0
  BY <1>5
<1>7. Rank(S, Len(b)) = Cardinality(S)
  <2>1. S \cap (1 .. Len(b)) = S
    BY <1>1
  <2> QED
    BY <2>1 DEF Rank
<1>8. \A k \in 1 .. Cardinality(S) : Picked(b, S)[k] # Nul
  BY <1>2, <1>3
<1> QED
  BY <1>1, <1>3, <1>4, <1>5, <1>6, <1>7, <1>8 DEF KeptUpTo, S

(* Without a NUL everything is kept. *)
LEMMA NulFreeKept ==
  ASSUME NEW b \in Seq(Bytes), NulFree(b)
  PROVE  Kept(b) = b
<1> DEFINE n == Len(b)
           S == 1 .. n
<1>0. ReadMax \in Nat \ {0} /\ n \in Nat
  BY MergeAssumption
<1>1. ASSUME NEW i \in S PROVE i \in KeptPlaces(b)
  <2> DEFINE T == {q \in Nat : i <= q * ReadMax + ReadMax}
  <2>1. i \in Nat /\ i \in DOMAIN b
    BY <1>0
  <2>2. i \in T
    <3>1. i <= i * ReadMax
      BY <1>0, <2>1
    <3>2. i * ReadMax \in Nat
      BY <1>0, <2>1
    <3> QED
      BY <1>0, <2>1, <3>1, <3>2
  <2>3. T \in SUBSET Nat /\ T # {}
    BY <2>2
  <2>4. PICK q \in T : \A y \in T : q <= y
    <3> HIDE DEF T
    <3> QED
      BY <2>3, LeastNumber
  <2>5. q \in Nat /\ q * ReadMax \in Nat /\ i <= q * ReadMax + ReadMax /\ q <= i
    BY <1>0, <2>2, <2>4
  <2>6. q * ReadMax + 1 <= i
    <3>1. CASE q = 0
      BY <1>0, <3>1
    <3>2. CASE q # 0
      <4>1. q - 1 \in Nat /\ ~(q <= q - 1)
        BY <2>5, <3>2
      <4>2. q - 1 \notin T
        BY <2>4, <4>1
      <4>3. (q - 1) * ReadMax + ReadMax = q * ReadMax
        BY <1>0, <2>5
      <4> QED
        BY <2>1, <2>5, <4>1, <4>2, <4>3
    <3> QED
      BY <3>1, <3>2
  <2>7. \A j \in q * ReadMax + 1 .. i : b[j] # Nul
    <3> TAKE j \in q * ReadMax + 1 .. i
    <3>1. j \in DOMAIN b
      BY <1>0, <2>5
    <3> QED
      BY <3>1 DEF NulFree
  <2> HIDE DEF T
  <2>8. q \in 0 .. i /\ i \in q * ReadMax + 1 .. q * ReadMax + ReadMax
    BY <1>0, <2>1, <2>5, <2>6
  <2> QED
    BY <2>1, <2>7, <2>8 DEF KeptPlaces
<1>2. KeptPlaces(b) = S
  BY <1>1, KeptProperties
<1>3. Kept(b) = Picked(b, S)
  BY <1>2 DEF Kept
<1>4. ASSUME NEW k \in Nat, k <= n PROVE Cardinality(1 .. k) = k
  <2>1. 1 \in Int /\ k \in Int
    OBVIOUS
  <2>2. Cardinality(1 .. k) = IF 1 > k THEN 0 ELSE k - 1 + 1
    BY <2>1, FS_Interval
  <2> QED
    BY <2>2
<1>5. ASSUME NEW k \in S PROVE Rank(S, k) = k
  <2>1. S \cap (1 .. k) = 1 .. k /\ k \in Nat /\ k <= n
    BY <1>0
  <2> QED
    BY <1>4, <2>1 DEF Rank
<1>6. Cardinality(S) = n
  BY <1>0, <1>4
<1>7. /\ Picked(b, S) \in Seq(Bytes) /\ Len(Picked(b, S)) = Cardinality(S)
      /\ \A i \in S : Picked(b, S)[Rank(S, i)] = b[i]
  BY PickedProperties
<1>8. \A i \in 1 .. n : Picked(b, S)[i] = b[i]
  BY <1>5, <1>7
<1> HIDE DEF S
<1>9. Picked(b, S) = b
  BY <1>6, <1>7, <1>8, SeqEqual
<1> QED
  BY <1>3, <1>9

(* A place behind whole pieces. *)
BehindPieces(o) == \E q \in Nat : o = q * ReadMax

(* Of a piece, the bytes before its first NUL are kept.                    *)
LEMMA PiecePlaces ==
  ASSUME NEW b \in Seq(Bytes), NEW o \in Nat, BehindPieces(o)
  PROVE  \A c, n \in Nat :
           /\ c <= ReadMax /\ o + c <= Len(b) /\ n <= c
           /\ \A i \in 1 .. n : b[o + i] # Nul
           /\ n < c => b[o + n + 1] = Nul
           => KeptPlaces(b) \cap (o + 1 .. o + c) = o + 1 .. o + n
<1> SUFFICES ASSUME NEW c \in Nat, NEW n \in Nat, c <= ReadMax, o + c <= Len(b), n <= c,
                    \A i \in 1 .. n : b[o + i] # Nul,
                    n < c => b[o + n + 1] = Nul
             PROVE  KeptPlaces(b) \cap (o + 1 .. o + c) = o + 1 .. o + n
  OBVIOUS
<1>0. ReadMax \in Nat \ {0} /\ Len(b) \in Nat
  BY MergeAssumption
<1>q. PICK q \in Nat : o = q * ReadMax
  BY DEF BehindPieces
<1>1. ASSUME NEW i \in o + 1 .. o + n PROVE i \in KeptPlaces(b)
  <2>1. i \in 1 .. Len(b) /\ i \in DOMAIN b
    BY <1>0
  <2>2. q \in 0 .. i
    <3>1. q <= q * ReadMax
      BY <1>0
    <3> QED
      BY <1>q, <2>1, <3>1
  <2>3. i \in q * ReadMax + 1 .. q * ReadMax + ReadMax
    BY <1>0, <1>q
  <2>4. \A j \in o + 1 .. i : b[j] # Nul
    <3> TAKE j \in o + 1 .. i
    <3>1. j - o \in 1 .. n /\ o + (j - o) = j
      OBVIOUS
    <3> QED
      BY <3>1
  <2> QED
    BY <1>q, <2>1, <2>2, <2>3, <2>4 DEF KeptPlaces
<1>2. ASSUME NEW i \in KeptPlaces(b), i \in o + 1 .. o + c PROVE i \in o + 1 .. o + n
  <2>1. PICK p \in 0 .. i : /\ i \in p * ReadMax + 1 .. p * ReadMax + ReadMax
                            /\ \A j \in p * ReadMax + 1 .. i : b[j] # Nul
    BY DEF KeptPlaces
  <2>2. i \in Nat /\ p \in Nat /\ i \in q * ReadMax + 1 .. q * ReadMax + ReadMax
    BY <1>0, <1>2, <1>q
  <2>3. p = q
    BY <2>1, <2>2, OnePiece
  <2>4. \A j \in o + 1 .. i : b[j] # Nul
    BY <1>q, <2>1, <2>3
  <2>5. ASSUME i > o + n PROVE FALSE
    <3>1. n < c /\ o + n + 1 \in o + 1 .. i
      BY <1>2, <2>2, <2>5
    <3> QED
      BY <2>4, <3>1
  <2> QED
    BY <1>2, <2>2, <2>5
<1>3. o + 1 .. o + n \subseteq o + 1 .. o + c
  OBVIOUS
<1> QED
  BY <1>1, <1>2, <1>3

(* What a read gets from place o on, and what of it is kept.               *)
LEMMA PieceProperties ==
  ASSUME NEW b \in Seq(Bytes), NEW o \in Nat, o < Len(b)
  PROVE  LET p == Piece(SubSeq(b, o + 1, Len(b)))
             t == String(p)
         IN  /\ Len(p) \in 1 .. ReadMax
             /\ o + Len(p) <= Len(b)
             /\ Len(p) < ReadMax => o + Len(p) = Len(b)
             /\ t \in Seq(Bytes) /\ Len(t) \in 0 .. Len(p)
             /\ \A i \in 1 .. Len(t) : t[i] = b[o + i] /\ b[o + i] # Nul
             /\ Len(t) < Len(p) => b[o + Len(t) + 1] = Nul
<1> DEFINE u == SubSeq(b, o + 1, Len(b))
           c == IF Len(u) < ReadMax THEN Len(u) ELSE ReadMax
           p == Piece(u)
           t == String(p)
<1>0. Len(b) \in Nat /\ ReadMax \in Nat \ {0}
  BY MergeAssumption
<1>1. /\ u \in Seq(Bytes) /\ Len(u) = Len(b) - o
      /\ \A i \in 1 .. Len(b) - o : u[i] = b[o + i]
  <2>1. o + 1 \in Int /\ Len(b) \in Int /\ \A i \in o + 1 .. Len(b) : b[i] \in Bytes
    BY <1>0
  <2>2. /\ u \in Seq(Bytes) /\ Len(u) = IF o + 1 <= Len(b) THEN Len(b) - (o + 1) + 1 ELSE 0
        /\ \A i \in 1 .. Len(b) - (o + 1) + 1 : u[i] = b[o + 1 + i - 1]
    BY <2>1, SubSeqProperties
  <2>3. \A i \in 1 .. Len(b) - o : o + 1 + i - 1 = o + i /\ i \in 1 .. Len(b) - (o + 1) + 1
    BY <1>0
  <2> QED
    BY <1>0, <2>2, <2>3
<1>2. c \in 1 .. ReadMax /\ o + c <= Len(b) /\ c <= Len(u) /\ (c < ReadMax => o + c = Len(b))
  BY <1>0, <1>1
<1>3. p = SubSeq(u, 1, c)
  BY DEF Piece
<1> HIDE DEF u, c, p
<1>4. /\ p \in Seq(Bytes) /\ Len(p) = c
      /\ \A i \in 1 .. c : p[i] = b[o + i]
  <2>1. 1 \in Int /\ c \in Int /\ Len(u) \in Nat
    BY <1>1, <1>2
  <2>2. \A i \in 1 .. c : u[i] \in Bytes
    BY <1>1, <1>2, <2>1
  <2>3. /\ p \in Seq(Bytes) /\ Len(p) = IF 1 <= c THEN c - 1 + 1 ELSE 0
        /\ \A i \in 1 .. c - 1 + 1 : p[i] = u[1 + i - 1]
    BY <1>3, <2>1, <2>2, SubSeqProperties
  <2>4. 1 <= c /\ c - 1 + 1 = c
    BY <1>2, <2>1
  <2>5. \A i \in 1 .. c : 1 + i - 1 = i /\ i \in 1 .. Len(b) - o
    BY <1>0, <1>1, <1>2, <2>1
  <2>6. \A i \in 1 .. c : p[i] = u[i] /\ u[i] = b[o + i]
    BY <1>1, <2>3, <2>4, <2>5
  <2> QED
    BY <2>3, <2>4, <2>6
<1>5. PICK n \in 0 .. Len(p) :
           /\ t = SubSeq(p, 1, n)
           /\ \A i \in 1 .. n : p[i] # Nul
           /\ n < Len(p) => p[n + 1] = Nul
  BY <1>4, StringProperties
<1> HIDE DEF t
<1>6. /\ t \in Seq(Bytes) /\ Len(t) = n
      /\ \A i \in 1 .. n : t[i] = p[i]
  <2>1. 1 \in Int /\ n \in Int /\ n >= 0 /\ n <= c
    BY <1>2, <1>4, <1>5
  <2>2. \A i \in 1 .. n : p[i] \in Bytes
    BY <1>2, <1>4, <2>1
  <2>3. /\ t \in Seq(Bytes) /\ Len(t) = IF 1 <= n THEN n - 1 + 1 ELSE 0
        /\ \A i \in 1 .. n - 1 + 1 : t[i] = p[1 + i - 1]
    BY <1>5, <2>1, <2>2, SubSeqProperties
  <2>4. \A i \in 1 .. n : i \in 1 .. n - 1 + 1 /\ 1 + i - 1 = i
    BY <2>1
  <2> QED
    BY <2>1, <2>3, <2>4
<1>7. n \in 0 .. c
  BY <1>4, <1>5
<1>8. \A i \in 1 .. n : t[i] = b[o + i] /\ b[o + i] # Nul
  BY <1>2, <1>4, <1>5, <1>6, <1>7
<1>9. n < c => b[o + n + 1] = Nul
  <2> SUFFICES ASSUME n < c PROVE b[o + n + 1] = Nul
    OBVIOUS
  <2>1. n + 1 \in 1 .. c /\ o + (n + 1) = o + n + 1
    BY <1>2, <1>7
  <2> QED
    BY <1>4, <1>5, <2>1
<1> QED
  BY <1>2, <1>4, <1>6, <1>7, <1>8, <1>9 DEF t, p, u

(* What is kept of a piece is what comes next in what is kept of the file. *)
LEMMA PieceKept ==
  ASSUME NEW b \in Seq(Bytes), NEW o \in Nat, BehindPieces(o), o < Len(b)
  PROVE  LET p == Piece(SubSeq(b, o + 1, Len(b)))
             t == String(p)
         IN  /\ KeptUpTo(b, o + Len(p)) = KeptUpTo(b, o) + Len(t)
             /\ \A i \in 1 .. Len(t) : t[i] = Kept(b)[KeptUpTo(b, o) + i]
             /\ BehindPieces(o + Len(p)) \/ o + Len(p) = Len(b)
<1> DEFINE p == Piece(SubSeq(b, o + 1, Len(b)))
           t == String(p)
           c == Len(p)
           n == Len(t)
           S == KeptPlaces(b)
<1>1. /\ c \in 1 .. ReadMax
      /\ o + c <= Len(b)
      /\ c < ReadMax => o + c = Len(b)
      /\ n \in 0 .. c
      /\ \A i \in 1 .. n : t[i] = b[o + i] /\ b[o + i] # Nul
      /\ n < c => b[o + n + 1] = Nul
  BY PieceProperties
<1> HIDE DEF p, t, c, n, S
<1>0. ReadMax \in Nat /\ ReadMax > 0 /\ c \in Nat /\ c <= ReadMax /\ n \in Nat /\ n <= c /\ Len(b) \in Nat
  <2>1. ReadMax \in Nat /\ ReadMax > 0 /\ Len(b) \in Nat
    BY MergeAssumption
  <2> QED
    BY <1>1, <2>1
<1>2. S \in SUBSET (1 .. Len(b))
  BY KeptProperties DEF S
<1>3. S \cap (o + 1 .. o + c) = o + 1 .. o + n
  <2>1. c <= ReadMax /\ (\A i \in 1 .. n : b[o + i] # Nul)
    BY <1>0, <1>1
  <2>2. c \in Nat /\ n \in Nat /\ n <= c /\ o + c <= Len(b) /\ (n < c => b[o + n + 1] = Nul)
    BY <1>0, <1>1
  <2>3. KeptPlaces(b) \cap (o + 1 .. o + c) = o + 1 .. o + n
    BY <2>1, <2>2, PiecePlaces
  <2> QED
    BY <2>3 DEF S
<1>r. ASSUME NEW x \in Nat, NEW m \in Nat, S \cap (x + 1 .. x + m) = x + 1 .. x + m
      PROVE  Rank(S, x + m) = Rank(S, x) + m
  <2> DEFINE N == Len(b)
  <2>1. N \in Nat /\ S \in SUBSET (1 .. N)
    BY <1>0, <1>2
  <2> HIDE DEF N
  <2> QED
    BY <1>r, <2>1, RankOfRun
<1>4. \A i \in 0 .. n : Rank(S, o + i) = Rank(S, o) + i
  <2> TAKE i \in 0 .. n
  <2>1. i \in Nat
    BY <1>0
  <2>2. S \cap (o + 1 .. o + i) = o + 1 .. o + i
    <3>1. o + 1 .. o + i \subseteq o + 1 .. o + n
      BY <1>0
    <3> QED
      BY <1>3, <3>1
  <2> QED
    BY <1>r, <2>1, <2>2
<1>5. Rank(S, o + c) = Rank(S, o + n)
  <2>1. S \cap (1 .. (o + c)) = S \cap (1 .. (o + n))
    <3>1. \A i \in S : i \in 1 .. (o + c) <=> i \in 1 .. (o + n)
      <4> TAKE i \in S
      <4>1. i \in Nat /\ n <= c
        BY <1>1, <1>2
      <4>2. i \in o + 1 .. o + c => i \in o + 1 .. o + n
        BY <1>3
      <4> QED
        BY <1>0, <4>1, <4>2
    <3> QED
      BY <3>1
  <2> QED
    BY <2>1 DEF Rank
<1>6. \A i \in 1 .. n : t[i] = Kept(b)[Rank(S, o) + i]
  <2> TAKE i \in 1 .. n
  <2>1. o + i \in S /\ i \in 0 .. n
    <3>1. o + i \in o + 1 .. o + n
      BY <1>0
    <3> QED
      BY <1>0, <1>3, <3>1
  <2>2. Kept(b)[Rank(S, o + i)] = b[o + i]
    BY <2>1, KeptProperties DEF S, KeptUpTo
  <2> QED
    BY <1>1, <1>4, <2>1, <2>2
<1>7. BehindPieces(o + c) \/ o + c = Len(b)
  <2>1. PICK q \in Nat : o = q * ReadMax
    BY DEF BehindPieces
  <2>2. (q + 1) * ReadMax = q * ReadMax + ReadMax /\ q + 1 \in Nat
    BY <1>0
  <2>3. c = ReadMax => o + c = (q + 1) * ReadMax
    BY <2>1, <2>2
  <2> QED
    <3>1. CASE c = ReadMax
      BY <2>2, <2>3, <3>1 DEF BehindPieces
    <3>2. CASE c # ReadMax
      BY <1>0, <1>1, <3>2
    <3> QED
      BY <3>1, <3>2
<1>8. n \in 0 .. n
  BY <1>0
<1> QED
  BY <1>4, <1>5, <1>6, <1>7, <1>8 DEF KeptUpTo, S, c, n, t, p

-----------------------------------------------------------------------------
(***************************************************************************)
(* The inductive invariant.                                                *)
(***************************************************************************)
(* How much of Merged has been read, and how much has had its turn to be   *)
(* written.                                                                *)
ReadSoFar ==
  IF mpc = "done" THEN Len(Merged)
  ELSE IF turn = 1 THEN KeptUpTo(Given(1), offset)
  ELSE Len(Contents(1)) + KeptUpTo(Given(2), offset)

Passed == ReadSoFar - Len(chunk)

(* The types, and what follows from where the program is. *)
ProgramInv ==
  /\ args \in [1 .. 3 -> Names] /\ before \in [Names -> Inputs] /\ file \in [Names -> Seq(Bytes)]
  /\ mpc \in {"start", "open", "read", "write", "done"}
  /\ fd3 \in BOOLEAN /\ failed \in BOOLEAN
  /\ turn \in 1 .. 2 /\ offset \in Nat /\ offset <= Len(file[Input])
  /\ chunk \in Seq(Bytes) /\ Len(chunk) <= ReadMax
  /\ \A n \in Names : n # Output => file[n] = before[n]
  /\ fd3 => mpc # "start" /\ Len(file[Output]) <= DiskRoom
  /\ ~fd3 => file[Output] = before[Output] /\ (failed \/ mpc = "start")
  /\ mpc = "start" => turn = 1
  /\ mpc = "done" => turn = 2
  /\ mpc \in {"start", "open", "done"} => offset = 0
  /\ mpc # "write" => chunk = << >>

(* The input that is read is not the output, or was emptied. *)
Steady == fd3 /\ (turn = 1 \/ args[2] # Output)

(* A read begins at a piece of the input, or at its end. *)
PieceInv ==
  Steady => /\ Input = Output => file[Output] = << >> /\ mpc # "write"
            /\ BehindPieces(offset) \/ offset = Len(Given(turn))

(* What is still to be written comes next in Merged, and what was written  *)
(* is picked from what was before it, or all of that.                      *)
OutputInv ==
  Steady => /\ Passed \in Nat
            /\ \A i \in 1 .. Len(chunk) : chunk[i] = Merged[Passed + i]
            /\ \E S \in SUBSET (1 .. Passed) : file[Output] = Picked(Merged, S)
            /\ ~failed => file[Output] = SubSeq(Merged, 1, Passed)

(* A file that is copied to its own end keeps that end ahead of the read.  *)
ChaseInv ==
  (fd3 /\ ~failed /\ turn = 2 /\ args[2] = Output /\ Contents(1) # << >>) =>
     /\ mpc # "done"
     /\ offset < Len(file[Output]) + Len(chunk)
     /\ \A i \in 1 .. Len(file[Output]) : file[Output][i] # Nul
     /\ \A i \in 1 .. Len(chunk) : chunk[i] # Nul

MergeInv == ProgramInv /\ PieceInv /\ OutputInv /\ ChaseInv

-----------------------------------------------------------------------------
(***************************************************************************)
(* Facts about a state.                                                    *)
(***************************************************************************)
LEMMA NameTypes ==
  ASSUME ProgramInv
  PROVE  /\ Output \in Names /\ Input \in Names /\ args[1] \in Names /\ args[2] \in Names
         /\ \A n \in Names : file[n] \in Seq(Bytes) /\ Len(file[n]) \in Nat
         /\ \A n \in Names : before[n] \in Seq(Bytes) /\ Len(before[n]) \in Nat
<1>1. /\ args \in [1 .. 3 -> Names] /\ turn \in 1 .. 2
      /\ before \in [Names -> Inputs] /\ file \in [Names -> Seq(Bytes)]
  BY DEF ProgramInv
<1>2. \A n \in Names : before[n] \in Seq(Bytes)
  BY <1>1, MergeAssumption
<1> QED
  BY <1>1, <1>2 DEF Output, Input

(* What the two inputs give, in terms of what is read of them.             *)
LEMMA MergedParts ==
  ASSUME ProgramInv
  PROVE  /\ \A k \in 1 .. 2 : /\ Given(k) \in Seq(Bytes) /\ Contents(k) = Kept(Given(k))
                              /\ Contents(k) \in Seq(Bytes) /\ Len(Contents(k)) \in Nat
         /\ Merged \in Seq(Bytes) /\ Len(Merged) = Len(Contents(1)) + Len(Contents(2))
         /\ \A i \in 1 .. Len(Contents(1)) : Merged[i] = Contents(1)[i]
         /\ \A i \in 1 .. Len(Contents(2)) : Merged[Len(Contents(1)) + i] = Contents(2)[i]
<1>3. \A k \in 1 .. 2 : args[k] \in Names
  BY NameTypes
<1>4. ASSUME NEW k \in 1 .. 2
      PROVE  /\ Given(k) \in Seq(Bytes) /\ Contents(k) = Kept(Given(k))
             /\ Contents(k) \in Seq(Bytes) /\ Len(Contents(k)) \in Nat
  <2>1. Given(k) \in Seq(Bytes) /\ Contents(k) = Kept(Given(k))
    BY <1>3, NameTypes DEF Given, Contents
  <2>2. Kept(Given(k)) \in Seq(Bytes)
    BY <2>1, KeptProperties
  <2> QED
    BY <2>1, <2>2
<1> DEFINE x == Contents(1)
           y == Contents(2)
<1>5. x \in Seq(Bytes) /\ Len(x) \in Nat /\ y \in Seq(Bytes) /\ Len(y) \in Nat
  BY <1>4
<1>6. Merged = x \o y
  BY DEF Merged
<1> HIDE DEF x, y
<1>7. /\ Merged \in Seq(Bytes) /\ Len(Merged) = Len(x) + Len(y)
      /\ \A i \in 1 .. Len(x) + Len(y) : Merged[i] = IF i <= Len(x) THEN x[i] ELSE y[i - Len(x)]
  BY <1>5, <1>6, ConcatProperties
<1>8. \A i \in 1 .. Len(x) : Merged[i] = x[i]
  BY <1>5, <1>7
<1>9. \A i \in 1 .. Len(y) : Merged[Len(x) + i] = y[i]
  <2> TAKE i \in 1 .. Len(y)
  <2>1. /\ Len(x) + i \in 1 .. Len(x) + Len(y)
        /\ ~(Len(x) + i <= Len(x))
        /\ Len(x) + i - Len(x) = i
    BY <1>5
  <2> QED
    BY <1>7, <2>1
<1> QED
  BY <1>4, <1>7, <1>8, <1>9 DEF x, y

(* What has been read is some of what there is.                            *)
LEMMA ReadBounds ==
  ASSUME ProgramInv
  PROVE  ReadSoFar \in Nat /\ ReadSoFar <= Len(Merged)
<1>1. /\ offset \in Nat /\ turn \in 1 .. 2
      /\ Len(Contents(1)) \in Nat /\ Len(Contents(2)) \in Nat
      /\ Len(Merged) = Len(Contents(1)) + Len(Contents(2))
  BY MergedParts DEF ProgramInv
<1>2. /\ KeptUpTo(Given(1), offset) \in 0 .. Len(Contents(1))
      /\ KeptUpTo(Given(2), offset) \in 0 .. Len(Contents(2))
  <2>1. ASSUME NEW k \in 1 .. 2 PROVE KeptUpTo(Given(k), offset) \in 0 .. Len(Contents(k))
    BY <1>1, <2>1, MergedParts, KeptProperties
  <2> QED
    BY <2>1
<1> QED
  BY <1>1, <1>2 DEF ReadSoFar

(* A steady input holds what it held when the program was started.         *)
LEMMA SteadyInput ==
  ASSUME ProgramInv, PieceInv, Steady
  PROVE  file[Input] = Given(turn)
<1>1. turn \in 1 .. 2 /\ Input \in Names /\ Input = args[turn]
  BY NameTypes DEF ProgramInv, Input
<1>2. CASE Input = Output
  BY <1>1, <1>2 DEF PieceInv, Given
<1>3. CASE Input # Output
  BY <1>1, <1>3 DEF ProgramInv, Given
<1> QED
  BY <1>2, <1>3

(* There is nothing more to read when everything has been.                 *)
LEMMA NothingUnread ==
  ASSUME ProgramInv
  PROVE  EndOfFile <=> offset = Len(file[Input])
<1> DEFINE b == file[Input]
<1>1. b \in Seq(Bytes) /\ Len(b) \in Nat /\ offset \in Nat /\ offset <= Len(b)
  BY NameTypes DEF ProgramInv
<1> HIDE DEF b
<1>2. offset + 1 \in Int /\ Len(b) \in Int /\ \A i \in offset + 1 .. Len(b) : b[i] \in Bytes
  BY <1>1
<1>3. Len(SubSeq(b, offset + 1, Len(b))) = IF offset + 1 <= Len(b) THEN Len(b) - (offset + 1) + 1 ELSE 0
  BY <1>2, SubSeqProperties
<1>4. CASE offset = Len(b)
  <2>1. SubSeq(b, offset + 1, Len(b)) = << >>
    BY <1>1, <1>2, <1>4, SubSeqEmpty
  <2> QED
    BY <1>4, <2>1 DEF EndOfFile, Unread, b
<1>5. CASE offset # Len(b)
  <2> DEFINE u == SubSeq(b, offset + 1, Len(b))
  <2>1. Len(u) > 0
    BY <1>1, <1>3, <1>5
  <2> HIDE DEF u
  <2>2. u # << >>
    BY <2>1
  <2> USE DEF u
  <2>3. SubSeq(b, offset + 1, Len(b)) # << >>
    BY <2>2
  <2> QED
    BY <1>5, <2>3 DEF EndOfFile, Unread, b
<1> QED
  BY <1>4, <1>5

(* What a read gets and keeps of the input. *)
LEMMA ReadPieceProperties ==
  ASSUME ProgramInv, ReadPiece
  PROVE  LET p == Piece(Unread)
         IN  /\ mpc = "read" /\ offset < Len(file[Input])
             /\ offset' = offset + Len(p) /\ Len(p) \in 1 .. ReadMax /\ offset' <= Len(file[Input])
             /\ chunk' = String(p) /\ chunk' \in Seq(Bytes) /\ Len(chunk') \in 0 .. Len(p)
             /\ \A i \in 1 .. Len(chunk') :
                  chunk'[i] = file[Input][offset + i] /\ file[Input][offset + i] # Nul
             /\ Len(chunk') < Len(p) => file[Input][offset + Len(chunk') + 1] = Nul
<1> DEFINE b == file[Input]
<1>1. b \in Seq(Bytes) /\ Len(b) \in Nat /\ offset \in Nat /\ offset <= Len(b)
  BY NameTypes DEF ProgramInv
<1>2. offset # Len(b) /\ mpc = "read"
  BY NothingUnread DEF ReadPiece
<1>3. offset < Len(b)
  BY <1>1, <1>2
<1>4. Unread = SubSeq(b, offset + 1, Len(b))
  BY DEF Unread
<1>5. offset' = offset + Len(Piece(Unread)) /\ chunk' = String(Piece(Unread))
  BY DEF ReadPiece
<1> HIDE DEF b
<1>6. /\ Len(Piece(Unread)) \in 1 .. ReadMax
      /\ offset + Len(Piece(Unread)) <= Len(b)
      /\ chunk' \in Seq(Bytes) /\ Len(chunk') \in 0 .. Len(Piece(Unread))
      /\ \A i \in 1 .. Len(chunk') : chunk'[i] = b[offset + i] /\ b[offset + i] # Nul
      /\ Len(chunk') < Len(Piece(Unread)) => b[offset + Len(chunk') + 1] = Nul
  BY <1>1, <1>3, <1>4, <1>5, PieceProperties
<1> QED
  BY <1>2, <1>3, <1>5, <1>6 DEF b

(* What a write does: n bytes of the chunk go to the end of the output.    *)
LEMMA WriteSomeProperties ==
  ASSUME ProgramInv, WriteSome
  PROVE  \E n \in 0 .. Len(chunk) :
           /\ fd3 /\ mpc = "write" /\ mpc' \in {"read", "write"}
           /\ UNCHANGED <<args, before, fd3, turn, offset, failed>>
           /\ file' = [file EXCEPT ![Output] = file[Output] \o SubSeq(chunk, 1, n)]
           /\ SubSeq(chunk, 1, n) \in Seq(Bytes) /\ Len(SubSeq(chunk, 1, n)) = n
           /\ \A i \in 1 .. n : SubSeq(chunk, 1, n)[i] = chunk[i]
           /\ file'[Output] = file[Output] \o SubSeq(chunk, 1, n)
           /\ file'[Output] \in Seq(Bytes)
           /\ Len(file'[Output]) = Len(file[Output]) + n
           /\ Len(file'[Output]) <= DiskRoom
           /\ \A i \in 1 .. Len(file[Output]) : file'[Output][i] = file[Output][i]
           /\ \A i \in 1 .. n : file'[Output][Len(file[Output]) + i] = chunk[i]
           /\ chunk' \in Seq(Bytes) /\ Len(chunk') = Len(chunk) - n
           /\ \A i \in 1 .. Len(chunk) - n : chunk'[i] = chunk[n + i]
           /\ mpc' # "write" => chunk' = << >>
<1> DEFINE out == file[Output]
<1>1. /\ chunk \in Seq(Bytes) /\ Len(chunk) \in Nat
      /\ out \in Seq(Bytes) /\ Len(out) \in Nat
      /\ Output \in Names /\ file \in [Names -> Seq(Bytes)] /\ DiskRoom \in Nat
  BY NameTypes, MergeAssumption DEF ProgramInv
<1>2. PICK n \in (IF chunk = << >> THEN {0} ELSE 1 .. Len(chunk)) :
           /\ Len(out) + n <= DiskRoom
           /\ file' = [file EXCEPT ![Output] = @ \o SubSeq(chunk, 1, n)]
           /\ chunk' = Rest(n)
           /\ mpc' = IF n = Len(chunk) THEN "read" ELSE "write"
  BY DEF WriteSome
<1>3. n \in 0 .. Len(chunk) /\ n \in Nat /\ n \in Int
  BY <1>1, <1>2
<1> DEFINE t == SubSeq(chunk, 1, n)
<1>4. /\ t \in Seq(Bytes) /\ Len(t) = n
      /\ \A i \in 1 .. n : t[i] = chunk[i]
  <2>1. \A i \in 1 .. n : chunk[i] \in Bytes
    BY <1>1, <1>3
  <2>2. /\ t \in Seq(Bytes) /\ Len(t) = IF 1 <= n THEN n - 1 + 1 ELSE 0
        /\ \A i \in 1 .. n - 1 + 1 : t[i] = chunk[1 + i - 1]
    BY <1>3, <2>1, SubSeqProperties, 1 \in Int
  <2>3. \A i \in 1 .. n : i \in 1 .. n - 1 + 1 /\ 1 + i - 1 = i
    BY <1>3
  <2> QED
    BY <1>3, <2>2, <2>3
<1>5. file' = [file EXCEPT ![Output] = out \o t] /\ file'[Output] = out \o t
  BY <1>1, <1>2
<1>6. /\ chunk' \in Seq(Bytes) /\ Len(chunk') = Len(chunk) - n
      /\ \A i \in 1 .. Len(chunk) - n : chunk'[i] = chunk[n + i]
  <2>1. n + 1 \in Int /\ Len(chunk) \in Int /\ \A i \in n + 1 .. Len(chunk) : chunk[i] \in Bytes
    BY <1>1, <1>3
  <2>2. chunk' = SubSeq(chunk, n + 1, Len(chunk))
    BY <1>2 DEF Rest
  <2>3. /\ chunk' \in Seq(Bytes)
        /\ Len(chunk') = IF n + 1 <= Len(chunk) THEN Len(chunk) - (n + 1) + 1 ELSE 0
        /\ \A i \in 1 .. Len(chunk) - (n + 1) + 1 : chunk'[i] = chunk[n + 1 + i - 1]
    BY <2>1, <2>2, SubSeqProperties
  <2>4. \A i \in 1 .. Len(chunk) - n :
          i \in 1 .. Len(chunk) - (n + 1) + 1 /\ n + 1 + i - 1 = n + i
    BY <1>1, <1>3
  <2> QED
    BY <1>1, <1>3, <2>3, <2>4
<1> HIDE DEF t, out
<1>7. /\ out \o t \in Seq(Bytes) /\ Len(out \o t) = Len(out) + n
      /\ \A i \in 1 .. Len(out) + n : (out \o t)[i] = IF i <= Len(out) THEN out[i] ELSE t[i - Len(out)]
  BY <1>1, <1>4, ConcatProperties
<1>8. /\ \A i \in 1 .. Len(out) : (out \o t)[i] = out[i]
      /\ \A i \in 1 .. n : (out \o t)[Len(out) + i] = chunk[i]
  <2>1. \A i \in 1 .. Len(out) : (out \o t)[i] = out[i]
    BY <1>1, <1>3, <1>7
  <2>2. ASSUME NEW i \in 1 .. n PROVE (out \o t)[Len(out) + i] = chunk[i]
    <3>1. /\ Len(out) + i \in 1 .. Len(out) + n /\ ~(Len(out) + i <= Len(out))
          /\ Len(out) + i - Len(out) = i
      BY <1>1, <1>3
    <3> QED
      BY <1>4, <1>7, <3>1
  <2> QED
    BY <2>1, <2>2
<1>9. mpc' # "write" => chunk' = << >>
  <2>1. n = Len(chunk) => Len(chunk') = 0
    BY <1>1, <1>6
  <2>2. Len(chunk') = 0 => chunk' = << >>
    BY <1>6, EmptySeq
  <2> QED
    BY <1>2, <2>1, <2>2
<1>10. /\ fd3 /\ mpc = "write" /\ mpc' \in {"read", "write"}
       /\ UNCHANGED <<args, before, fd3, turn, offset, failed>>
  BY <1>2 DEF WriteSome
<1> QED
  BY <1>2, <1>3, <1>4, <1>5, <1>6, <1>7, <1>8, <1>9, <1>10 DEF t, out

-----------------------------------------------------------------------------
(***************************************************************************)
(* Every step keeps the invariant.                                         *)
(***************************************************************************)
(* The step to the second input, or to the end. *)
LEMMA NextInputProgram ==
  ASSUME ProgramInv, NextInput, UNCHANGED <<args, before, file, fd3>>,
         mpc \in {"open", "read"}, failed' \in {failed, TRUE}
  PROVE  ProgramInv'
<1>1. turn \in 1 .. 2 /\ args[2] \in Names /\ Len(file[args[2]]) \in Nat
  BY NameTypes DEF ProgramInv
<1>2. turn' = 2 /\ offset' = 0 /\ chunk' = << >> /\ mpc' = IF turn = 1 THEN "open" ELSE "done"
  BY DEF NextInput
<1>3. Input' = args[2] /\ Output' = Output
  BY <1>2 DEF Input, Output
<1>4. << >> \in Seq(Bytes) /\ Len(<< >>) = 0 /\ ReadMax \in Nat
  BY MergeAssumption
<1>5. failed' \in BOOLEAN /\ (failed => failed')
  BY DEF ProgramInv
<1>6. /\ file'[Output'] = file[Output] /\ before'[Output'] = before[Output] /\ fd3' = fd3
      /\ \A n \in Names : n # Output' => file'[n] = before'[n]
  BY <1>3 DEF ProgramInv
<1>7. mpc' \in {"start", "open", "read", "write", "done"} /\ mpc' # "start" /\ mpc' # "write"
  BY <1>2
<1>8. /\ turn' \in 1 .. 2 /\ offset' \in Nat /\ offset' <= Len(file'[Input'])
      /\ chunk' \in Seq(Bytes) /\ Len(chunk') <= ReadMax
  BY <1>1, <1>2, <1>3, <1>4
<1>9. /\ args' \in [1 .. 3 -> Names] /\ before' \in [Names -> Inputs]
      /\ file' \in [Names -> Seq(Bytes)] /\ fd3' \in BOOLEAN
  BY DEF ProgramInv
<1>10. /\ fd3' => Len(file'[Output']) <= DiskRoom
       /\ ~fd3' => file'[Output'] = before'[Output'] /\ failed'
  BY <1>5, <1>6 DEF ProgramInv
<1> QED
  BY <1>2, <1>5, <1>6, <1>7, <1>8, <1>9, <1>10 DEF ProgramInv

LEMMA StepProgram == ProgramInv /\ [MergeNext]_mergeVars => ProgramInv'
<1> SUFFICES ASSUME ProgramInv, [MergeNext]_mergeVars PROVE ProgramInv'
  OBVIOUS
<1>1. /\ Output \in Names /\ Input \in Names
      /\ \A n \in Names : file[n] \in Seq(Bytes) /\ Len(file[n]) \in Nat
  BY NameTypes
<1>2. ReadMax \in Nat /\ DiskRoom \in Nat /\ << >> \in Seq(Bytes) /\ Len(<< >>) = 0
  BY MergeAssumption
<1>3. CASE OpenOutput
  <2>1. /\ mpc = "start" /\ mpc' = "open" /\ offset = 0
        /\ UNCHANGED <<args, before, turn, offset, chunk>>
    BY <1>3 DEF OpenOutput, ProgramInv
  <2>2. Input' = Input /\ Output' = Output
    BY <2>1 DEF Input, Output
  <2>3. CASE fd3' = TRUE /\ file' = [file EXCEPT ![Output] = << >>] /\ UNCHANGED failed
    <3>1. file' \in [Names -> Seq(Bytes)] /\ file'[Output] = << >>
      BY <1>1, <1>2, <2>3 DEF ProgramInv
    <3>2. Len(file'[Input]) \in Nat
      BY <1>1, <3>1
    <3>3. \A n \in Names : n # Output => file'[n] = before'[n]
      BY <1>1, <2>1, <2>3 DEF ProgramInv
    <3> QED
      BY <1>2, <2>1, <2>2, <2>3, <3>1, <3>2, <3>3 DEF ProgramInv
  <2>4. CASE failed' = TRUE /\ UNCHANGED <<fd3, file>>
    BY <1>1, <2>1, <2>2, <2>4 DEF ProgramInv
  <2> QED
    BY <1>3, <2>3, <2>4 DEF OpenOutput
<1>4. CASE OpenInput
  <2>1. mpc = "open" /\ UNCHANGED <<args, before, file, fd3>>
    BY <1>4 DEF OpenInput
  <2>2. CASE mpc' = "read" /\ UNCHANGED <<turn, offset, chunk, failed>>
    BY <2>1, <2>2 DEF ProgramInv, Input, Output
  <2>3. CASE failed' = TRUE /\ NextInput
    BY <2>1, <2>3, NextInputProgram
  <2> QED
    BY <1>4, <2>2, <2>3 DEF OpenInput
<1>5. CASE ReadPiece
  <2>1. /\ UNCHANGED <<args, before, file, fd3, turn, failed>> /\ mpc' = "write"
    BY <1>5 DEF ReadPiece
  <2>2. Input' = Input /\ Output' = Output
    BY <2>1 DEF Input, Output
  <2>3. /\ mpc = "read" /\ offset' <= Len(file[Input]) /\ offset' \in Nat
        /\ chunk' \in Seq(Bytes) /\ Len(chunk') <= ReadMax
    <3>1. offset \in Nat
      BY DEF ProgramInv
    <3> DEFINE m == Len(Piece(Unread))
    <3>2. /\ mpc = "read" /\ offset' = offset + m /\ m \in 1 .. ReadMax
          /\ offset' <= Len(file[Input]) /\ chunk' \in Seq(Bytes) /\ Len(chunk') \in 0 .. m
      BY <1>5, ReadPieceProperties
    <3> HIDE DEF m
    <3> QED
      BY <1>2, <3>1, <3>2
  <2> QED
    BY <2>1, <2>2, <2>3 DEF ProgramInv
<1>6. CASE ReadEnd
  BY <1>6, NextInputProgram DEF ReadEnd
<1>7. CASE ReadFails
  BY <1>7, NextInputProgram DEF ReadFails
<1>8. CASE WriteSome
  <2>1. PICK n \in 0 .. Len(chunk) :
           /\ fd3 /\ mpc = "write" /\ mpc' \in {"read", "write"}
           /\ UNCHANGED <<args, before, fd3, turn, offset, failed>>
           /\ file' = [file EXCEPT ![Output] = file[Output] \o SubSeq(chunk, 1, n)]
           /\ file'[Output] \in Seq(Bytes)
           /\ Len(file'[Output]) = Len(file[Output]) + n
           /\ Len(file'[Output]) <= DiskRoom
           /\ chunk' \in Seq(Bytes) /\ Len(chunk') = Len(chunk) - n
           /\ mpc' # "write" => chunk' = << >>
    BY <1>8, WriteSomeProperties
  <2>2. Input' = Input /\ Output' = Output
    BY <2>1 DEF Input, Output
  <2>3. file[Output] \o SubSeq(chunk, 1, n) = file'[Output]
    BY <1>1, <2>1 DEF ProgramInv
  <2>4. file' \in [Names -> Seq(Bytes)] /\ \A x \in Names : x # Output => file'[x] = before[x]
    BY <1>1, <2>1, <2>3 DEF ProgramInv
  <2>5. offset \in Nat /\ offset <= Len(file'[Input])
    <3>1. offset \in Nat /\ offset <= Len(file[Input]) /\ n \in Nat
      BY <2>1 DEF ProgramInv
    <3>2. CASE Input = Output
      BY <1>1, <2>1, <3>1, <3>2
    <3>3. CASE Input # Output
      BY <1>1, <2>4, <3>1, <3>3 DEF ProgramInv
    <3> QED
      BY <3>2, <3>3
  <2>6. Len(chunk') <= ReadMax
    <3>1. Len(chunk) \in Nat /\ Len(chunk) <= ReadMax
      BY DEF ProgramInv
    <3> QED
      BY <1>2, <2>1, <3>1
  <2> QED
    BY <2>1, <2>2, <2>4, <2>5, <2>6 DEF ProgramInv
<1>9. CASE WriteError
  BY <1>2, <1>9 DEF WriteError, ProgramInv, Input, Output
<1>10. CASE UNCHANGED mergeVars
  BY <1>10 DEF mergeVars, ProgramInv, Input, Output
<1> QED
  BY <1>3, <1>4, <1>5, <1>6, <1>7, <1>8, <1>9, <1>10 DEF MergeNext

(* Neither the names nor what was there before change. *)
LEMMA SameSources ==
  ASSUME UNCHANGED <<args, before>>
  PROVE  /\ Output' = Output /\ Merged' = Merged
         /\ \A k \in 1 .. 2 : Given(k)' = Given(k) /\ Contents(k)' = Contents(k)
BY DEF Output, Merged, Given, Contents

LEMMA StepPiece ==
  ASSUME ProgramInv, PieceInv, [MergeNext]_mergeVars PROVE PieceInv'
<1>1. ASSUME UNCHANGED <<args, before, file, fd3, turn, offset>>, mpc' # "write"
      PROVE  PieceInv'
  BY <1>1 DEF PieceInv, Steady, Given, Input, Output
<1>2. ASSUME UNCHANGED <<args, before, file, fd3>>, NextInput PROVE PieceInv'
  <2>1. turn' = 2 /\ offset' = 0 /\ 0 = 0 * ReadMax
    BY <1>2, MergeAssumption DEF NextInput
  <2>2. BehindPieces(offset')
    BY <2>1 DEF BehindPieces
  <2>3. Steady' => args[2] # Output
    BY <1>2, <2>1 DEF Steady, Output
  <2>4. Input' = args[2] /\ Output' = Output
    BY <1>2, <2>1 DEF Input, Output
  <2> QED
    BY <2>2, <2>3, <2>4 DEF PieceInv
<1>3. CASE OpenOutput
  <2>1. /\ UNCHANGED <<args, before, turn, offset>> /\ offset = 0 /\ turn = 1 /\ mpc' = "open"
        /\ ~fd3
    BY <1>3 DEF OpenOutput, ProgramInv
  <2>2. offset' = 0 * ReadMax
    BY <2>1, MergeAssumption
  <2>3. BehindPieces(offset')
    BY <2>2 DEF BehindPieces
  <2>4. fd3' => file'[Output] = << >>
    BY <1>3, <2>1, NameTypes DEF OpenOutput, ProgramInv
  <2>5. Output' = Output
    BY <2>1 DEF Output
  <2> QED
    BY <2>1, <2>3, <2>4, <2>5 DEF PieceInv, Steady
<1>4. CASE OpenInput
  BY <1>1, <1>2, <1>4 DEF OpenInput
<1>5. CASE ReadPiece
  <2>1. UNCHANGED <<args, before, file, fd3, turn, failed>>
    BY <1>5 DEF ReadPiece
  <2>2. Input' = Input /\ Output' = Output /\ Steady' = Steady /\ Given(turn)' = Given(turn)
    BY <2>1 DEF Input, Output, Steady, Given
  <2> SUFFICES ASSUME Steady
               PROVE  /\ Input # Output
                      /\ BehindPieces(offset') \/ offset' = Len(Given(turn))
    BY <2>2 DEF PieceInv
  <2> DEFINE b == file[Input]
             m == Len(Piece(Unread))
  <2>3. b = Given(turn) /\ b \in Seq(Bytes) /\ offset \in Nat /\ Len(b) \in Nat
    BY SteadyInput, NameTypes DEF ProgramInv
  <2>4. offset < Len(b) /\ offset' = offset + m
    BY <1>5, ReadPieceProperties
  <2>5. Input # Output
    <3>1. b # << >>
      BY <2>3, <2>4
    <3> QED
      BY <3>1 DEF PieceInv
  <2>6. BehindPieces(offset)
    BY <2>3, <2>4 DEF PieceInv
  <2>7. Unread = SubSeq(b, offset + 1, Len(b))
    BY DEF Unread
  <2> HIDE DEF b
  <2>8. BehindPieces(offset + m) \/ offset + m = Len(b)
    BY <2>3, <2>4, <2>6, <2>7, PieceKept
  <2> QED
    BY <2>3, <2>4, <2>5, <2>8
<1>6. CASE ReadEnd
  BY <1>2, <1>6 DEF ReadEnd
<1>7. CASE ReadFails
  BY <1>2, <1>7 DEF ReadFails
<1>8. CASE WriteSome
  <2>1. mpc = "write" /\ UNCHANGED <<args, before, fd3, turn, offset>>
    BY <1>8 DEF WriteSome
  <2>2. Input' = Input /\ Output' = Output /\ Steady' = Steady /\ Given(turn)' = Given(turn)
    BY <2>1 DEF Input, Output, Steady, Given
  <2> QED
    BY <2>1, <2>2 DEF PieceInv
<1>9. CASE WriteError
  BY <1>1, <1>9 DEF WriteError
<1>10. CASE UNCHANGED mergeVars
  BY <1>10 DEF mergeVars, PieceInv, Steady, Given, Input, Output
<1> QED
  BY <1>3, <1>4, <1>5, <1>6, <1>7, <1>8, <1>9, <1>10 DEF MergeNext

(* Steps that write nothing and have nothing left to write.                *)
LEMMA OutputKept ==
  ASSUME ProgramInv, OutputInv, Steady' => Steady,
         UNCHANGED <<args, before, file>>, chunk' = << >>,
         ReadSoFar' \in Nat, ReadSoFar <= ReadSoFar',
         ~failed' => ~failed /\ ReadSoFar' = Passed
  PROVE  OutputInv'
<1>1. Output' = Output /\ Merged' = Merged
  BY SameSources
<1>2. ReadSoFar \in Nat /\ ReadSoFar' \in Nat
  BY ReadBounds
<1>3. Len(chunk) \in Nat
  BY DEF ProgramInv
<1>4. Passed' = ReadSoFar' /\ Passed <= ReadSoFar'
  <2>1. Len(chunk') = 0
    OBVIOUS
  <2>2. Passed' = ReadSoFar' - 0
    BY <2>1 DEF Passed
  <2>3. Passed <= ReadSoFar
    BY <1>2, <1>3 DEF Passed
  <2>4. Passed \in Int
    BY <1>2, <1>3 DEF Passed
  <2> DEFINE r == ReadSoFar'
             q == Passed'
             x == ReadSoFar
             y == Passed
  <2>5. r \in Nat /\ x \in Nat /\ x <= r /\ q = r - 0 /\ y <= x /\ y \in Int
    BY <1>2, <2>2, <2>3, <2>4
  <2> HIDE DEF r, q, x, y
  <2>6. q = r /\ y <= r
    BY <2>5
  <2> QED
    BY <2>6 DEF q, r, y
<1> SUFFICES ASSUME Steady
             PROVE  /\ Passed' \in Nat
                    /\ \A i \in 1 .. Len(chunk') : chunk'[i] = Merged'[Passed' + i]
                    /\ \E S \in SUBSET (1 .. Passed') : file'[Output'] = Picked(Merged', S)
                    /\ ~failed' => file'[Output'] = SubSeq(Merged', 1, Passed')
  BY DEF OutputInv
<1>5. PICK S \in SUBSET (1 .. Passed) : Passed \in Nat /\ file[Output] = Picked(Merged, S)
  BY DEF OutputInv
<1>6. S \in SUBSET (1 .. Passed')
  BY <1>2, <1>4, <1>5
<1>7. ~failed' => file[Output] = SubSeq(Merged, 1, Passed')
  BY <1>4 DEF OutputInv
<1> QED
  BY <1>1, <1>2, <1>4, <1>5, <1>6, <1>7

(* What has been read when the program goes on to the next input. *)
LEMMA NextInputRead ==
  ASSUME ProgramInv, UNCHANGED <<args, before>>, NextInput, mpc # "done"
  PROVE  /\ ReadSoFar' \in Nat /\ ReadSoFar <= ReadSoFar'
         /\ offset = Len(Given(turn)) => ReadSoFar' = ReadSoFar
<1>1. /\ turn' = 2 /\ offset' = 0 /\ mpc' = IF turn = 1 THEN "open" ELSE "done"
  BY DEF NextInput
<1>2. /\ Merged' = Merged /\ Contents(1)' = Contents(1) /\ Given(2)' = Given(2)
  BY SameSources
<1>3. /\ offset \in Nat /\ turn \in 1 .. 2
      /\ Given(1) \in Seq(Bytes) /\ Given(2) \in Seq(Bytes)
      /\ Contents(1) = Kept(Given(1)) /\ Contents(2) = Kept(Given(2))
      /\ Len(Contents(1)) \in Nat /\ Len(Contents(2)) \in Nat
      /\ Len(Merged) = Len(Contents(1)) + Len(Contents(2))
  BY MergedParts DEF ProgramInv
<1>4. ASSUME NEW k \in 1 .. 2
      PROVE  /\ KeptUpTo(Given(k), offset) \in 0 .. Len(Contents(k))
             /\ KeptUpTo(Given(k), 0) = 0
             /\ KeptUpTo(Given(k), Len(Given(k))) = Len(Contents(k))
  <2> DEFINE b == Given(k)
  <2>1. b \in Seq(Bytes) /\ Contents(k) = Kept(b)
    BY <1>3
  <2> HIDE DEF b
  <2>2. /\ KeptUpTo(b, offset) \in 0 .. Len(Kept(b)) /\ KeptUpTo(b, 0) = 0
        /\ KeptUpTo(b, Len(b)) = Len(Kept(b))
    BY <1>3, <2>1, KeptProperties
  <2> QED
    BY <2>1, <2>2 DEF b
<1>5. CASE turn = 1
  <2>1. ReadSoFar = KeptUpTo(Given(1), offset)
    BY <1>5 DEF ReadSoFar
  <2>2. ReadSoFar' = Len(Contents(1)) + KeptUpTo(Given(2), 0)
    BY <1>1, <1>2, <1>5 DEF ReadSoFar
  <2>3. ReadSoFar' = Len(Contents(1))
    BY <1>3, <1>4, <2>2
  <2> QED
    BY <1>3, <1>4, <1>5, <2>1, <2>3
<1>6. CASE turn # 1
  <2>1. turn = 2
    BY <1>3, <1>6
  <2>2. ReadSoFar = Len(Contents(1)) + KeptUpTo(Given(2), offset)
    BY <2>1 DEF ReadSoFar
  <2>3. ReadSoFar' = Len(Merged)
    BY <1>1, <1>2, <2>1 DEF ReadSoFar
  <2> QED
    BY <1>3, <1>4, <2>1, <2>2, <2>3
<1> QED
  BY <1>5, <1>6

(* A read adds to what has been read as much as it keeps, and keeps what   *)
(* comes next.                                                             *)
LEMMA ReadPieceRead ==
  ASSUME ProgramInv, PieceInv, Steady, ReadPiece
  PROVE  /\ ReadSoFar' = ReadSoFar + Len(chunk')
         /\ \A i \in 1 .. Len(chunk') : chunk'[i] = Merged[ReadSoFar + i]
<1> DEFINE b == Given(turn)
           p == Piece(Unread)
<1>1. /\ UNCHANGED <<args, before, turn>> /\ mpc' = "write" /\ mpc = "read"
  BY DEF ReadPiece
<1>2. /\ Merged' = Merged /\ Contents(1)' = Contents(1)
      /\ Given(1)' = Given(1) /\ Given(2)' = Given(2)
  BY <1>1, SameSources
<1>3. turn \in 1 .. 2 /\ offset \in Nat
  BY DEF ProgramInv
<1>4. /\ b \in Seq(Bytes) /\ Len(b) \in Nat /\ Contents(turn) = Kept(b)
      /\ Len(Contents(1)) \in Nat /\ Len(Contents(2)) \in Nat
  BY <1>3, MergedParts
<1>5. file[Input] = b
  BY SteadyInput
<1>6. /\ offset < Len(b) /\ offset' = offset + Len(p) /\ chunk' = String(p)
      /\ Len(chunk') \in 0 .. Len(p) /\ Len(p) \in 1 .. ReadMax
  BY <1>5, ReadPieceProperties
<1>7. BehindPieces(offset)
  BY <1>3, <1>4, <1>6 DEF PieceInv
<1>8. p = Piece(SubSeq(b, offset + 1, Len(b)))
  BY <1>5 DEF Unread
<1> DEFINE c == KeptUpTo(b, offset)
           n == Len(chunk')
<1>9. /\ KeptUpTo(b, offset') = c + n
      /\ \A i \in 1 .. n : chunk'[i] = Kept(b)[c + i]
  <2> HIDE DEF b, p
  <2> QED
    BY <1>3, <1>4, <1>6, <1>7, <1>8, PieceKept
<1>10. n \in Nat /\ c \in Nat /\ c + n <= Len(Contents(turn))
  <2>1. n \in Nat /\ offset' \in Nat
    BY <1>3, <1>6
  <2> HIDE DEF n, b
  <2>2. c \in 0 .. Len(Kept(b)) /\ KeptUpTo(b, offset') \in 0 .. Len(Kept(b))
    BY <1>3, <1>4, <2>1, KeptProperties
  <2> QED
    BY <1>4, <1>9, <2>1, <2>2
<1> HIDE DEF n, c
<1>11. CASE turn = 1
  <2>1. ReadSoFar = c /\ ReadSoFar' = KeptUpTo(b, offset')
    BY <1>1, <1>2, <1>11 DEF ReadSoFar, c
  <2>2. \A i \in 1 .. n : c + i \in 1 .. Len(Contents(1))
    BY <1>4, <1>10, <1>11
  <2>3. \A i \in 1 .. n : chunk'[i] = Merged[c + i]
    BY <1>4, <1>9, <1>11, <2>2, MergedParts
  <2> QED
    BY <1>9, <2>1, <2>3 DEF n
<1>12. CASE turn = 2
  <2>1. ReadSoFar = Len(Contents(1)) + c /\ ReadSoFar' = Len(Contents(1)) + KeptUpTo(b, offset')
    BY <1>1, <1>2, <1>12 DEF ReadSoFar, c
  <2>2. \A i \in 1 .. n : /\ c + i \in 1 .. Len(Contents(2))
                          /\ Len(Contents(1)) + c + i = Len(Contents(1)) + (c + i)
    BY <1>4, <1>10, <1>12
  <2>3. \A i \in 1 .. n : chunk'[i] = Merged[Len(Contents(1)) + c + i]
    BY <1>4, <1>9, <1>12, <2>2, MergedParts
  <2>4. Len(Contents(1)) + (c + n) = Len(Contents(1)) + c + n
    BY <1>4, <1>10
  <2> QED
    BY <1>9, <2>1, <2>3, <2>4 DEF n
<1> QED
  BY <1>3, <1>11, <1>12

LEMMA StepOutput ==
  ASSUME ProgramInv, PieceInv, OutputInv, [MergeNext]_mergeVars PROVE OutputInv'
<1>1. ReadSoFar \in Nat /\ ReadSoFar <= Len(Merged) /\ Len(Merged) \in Nat
  BY ReadBounds, MergedParts
<1>2. chunk \in Seq(Bytes) /\ Len(chunk) \in Nat
  BY DEF ProgramInv
<1>3. ASSUME UNCHANGED <<args, before, file, fd3>>, NextInput, mpc \in {"open", "read"},
             ~failed' => ~failed /\ EndOfFile
      PROVE  OutputInv'
  <2>1. chunk' = << >> /\ turn' = 2 /\ turn \in 1 .. 2 /\ chunk = << >>
    BY <1>3 DEF NextInput, ProgramInv
  <2>2. Steady' => Steady
    BY <1>3, <2>1 DEF Steady, Output
  <2>3. CASE ~Steady
    BY <2>2, <2>3 DEF OutputInv
  <2>4. CASE Steady
    <3>1. /\ ReadSoFar' \in Nat /\ ReadSoFar <= ReadSoFar'
          /\ offset = Len(Given(turn)) => ReadSoFar' = ReadSoFar
      BY <1>3, NextInputRead
    <3>2. ~failed' => ~failed /\ offset = Len(Given(turn))
      BY <1>3, <2>4, NothingUnread, SteadyInput
    <3>3. Len(<< >>) = 0
      OBVIOUS
    <3>4. Passed = ReadSoFar
      BY <1>1, <2>1, <3>3 DEF Passed
    <3> QED
      BY <1>3, <2>1, <2>2, <3>1, <3>2, <3>4, OutputKept
  <2> QED
    BY <2>3, <2>4
<1>4. CASE OpenOutput
  <2>1. /\ UNCHANGED <<args, before, turn, offset, chunk>> /\ offset = 0 /\ turn = 1
        /\ mpc' = "open" /\ chunk = << >>
    BY <1>4 DEF OpenOutput, ProgramInv
  <2>2. /\ Output' = Output /\ Merged' = Merged /\ Given(1)' = Given(1)
    BY <2>1, SameSources
  <2> SUFFICES ASSUME Steady'
               PROVE  /\ Passed' \in Nat
                      /\ \A i \in 1 .. Len(chunk') : chunk'[i] = Merged'[Passed' + i]
                      /\ \E S \in SUBSET (1 .. Passed') : file'[Output'] = Picked(Merged', S)
                      /\ ~failed' => file'[Output'] = SubSeq(Merged', 1, Passed')
    BY DEF OutputInv
  <2>3. ReadSoFar' = 0
    <3>1. KeptUpTo(Given(1), 0) = 0
      BY MergedParts, KeptProperties
    <3> QED
      BY <2>1, <2>2, <3>1 DEF ReadSoFar
  <2>4. Len(chunk') = 0
    BY <2>1
  <2>5. Passed' = 0
    BY <2>3, <2>4 DEF Passed
  <2>6. file'[Output] = << >>
    <3>1. fd3' /\ ~fd3
      BY <1>4 DEF Steady, OpenOutput, ProgramInv
    <3> QED
      BY <1>4, <3>1, NameTypes DEF OpenOutput, ProgramInv
  <2>7. Picked(Merged, {}) = << >>
    <3>1. Cardinality({}) = 0
      BY FS_EmptySet
    <3>2. Merged \in Seq(Bytes) /\ {} \in SUBSET (1 .. Len(Merged))
      BY MergedParts
    <3>3. Picked(Merged, {}) \in Seq(Bytes) /\ Len(Picked(Merged, {})) = 0
      BY <3>1, <3>2, PickedProperties
    <3> QED
      BY <3>3, EmptySeq
  <2>8. SubSeq(Merged, 1, 0) = << >>
    BY SubSeqEmpty, 1 \in Int, 0 \in Int
  <2>9. {} \in SUBSET (1 .. Passed')
    OBVIOUS
  <2>10. \A i \in 1 .. Len(chunk') : FALSE
    BY <2>4
  <2> QED
    BY <2>2, <2>5, <2>6, <2>7, <2>8, <2>9, <2>10
<1>5. CASE OpenInput
  <2>1. mpc = "open" /\ UNCHANGED <<args, before, file, fd3>>
    BY <1>5 DEF OpenInput
  <2>2. CASE mpc' = "read" /\ UNCHANGED <<turn, offset, chunk, failed>>
    <3>1. ReadSoFar' = ReadSoFar
      BY <2>1, <2>2, SameSources DEF ReadSoFar
    <3>2. Passed' = Passed /\ Output' = Output /\ Merged' = Merged /\ Steady' = Steady
      BY <2>1, <2>2, <3>1, SameSources DEF Passed, Steady
    <3> QED
      BY <2>1, <2>2, <3>2 DEF OutputInv
  <2>3. CASE failed' = TRUE /\ NextInput
    BY <1>3, <2>1, <2>3
  <2> QED
    BY <1>5, <2>2, <2>3 DEF OpenInput
<1>6. CASE ReadPiece
  <2>1. /\ UNCHANGED <<args, before, file, fd3, turn, failed>> /\ mpc' = "write"
        /\ mpc = "read" /\ chunk = << >>
    BY <1>6 DEF ReadPiece, ProgramInv
  <2>2. Output' = Output /\ Merged' = Merged /\ Steady' = Steady
    BY <2>1, SameSources DEF Steady
  <2> SUFFICES ASSUME Steady PROVE OutputInv'
    BY <2>2 DEF OutputInv
  <2> DEFINE n == Len(chunk')
  <2>3. ReadSoFar' = ReadSoFar + n /\ \A i \in 1 .. n : chunk'[i] = Merged[ReadSoFar + i]
    BY <1>6, ReadPieceRead
  <2>4. n \in Nat
    <3>1. chunk' \in Seq(Bytes)
      BY <1>6, ReadPieceProperties
    <3> QED
      BY <3>1
  <2>5. Len(chunk) = 0
    BY <2>1
  <2>6. Passed = ReadSoFar
    BY <1>1, <2>5 DEF Passed
  <2>7. Passed' = ReadSoFar' - n
    BY DEF Passed
  <2> HIDE DEF n
  <2>8. Passed' = Passed /\ \A i \in 1 .. n : chunk'[i] = Merged[Passed + i]
    BY <1>1, <2>3, <2>4, <2>6, <2>7
  <2> QED
    BY <2>1, <2>2, <2>8 DEF OutputInv, n
<1>7. CASE ReadEnd
  BY <1>3, <1>7 DEF ReadEnd
<1>8. CASE ReadFails
  BY <1>3, <1>8 DEF ReadFails
<1>9. CASE WriteSome
  <2>1. PICK n \in 0 .. Len(chunk) :
           /\ fd3 /\ mpc = "write" /\ mpc' \in {"read", "write"}
           /\ UNCHANGED <<args, before, fd3, turn, offset, failed>>
           /\ SubSeq(chunk, 1, n) \in Seq(Bytes) /\ Len(SubSeq(chunk, 1, n)) = n
           /\ \A i \in 1 .. n : SubSeq(chunk, 1, n)[i] = chunk[i]
           /\ file'[Output] = file[Output] \o SubSeq(chunk, 1, n)
           /\ chunk' \in Seq(Bytes) /\ Len(chunk') = Len(chunk) - n
           /\ \A i \in 1 .. Len(chunk) - n : chunk'[i] = chunk[n + i]
    BY <1>9, WriteSomeProperties
  <2>2. Output' = Output /\ Merged' = Merged /\ Steady' = Steady
    BY <2>1, SameSources DEF Steady
  <2> SUFFICES ASSUME Steady
               PROVE  /\ Passed' \in Nat
                      /\ \A i \in 1 .. Len(chunk') : chunk'[i] = Merged[Passed' + i]
                      /\ \E S \in SUBSET (1 .. Passed') : file'[Output] = Picked(Merged, S)
                      /\ ~failed => file'[Output] = SubSeq(Merged, 1, Passed')
    BY <2>1, <2>2 DEF OutputInv
  <2>3. ReadSoFar' = ReadSoFar
    BY <2>1, SameSources DEF ReadSoFar
  <2> DEFINE a == Passed
             t == SubSeq(chunk, 1, n)
  <2>4. /\ a \in Nat /\ a = ReadSoFar - Len(chunk) /\ n \in Nat /\ n <= Len(chunk)
        /\ \A i \in 1 .. Len(chunk) : chunk[i] = Merged[a + i]
    BY <1>2, <2>1 DEF OutputInv, Passed
  <2>5. Passed' = a + n
    <3>1. Passed' = ReadSoFar' - Len(chunk')
      BY DEF Passed
    <3> HIDE DEF a
    <3> QED
      BY <1>1, <1>2, <2>1, <2>3, <2>4, <3>1
  <2>6. PICK S \in SUBSET (1 .. a) : file[Output] = Picked(Merged, S)
    BY DEF OutputInv
  <2>7. ~failed => file[Output] = SubSeq(Merged, 1, a)
    BY DEF OutputInv
  <2> HIDE DEF a
  <2>8. a + n \in Nat /\ a + n <= Len(Merged) /\ a <= Len(Merged)
    BY <1>1, <1>2, <2>4
  <2>9. Merged \in Seq(Bytes)
    BY MergedParts
  <2> DEFINE M == Merged
             u == SubSeq(M, a + 1, a + n)
  <2>c. M \in Seq(Bytes) /\ a \in Nat /\ n \in Nat /\ a + n <= Len(M)
    BY <2>4, <2>8, <2>9
  <2>10. t = u
    <3> HIDE DEF M
    <3>1. u \in Seq(Bytes) /\ Len(u) = n /\ \A i \in 1 .. n : u[i] = M[a + i]
      BY <2>c, SubSeqBehind
    <3>2. \A i \in 1 .. n : t[i] = M[a + i]
      BY <1>2, <2>1, <2>4 DEF M
    <3> HIDE DEF t, u
    <3>3. \A i \in 1 .. Len(t) : t[i] = u[i]
      BY <2>1, <3>1, <3>2 DEF t
    <3> QED
      BY <2>1, <3>1, <3>3, SeqEqual DEF t
  <2> HIDE DEF t, u, M
  <2>11. file'[Output] = file[Output] \o u
    BY <2>1, <2>10 DEF t
  <2>12. \E U \in SUBSET (1 .. a + n) : file'[Output] = Picked(M, U)
    <3>1. \A T \in SUBSET (1 .. a) :
            /\ T \cup (a + 1 .. a + n) \in SUBSET (1 .. a + n)
            /\ Picked(M, T \cup (a + 1 .. a + n)) = Picked(M, T) \o SubSeq(M, a + 1, a + n)
      BY <2>c, PickedGrows
    <3>2. /\ S \cup (a + 1 .. a + n) \in SUBSET (1 .. a + n)
          /\ Picked(M, S \cup (a + 1 .. a + n)) = file[Output] \o SubSeq(M, a + 1, a + n)
      BY <2>6, <3>1 DEF M
    <3> QED
      BY <2>11, <3>2 DEF u
  <2>13. ~failed => file'[Output] = SubSeq(M, 1, a + n)
    <3>1. /\ 1 \in 1 .. Len(M) + 1 /\ a \in 1 - 1 .. Len(M) /\ a + n \in a .. Len(M)
      BY <1>1, <2>4, <2>8 DEF M
    <3>2. SubSeq(M, 1, a) \o SubSeq(M, a + 1, a + n) = SubSeq(M, 1, a + n)
      BY <2>9, <3>1, ConcatAdjacentSubSeq DEF M
    <3> QED
      BY <2>7, <2>11, <3>2 DEF M, u
  <2>14. \A i \in 1 .. Len(chunk') : chunk'[i] = M[a + n + i]
    <3> TAKE i \in 1 .. Len(chunk')
    <3>1. /\ i \in 1 .. Len(chunk) - n /\ n + i \in 1 .. Len(chunk)
          /\ a + (n + i) = a + n + i
      BY <1>2, <2>1, <2>4
    <3>2. chunk'[i] = chunk[n + i]
      BY <2>1, <3>1
    <3> QED
      BY <2>4, <3>1, <3>2 DEF M
  <2> QED
    BY <2>5, <2>8, <2>12, <2>13, <2>14 DEF M
<1>10. CASE WriteError
  <2>1. /\ UNCHANGED <<args, before, file, fd3, turn, offset>> /\ mpc = "write" /\ mpc' = "read"
        /\ chunk' = << >> /\ failed' = TRUE
    BY <1>10 DEF WriteError
  <2>2. ReadSoFar' = ReadSoFar
    BY <2>1, SameSources DEF ReadSoFar
  <2>3. Steady' => Steady
    BY <2>1 DEF Steady, Output
  <2> QED
    BY <1>1, <2>1, <2>2, <2>3, OutputKept
<1>11. CASE UNCHANGED mergeVars
  <2>1. ReadSoFar' = ReadSoFar /\ Output' = Output /\ Merged' = Merged /\ Steady' = Steady
    BY <1>11, SameSources DEF mergeVars, ReadSoFar, Steady
  <2>2. Passed' = Passed
    BY <1>11, <2>1 DEF mergeVars, Passed
  <2> QED
    BY <1>11, <2>1, <2>2 DEF mergeVars, OutputInv
<1> QED
  BY <1>4, <1>5, <1>6, <1>7, <1>8, <1>9, <1>10, <1>11 DEF MergeNext

LEMMA StepChase ==
  ASSUME ProgramInv, PieceInv, OutputInv, ChaseInv, [MergeNext]_mergeVars PROVE ChaseInv'
<1>1. /\ Output \in Names /\ file[Output] \in Seq(Bytes) /\ Len(file[Output]) \in Nat
      /\ chunk \in Seq(Bytes) /\ Len(chunk) \in Nat /\ turn \in 1 .. 2 /\ offset \in Nat
  BY NameTypes DEF ProgramInv
<1>2. ASSUME UNCHANGED <<args, before, file, fd3, failed>>, ReadEnd PROVE ChaseInv'
  <2>1. /\ turn' = 2 /\ offset' = 0 /\ chunk' = << >> /\ mpc' = IF turn = 1 THEN "open" ELSE "done"
        /\ mpc = "read" /\ EndOfFile /\ chunk = << >>
    BY <1>2 DEF ReadEnd, NextInput, ProgramInv
  <2>2. Output' = Output /\ Contents(1)' = Contents(1)
    BY <1>2, SameSources
  <2> SUFFICES ASSUME fd3, ~failed, args[2] = Output, Contents(1) # << >>
               PROVE  /\ mpc' # "done"
                      /\ 0 < Len(file[Output]) + Len(chunk')
                      /\ \A i \in 1 .. Len(file[Output]) : file[Output][i] # Nul
                      /\ \A i \in 1 .. Len(chunk') : chunk'[i] # Nul
    BY <1>2, <2>1, <2>2 DEF ChaseInv
  <2>3. Len(chunk) = 0 /\ Len(chunk') = 0
    BY <2>1
  <2>4. turn = 1
    <3>1. CASE turn = 2
      <4>1. Input = Output
        BY <3>1 DEF Input
      <4>2. offset = Len(file[Output])
        BY <2>1, <4>1, NothingUnread
      <4>3. offset < Len(file[Output]) + Len(chunk)
        BY <3>1 DEF ChaseInv
      <4> QED
        BY <1>1, <2>3, <4>2, <4>3
    <3> QED
      BY <1>1, <3>1
  <2> DEFINE C == Contents(1)
  <2>5. /\ C \in Seq(Bytes) /\ Len(C) \in Nat /\ C = Kept(Given(1))
        /\ Given(1) \in Seq(Bytes) /\ Merged \in Seq(Bytes)
        /\ Len(Merged) = Len(C) + Len(Contents(2)) /\ Len(Contents(2)) \in Nat
        /\ \A i \in 1 .. Len(C) : Merged[i] = C[i]
    BY MergedParts
  <2>6. Steady
    BY <2>4 DEF Steady
  <2>7. offset = Len(Given(1))
    BY <2>1, <2>4, <2>6, NothingUnread, SteadyInput
  <2>8. \A k \in 1 .. Len(C) : C[k] # Nul
    BY <2>5, KeptProperties
  <2>9. KeptUpTo(Given(1), offset) = Len(C)
    BY <2>5, <2>7, KeptProperties
  <2>10. Passed = Len(C)
    <3>1. ReadSoFar = Len(C)
      BY <2>1, <2>4, <2>9 DEF ReadSoFar
    <3> QED
      BY <2>3, <2>5, <3>1 DEF Passed
  <2>11. file[Output] = SubSeq(Merged, 1, Len(C))
    BY <2>6, <2>10 DEF OutputInv
  <2>12. Len(C) > 0
    <3> HIDE DEF C
    <3>1. Len(C) = 0 => C = << >>
      BY <2>5, EmptySeq
    <3> QED
      BY <2>5, <3>1 DEF C
  <2> HIDE DEF C
  <2>13. /\ Len(SubSeq(Merged, 0 + 1, 0 + Len(C))) = Len(C)
         /\ \A i \in 1 .. Len(C) : SubSeq(Merged, 0 + 1, 0 + Len(C))[i] = Merged[0 + i]
    <3>1. 0 \in Nat /\ 0 + Len(C) <= Len(Merged)
      BY <2>5
    <3> QED
      BY <2>5, <3>1, SubSeqBehind
  <2>14. SubSeq(Merged, 0 + 1, 0 + Len(C)) = file[Output]
    BY <2>5, <2>11
  <2>15. Len(file[Output]) = Len(C) /\ \A i \in 1 .. Len(C) : file[Output][i] = Merged[0 + i]
    BY <2>13, <2>14
  <2>16. \A i \in 1 .. Len(C) : file[Output][i] # Nul
    BY <2>5, <2>8, <2>15
  <2> QED
    BY <2>1, <2>3, <2>4, <2>12, <2>15, <2>16
<1>3. ASSUME failed' = TRUE PROVE ChaseInv'
  BY <1>3 DEF ChaseInv
<1>4. CASE OpenOutput
  <2>1. turn' = 1
    BY <1>4 DEF OpenOutput, ProgramInv
  <2> QED
    BY <2>1 DEF ChaseInv
<1>5. CASE OpenInput
  <2>1. CASE /\ mpc' = "read" /\ UNCHANGED <<args, before, file, fd3, turn, offset, chunk, failed>>
    BY <2>1, SameSources DEF ChaseInv
  <2> QED
    BY <1>3, <1>5, <2>1 DEF OpenInput
<1>6. CASE ReadPiece
  <2>1. /\ UNCHANGED <<args, before, file, fd3, turn, failed>> /\ mpc' = "write"
        /\ mpc = "read" /\ chunk = << >>
    BY <1>6 DEF ReadPiece, ProgramInv
  <2>2. Output' = Output /\ Contents(1)' = Contents(1)
    BY <2>1, SameSources
  <2> DEFINE out == file[Output]
             m == Len(Piece(Unread))
             n == Len(chunk')
  <2> SUFFICES ASSUME fd3, ~failed, turn = 2, args[2] = Output, Contents(1) # << >>
               PROVE  /\ offset' < Len(out) + n
                      /\ \A i \in 1 .. Len(out) : out[i] # Nul
                      /\ \A i \in 1 .. n : chunk'[i] # Nul
    BY <2>1, <2>2 DEF ChaseInv
  <2>3. \A i \in 1 .. Len(out) : out[i] # Nul
    BY DEF ChaseInv
  <2>4. Input = Output
    BY DEF Input
  <2>5. /\ offset < Len(out) /\ offset' = offset + m /\ m \in 1 .. ReadMax /\ offset' <= Len(out)
        /\ n \in 0 .. m
        /\ \A i \in 1 .. n : chunk'[i] = out[offset + i] /\ out[offset + i] # Nul
        /\ n < m => out[offset + n + 1] = Nul
    BY <1>6, <2>4, ReadPieceProperties
  <2> HIDE DEF out, m, n
  <2>6. m \in Nat /\ n \in Nat /\ n <= m /\ m > 0 /\ Len(out) \in Nat /\ ReadMax \in Nat
    BY <1>1, <2>5, MergeAssumption DEF out
  <2>7. n = m
    <3>1. CASE n < m
      <4>1. offset + n + 1 \in 1 .. Len(out)
        BY <1>1, <2>5, <2>6, <3>1
      <4> QED
        BY <2>3, <2>5, <3>1, <4>1
    <3> QED
      BY <2>6, <3>1
  <2> QED
    BY <1>1, <2>3, <2>5, <2>6, <2>7
<1>7. CASE ReadEnd
  BY <1>2, <1>7 DEF ReadEnd
<1>8. CASE ReadFails
  BY <1>3, <1>8 DEF ReadFails
<1>9. CASE WriteSome
  <2>1. PICK n \in 0 .. Len(chunk) :
           /\ mpc' \in {"read", "write"}
           /\ UNCHANGED <<args, before, fd3, turn, offset, failed>>
           /\ Len(file'[Output]) = Len(file[Output]) + n
           /\ \A i \in 1 .. Len(file[Output]) : file'[Output][i] = file[Output][i]
           /\ \A i \in 1 .. n : file'[Output][Len(file[Output]) + i] = chunk[i]
           /\ Len(chunk') = Len(chunk) - n
           /\ \A i \in 1 .. Len(chunk) - n : chunk'[i] = chunk[n + i]
    BY <1>9, WriteSomeProperties
  <2>2. Output' = Output /\ Contents(1)' = Contents(1)
    BY <2>1, SameSources
  <2> DEFINE out == file[Output]
             new == file'[Output]
  <2> SUFFICES ASSUME fd3, ~failed, turn = 2, args[2] = Output, Contents(1) # << >>
               PROVE  /\ offset < Len(new) + Len(chunk')
                      /\ \A i \in 1 .. Len(new) : new[i] # Nul
                      /\ \A i \in 1 .. Len(chunk') : chunk'[i] # Nul
    BY <2>1, <2>2 DEF ChaseInv
  <2>3. /\ offset < Len(out) + Len(chunk)
        /\ \A i \in 1 .. Len(out) : out[i] # Nul
        /\ \A i \in 1 .. Len(chunk) : chunk[i] # Nul
    BY DEF ChaseInv
  <2>4. /\ Len(new) = Len(out) + n
        /\ \A i \in 1 .. Len(out) : new[i] = out[i]
        /\ \A i \in 1 .. n : new[Len(out) + i] = chunk[i]
    BY <2>1
  <2> HIDE DEF out, new
  <2>5. n \in Nat /\ n <= Len(chunk) /\ Len(out) \in Nat
    BY <1>1, <2>1 DEF out
  <2>6. ASSUME NEW i \in 1 .. Len(new) PROVE new[i] # Nul
    <3>1. CASE i <= Len(out)
      BY <2>3, <2>4, <2>5, <3>1
    <3>2. CASE i > Len(out)
      <4>1. /\ i - Len(out) \in 1 .. n /\ Len(out) + (i - Len(out)) = i
            /\ i - Len(out) \in 1 .. Len(chunk)
        BY <1>1, <2>4, <2>5, <3>2
      <4> QED
        BY <2>3, <2>4, <4>1
    <3> QED
      BY <2>4, <2>5, <3>1, <3>2
  <2>7. ASSUME NEW i \in 1 .. Len(chunk') PROVE chunk'[i] # Nul
    <3>1. i \in 1 .. Len(chunk) - n /\ n + i \in 1 .. Len(chunk)
      BY <1>1, <2>1, <2>5
    <3> QED
      BY <2>1, <2>3, <3>1
  <2>8. offset < Len(new) + Len(chunk')
    BY <1>1, <2>1, <2>3, <2>4, <2>5
  <2> QED
    BY <2>6, <2>7, <2>8
<1>10. CASE WriteError
  BY <1>3, <1>10 DEF WriteError
<1>11. CASE UNCHANGED mergeVars
  BY <1>11, SameSources DEF mergeVars, ChaseInv
<1> QED
  BY <1>4, <1>5, <1>6, <1>7, <1>8, <1>9, <1>10, <1>11 DEF MergeNext

LEMMA InitInv == MergeInit => MergeInv
<1> SUFFICES ASSUME MergeInit PROVE MergeInv
  OBVIOUS
<1>1. /\ args \in [1 .. 3 -> Names] /\ before \in [Names -> Inputs] /\ file = before
      /\ mpc = "start" /\ fd3 = FALSE /\ turn = 1 /\ offset = 0 /\ chunk = << >> /\ failed = FALSE
  BY DEF MergeInit
<1>2. before \in [Names -> Seq(Bytes)] /\ ReadMax \in Nat /\ << >> \in Seq(Bytes) /\ Len(<< >>) = 0
  BY <1>1, MergeAssumption
<1>3. Input \in Names /\ Len(file[Input]) \in Nat
  BY <1>1, <1>2 DEF Input
<1>4. ProgramInv
  <2>1. /\ args \in [1 .. 3 -> Names] /\ before \in [Names -> Inputs]
        /\ file \in [Names -> Seq(Bytes)] /\ turn \in 1 .. 2 /\ offset \in Nat
    BY <1>1, <1>2
  <2>2. offset <= Len(file[Input]) /\ chunk \in Seq(Bytes) /\ Len(chunk) <= ReadMax
    BY <1>1, <1>2, <1>3
  <2>3. fd3 \in BOOLEAN /\ failed \in BOOLEAN /\ ~fd3
    BY <1>1
  <2> QED
    BY <1>1, <2>1, <2>2, <2>3 DEF ProgramInv
<1>5. PieceInv /\ OutputInv /\ ChaseInv
  BY <1>1 DEF PieceInv, OutputInv, ChaseInv, Steady
<1> QED
  BY <1>4, <1>5 DEF MergeInv

LEMMA StepMerge == MergeInv /\ [MergeNext]_mergeVars => MergeInv'
BY StepProgram, StepPiece, StepOutput, StepChase DEF MergeInv

LEMMA MergeTypesHold == MergeInv => MergeTypeOK
<1> SUFFICES ASSUME MergeInv PROVE MergeTypeOK
  OBVIOUS
<1>1. ProgramInv
  BY DEF MergeInv
<1>2. Len(file[Input]) \in Nat
  BY <1>1, NameTypes
<1>3. offset \in 0 .. Len(file[Input])
  BY <1>1, <1>2 DEF ProgramInv
<1> QED
  BY <1>1, <1>3 DEF ProgramInv, MergeTypeOK

(* The inductive invariant of the merge. *)
THEOREM MergeInvariance == MergeSpec => []MergeInv
BY InitInv, StepMerge, PTL DEF MergeSpec

(* What the variables of the program hold: no file but the output changes, *)
(* and no read goes beyond the end of its file.                            *)
THEOREM MergeTypes == MergeSpec => []MergeTypeOK
BY MergeInvariance, MergeTypesHold, PTL

(* What is picked from what the inputs give is picked from the inputs.     *)
LEMMA MergedEmbeds ==
  ASSUME ProgramInv
  PROVE  /\ BothInputs \in Seq(Bytes) /\ Merged \in Seq(Bytes)
         /\ Embeds(Merged, BothInputs)
<1>1. ASSUME NEW k \in 1 .. 2
      PROVE  /\ Given(k) \in Seq(Bytes) /\ Contents(k) \in Seq(Bytes)
             /\ Embeds(Contents(k), Given(k))
  <2>1. Given(k) \in Seq(Bytes) /\ Contents(k) \in Seq(Bytes) /\ Contents(k) = Kept(Given(k))
    BY MergedParts
  <2>2. KeptPlaces(Given(k)) \in SUBSET (1 .. Len(Given(k)))
    BY <2>1, KeptProperties
  <2>3. Embeds(Picked(Given(k), KeptPlaces(Given(k))), Given(k))
    BY <2>1, <2>2, PickedEmbeds
  <2> QED
    BY <2>1, <2>3 DEF Kept
<1>2. /\ Given(1) \in Seq(Bytes) /\ Contents(1) \in Seq(Bytes) /\ Embeds(Contents(1), Given(1))
      /\ Given(2) \in Seq(Bytes) /\ Contents(2) \in Seq(Bytes) /\ Embeds(Contents(2), Given(2))
  BY <1>1
<1>3. Embeds(Contents(1) \o Contents(2), Given(1) \o Given(2))
  BY <1>2, EmbedsConcat
<1> QED
  BY <1>2, <1>3 DEF BothInputs, Merged

(* Without a NUL the inputs give all they held.                            *)
LEMMA NulFreeMerged ==
  ASSUME ProgramInv, NulFree(BothInputs)
  PROVE  Contents(1) = Given(1) /\ Merged = BothInputs
<1> DEFINE x == Given(1)  y == Given(2)
<1>1. x \in Seq(Bytes) /\ y \in Seq(Bytes) /\ Contents(1) = Kept(x) /\ Contents(2) = Kept(y)
  BY MergedParts
<1>2. BothInputs = x \o y
  BY DEF BothInputs
<1> HIDE DEF x, y
<1>3. /\ Len(x) \in Nat /\ Len(y) \in Nat
      /\ BothInputs \in Seq(Bytes) /\ Len(BothInputs) = Len(x) + Len(y)
      /\ \A i \in 1 .. Len(x) + Len(y) :
           BothInputs[i] = IF i <= Len(x) THEN x[i] ELSE y[i - Len(x)]
  BY <1>1, <1>2, ConcatProperties
<1>4. \A i \in 1 .. Len(x) + Len(y) : BothInputs[i] # Nul
  BY <1>3 DEF NulFree
<1>5. NulFree(x)
  <2> SUFFICES ASSUME NEW i \in 1 .. Len(x) PROVE x[i] # Nul
    BY <1>1 DEF NulFree
  <2>1. i \in 1 .. Len(x) + Len(y) /\ i <= Len(x)
    BY <1>3
  <2> QED
    BY <1>3, <1>4, <2>1
<1>6. NulFree(y)
  <2> SUFFICES ASSUME NEW i \in 1 .. Len(y) PROVE y[i] # Nul
    BY <1>1 DEF NulFree
  <2>1. /\ Len(x) + i \in 1 .. Len(x) + Len(y) /\ ~(Len(x) + i <= Len(x))
        /\ Len(x) + i - Len(x) = i
    BY <1>3
  <2> QED
    BY <1>3, <1>4, <2>1
<1>7. Kept(x) = x /\ Kept(y) = y
  BY <1>1, <1>5, <1>6, NulFreeKept
<1>8. Contents(1) = x /\ Contents(2) = y
  BY <1>1, <1>7
<1>9. Merged = x \o y
  BY <1>8 DEF Merged
<1> QED
  BY <1>2, <1>8, <1>9 DEF x

(* As long as no call has failed, and if the inputs have no NUL, the       *)
(* output is the first input and then the second up to where the writes    *)
(* have come, and all of both at the end; a file that is copied to its own *)
(* end has no such end.  (write_file.c:14-25, dowrite.c:10-17)             *)
THEOREM OutputIsWhatWasRead == MergeSpec => []OutputAsRead
<1>1. MergeInv => OutputAsRead
  <2> SUFFICES ASSUME MergeInv, ~failed, mpc # "start", NulFree(BothInputs)
               PROVE  IF args[2] = Output THEN mpc = "done" => Given(1) = << >>
                      ELSE /\ Len(file[Output]) <= Len(BothInputs)
                           /\ file[Output] = SubSeq(BothInputs, 1, Len(file[Output]))
                           /\ mpc = "done" => file[Output] = BothInputs
    BY DEF OutputAsRead
  <2>1. ProgramInv /\ OutputInv /\ ChaseInv
    BY DEF MergeInv
  <2>0. Contents(1) = Given(1) /\ Merged = BothInputs
    BY <2>1, NulFreeMerged
  <2>2. fd3 /\ (mpc = "done" => turn = 2 /\ chunk = << >>)
    BY <2>1 DEF ProgramInv
  <2>3. CASE args[2] = Output
    BY <2>0, <2>1, <2>2, <2>3 DEF ChaseInv
  <2>4. CASE args[2] # Output
    <3>1. /\ Passed \in Nat /\ file[Output] = SubSeq(Merged, 1, Passed)
      BY <2>1, <2>2, <2>4 DEF OutputInv, Steady
    <3>2. ReadSoFar \in Nat /\ ReadSoFar <= Len(Merged) /\ Len(chunk) \in Nat
      BY <2>1, ReadBounds DEF ProgramInv
    <3>3. Passed <= Len(Merged)
      <4>1. Passed = ReadSoFar - Len(chunk) /\ Len(Merged) \in Nat
        BY <2>1, MergedParts DEF Passed
      <4> QED
        BY <3>2, <4>1
    <3>4. Merged \in Seq(Bytes) /\ Len(Merged) \in Nat
      BY <2>1, MergedParts
    <3> DEFINE P == Passed
    <3>5. P \in Nat /\ P <= Len(Merged) /\ file[Output] = SubSeq(Merged, 1, P)
      BY <3>1, <3>3
    <3> HIDE DEF P
    <3>6. Len(SubSeq(Merged, 0 + 1, 0 + P)) = P
      <4>1. 0 \in Nat /\ 0 + P <= Len(Merged)
        BY <3>5
      <4> QED
        BY <3>4, <3>5, <4>1, SubSeqBehind
    <3>7. Len(file[Output]) = P
      BY <3>5, <3>6
    <3>8. mpc = "done" => P = Len(Merged)
      <4>1. mpc = "done" => ReadSoFar = Len(Merged) /\ Len(chunk) = 0
        BY <2>2 DEF ReadSoFar
      <4> QED
        BY <3>4, <4>1 DEF P, Passed
    <3>9. SubSeq(Merged, 1, Len(Merged)) = Merged
      BY <3>4, SubSeqFull
    <3> QED
      BY <2>0, <2>4, <3>5, <3>7, <3>8, <3>9
  <2> QED
    BY <2>3, <2>4
<1> QED
  BY <1>1, MergeInvariance, PTL

(* Whatever fails, and whatever the bytes are, the output is picked from   *)
(* the two inputs: nothing is written twice or out of order.               *)
(* (dowrite.c:12-15, write_file.c:18-23)                                   *)
THEOREM ErrorsOnlyLeaveGaps == MergeSpec => []GapsOnly
<1>1. MergeInv => GapsOnly
  <2> SUFFICES ASSUME MergeInv, fd3, args[2] # Output
               PROVE  \E S \in SUBSET DOMAIN BothInputs : file[Output] = Picked(BothInputs, S)
    BY DEF GapsOnly
  <2>1. ProgramInv /\ OutputInv /\ Steady
    BY DEF MergeInv, Steady
  <2>2. PICK S \in SUBSET (1 .. Passed) : file[Output] = Picked(Merged, S)
    BY <2>1 DEF OutputInv
  <2>3. Merged \in Seq(Bytes) /\ Len(Merged) \in Nat
    BY <2>1, MergedParts
  <2>4. Passed \in Nat /\ Passed <= Len(Merged)
    <3>1. ReadSoFar \in Nat /\ ReadSoFar <= Len(Merged) /\ Len(chunk) \in Nat
      BY <2>1, ReadBounds DEF ProgramInv
    <3>2. Passed = ReadSoFar - Len(chunk) /\ Passed \in Nat
      BY <2>1 DEF Passed, OutputInv
    <3> QED
      BY <2>3, <3>1, <3>2
  <2>5. S \in SUBSET (1 .. Len(Merged))
    BY <2>3, <2>4
  <2>6. /\ BothInputs \in Seq(Bytes) /\ Merged \in Seq(Bytes)
        /\ Embeds(Merged, BothInputs)
    BY <2>1, MergedEmbeds
  <2>7. file[Output] \in Seq(Bytes) /\ Embeds(file[Output], Merged)
    BY <2>2, <2>5, <2>6, PickedProperties, PickedEmbeds
  <2>8. Embeds(file[Output], BothInputs)
    BY <2>6, <2>7, EmbedsTransitive
  <2>9. PICK U \in SUBSET (1 .. Len(BothInputs)) : file[Output] = Picked(BothInputs, U)
    BY <2>6, <2>7, <2>8, EmbedsPicked
  <2>10. U \in SUBSET DOMAIN BothInputs
    BY <2>6
  <2> QED
    BY <2>9, <2>10
<1> QED
  BY <1>1, MergeInvariance, PTL
=============================================================================
