------------------------ MODULE LunixProtocolProofs ------------------------
(***************************************************************************)
(* The protocol state machine stays inside its buffer and, on a quiet      *)
(* line, the sensors are told of each measurement once, for any packets,   *)
(* any cuts and any number of terminals.                                   *)
(***************************************************************************)
EXTENDS LunixProtocol, SequenceTheorems, FiniteSetTheorems, WellFoundedInduction, TLAPS

(* What the parser is typed by and where it is in its buffer. *)
ParserInv == ProtocolTypeOK /\ PacketPlace

USE DEF MAX_PACKET_LEN, MAX_ITER, SEEKING_START_BYTE, SEEKING_DESTINATION_ADDRESS,
        SEEKING_PAYLOAD_LENGTH, SEEKING_PAYLOAD, SEEKING_CRC, SEEKING_END_BYTE

(* Toggling the bit gives a byte. *)
LEMMA FlipByte == \A b \in Byte : Flip(b) \in Byte
  BY DEF Byte, Flip

-----------------------------------------------------------------------------
(* A set of numbers that is not empty has a least one. *)
LEMMA LeastNumber ==
  ASSUME NEW T \in SUBSET Nat, T # {}
  PROVE  \E m \in T : \A y \in T : m <= y
<1> DEFINE R == {ss \in Nat \X Nat : ss[1] < ss[2]}
<1>1. IsWellFoundedOn(R, Nat)
  BY NatLessThanWellFounded DEF OpToRel
<1>2. PICK m \in T : \A y \in T : ~(<<y, m>> \in R)
  BY <1>1, WFMin
<1>3. ASSUME NEW y \in T PROVE m <= y
  <2>1. m \in Nat /\ y \in Nat
    OBVIOUS
  <2>2. y < m => <<y, m>> \in R
    BY <2>1
  <2> HIDE DEF R
  <2> QED
    BY <1>2, <2>1, <2>2
<1> QED
  BY <1>3

(* A byte takes one place on the line, or two if it is stuffed.            *)
LEMMA BeginsStep ==
  ASSUME NEW p \in Seq(Byte), NEW k \in Nat
  PROVE  /\ Begins(p, k) \in Nat /\ Begins(p, k) >= k
         /\ Begins(p, k + 1) = Begins(p, k) + IF k \in Special(p) THEN 2 ELSE 1
<1> DEFINE S(n) == {j \in Special(p) : j < n}
<1>1. Len(p) \in Nat
  BY LenProperties
<1>2. IsFiniteSet(Special(p)) /\ Special(p) \in SUBSET Nat
  <2>1. IsFiniteSet(3 .. Len(p) - 1) /\ Special(p) \in SUBSET (3 .. Len(p) - 1)
    BY <1>1, FS_Interval DEF Special
  <2> QED
    BY <1>1, <2>1, FS_Subset
<1>3. IsFiniteSet(S(k)) /\ Cardinality(S(k)) \in Nat
  BY <1>2, FS_Subset, FS_CardinalityType
<1>4. S(k + 1) = S(k) \cup (IF k \in Special(p) THEN {k} ELSE {}) /\ k \notin S(k)
  BY <1>2
<1>5. Cardinality(S(k + 1)) = Cardinality(S(k)) + IF k \in Special(p) THEN 1 ELSE 0
  <2>1. CASE k \in Special(p)
    <3>1. S(k + 1) = S(k) \cup {k} /\ k \notin S(k)
      BY <1>4, <2>1
    <3> HIDE DEF S
    <3> QED
      BY <1>3, <2>1, <3>1, FS_AddElement
  <2>2. CASE k \notin Special(p)
    <3>1. S(k + 1) = S(k)
      BY <1>4, <2>2
    <3> HIDE DEF S
    <3> QED
      BY <1>3, <2>2, <3>1
  <2> QED
    BY <2>1, <2>2
<1>6. Begins(p, k) = k + Cardinality(S(k)) /\ Begins(p, k + 1) = k + 1 + Cardinality(S(k + 1))
  BY DEF Begins
<1> HIDE DEF S
<1> QED
  BY <1>3, <1>5, <1>6

LEMMA BeginsAtOne ==
  ASSUME NEW p \in Seq(Byte)
  PROVE  Begins(p, 1) = 1 /\ Begins(p, Len(p) + 1) \in Nat \ {0}
<1>1. Len(p) \in Nat
  BY LenProperties
<1> DEFINE S == {j \in Special(p) : j < 1}
<1>2. S = {}
  BY <1>1 DEF Special
<1>3. Begins(p, 1) = 1
  <2>1. Begins(p, 1) = 1 + Cardinality(S)
    BY DEF Begins
  <2> HIDE DEF S
  <2> QED
    BY <1>2, <2>1, FS_EmptySet
<1>4. Begins(p, Len(p) + 1) \in Nat /\ Begins(p, Len(p) + 1) >= Len(p) + 1
  BY <1>1, BeginsStep
<1> QED
  BY <1>1, <1>3, <1>4

(* A later byte begins later. *)
LEMMA BeginsLater ==
  ASSUME NEW p \in Seq(Byte), NEW j \in Nat, NEW k \in Nat, j < k
  PROVE  Begins(p, j) < Begins(p, k)
<1> DEFINE S(n) == {i \in Special(p) : i < n}
<1>1. IsFiniteSet(Special(p)) /\ Special(p) \in SUBSET Nat
  <2>1. Len(p) \in Nat
    BY LenProperties
  <2>2. IsFiniteSet(3 .. Len(p) - 1) /\ Special(p) \in SUBSET (3 .. Len(p) - 1)
    BY <2>1, FS_Interval DEF Special
  <2> QED
    BY <2>1, <2>2, FS_Subset
<1>2. IsFiniteSet(S(k)) /\ S(j) \in SUBSET S(k)
  BY <1>1, FS_Subset
<1>3. Cardinality(S(j)) <= Cardinality(S(k)) /\ Cardinality(S(j)) \in Nat /\ Cardinality(S(k)) \in Nat
  <2> HIDE DEF S
  <2> QED
    BY <1>2, FS_Subset, FS_CardinalityType
<1>4. Begins(p, j) = j + Cardinality(S(j)) /\ Begins(p, k) = k + Cardinality(S(k))
  BY DEF Begins
<1> HIDE DEF S
<1> QED
  BY <1>3, <1>4

(* Every place on the line is of one byte.                                 *)
LEMMA OnLineOf ==
  ASSUME NEW p \in Seq(Byte), NEW k \in DOMAIN p, NEW i \in Nat,
         Begins(p, k) <= i, i < Begins(p, k + 1)
  PROVE  OnLine(p, i) = IF k \notin Special(p) THEN p[k]
                        ELSE IF i = Begins(p, k) THEN Escape ELSE Flip(p[k])
<1>1. DOMAIN p = 1 .. Len(p) /\ Len(p) \in Nat
  BY LenProperties
<1>2. ASSUME NEW n \in DOMAIN p, Begins(p, n) <= i, i < Begins(p, n + 1)
      PROVE  n = k
  <2>1. /\ n \in Nat /\ k \in Nat /\ n + 1 \in Nat /\ k + 1 \in Nat
        /\ Begins(p, n) \in Nat /\ Begins(p, k) \in Nat
        /\ Begins(p, n + 1) \in Nat /\ Begins(p, k + 1) \in Nat
    <3>1. n \in Nat /\ k \in Nat /\ n + 1 \in Nat /\ k + 1 \in Nat
      BY <1>1
    <3> QED
      BY <3>1, BeginsStep
  <2>2. ~ n < k
    <3> SUFFICES ASSUME n < k PROVE FALSE
      OBVIOUS
    <3>1. n + 1 = k => Begins(p, n + 1) = Begins(p, k)
      OBVIOUS
    <3>2. n + 1 < k => Begins(p, n + 1) < Begins(p, k)
      BY <2>1, BeginsLater
    <3> QED
      BY <1>2, <2>1, <3>1, <3>2
  <2>3. ~ k < n
    <3> SUFFICES ASSUME k < n PROVE FALSE
      OBVIOUS
    <3>1. k + 1 = n => Begins(p, k + 1) = Begins(p, n)
      OBVIOUS
    <3>2. k + 1 < n => Begins(p, k + 1) < Begins(p, n)
      BY <2>1, BeginsLater
    <3> QED
      BY <1>2, <2>1, <3>1, <3>2
  <2> QED
    BY <2>1, <2>2, <2>3
<1>3. (CHOOSE n \in DOMAIN p : Begins(p, n) <= i /\ i < Begins(p, n + 1)) = k
  BY <1>2
<1> QED
  BY <1>3 DEF OnLine

(* On the line there are only bytes. *)
LEMMA FrameType ==
  ASSUME NEW p \in Packets
  PROVE  /\ p \in Seq(Byte) /\ Frame[p] \in Seq(Byte) /\ Len(Frame[p]) = Begins(p, Len(p) + 1) - 1
         /\ \A i \in 1 .. Len(Frame[p]) : Frame[p][i] = OnLine(p, i)
<1> DEFINE n == Begins(p, Len(p) + 1) - 1
<1>1. p \in Seq(Byte) /\ Len(p) \in Nat /\ DOMAIN p = 1 .. Len(p)
  BY PacketAssumption, LenProperties
<1>2. n \in Nat
  BY <1>1, BeginsAtOne
<1>3. ASSUME NEW i \in 1 .. n
      PROVE  OnLine(p, i) \in Byte
  <2> DEFINE T == {k \in Nat : i < Begins(p, k + 1)}
  <2>1. Len(p) \in T /\ 0 \notin T /\ i \in Nat
    BY <1>1, <1>2, <1>3, BeginsAtOne
  <2>2. PICK k \in T : \A y \in T : k <= y
    BY <2>1, LeastNumber
  <2>3. k \in 1 .. Len(p) /\ k - 1 \in Nat /\ k - 1 \notin T
    BY <1>1, <2>1, <2>2
  <2>4. Begins(p, k) <= i /\ i < Begins(p, k + 1)
    <3>1. k - 1 + 1 = k /\ Begins(p, k) \in Nat
      BY <1>1, <2>3, BeginsStep
    <3> QED
      BY <2>1, <2>2, <2>3, <3>1
  <2>5. p[k] \in Byte /\ Flip(p[k]) \in Byte /\ Escape \in Byte
    <3>1. p[k] \in Byte
      BY <1>1, <2>3, ElementOfSeq
    <3> QED
      <4>1. Flip(p[k]) \in Byte
        BY <3>1, FlipByte
      <4> QED
        BY <3>1, <4>1 DEF Byte, Escape
  <2> QED
    BY <1>1, <2>1, <2>3, <2>4, <2>5, OnLineOf
<1>4. Frame[p] = [i \in 1 .. n |-> OnLine(p, i)]
  BY DEF Frame
<1> HIDE DEF n
<1>5. Frame[p] \in Seq(Byte)
  BY <1>2, <1>3, <1>4, IsASeq
<1>6. Len(Frame[p]) = n
  BY <1>2, <1>4, <1>5, LenProperties
<1> QED
  BY <1>1, <1>4, <1>5, <1>6 DEF n

-----------------------------------------------------------------------------
(* The parser is the same, so it is in its place. *)
LEMMA PlaceKept ==
  ASSUME PacketPlace, UNCHANGED parseVars
  PROVE  PacketPlace'
  BY DEF PacketPlace, Offset, parseVars

(* A measurement is four natural numbers. *)
LEMMA MeasurementType ==
  ASSUME ProtocolTypeOK
  PROVE  Measurement \in [node : Nat, batt : Nat, temp : Nat, light : Nat]
<1>1. packet \in [Places -> Byte]
  BY DEF ProtocolTypeOK
<1>2. \A k \in 0 .. 299 : packet[k] \in Nat
  <2> TAKE k \in 0 .. 299
  <2>1. k \in Places
    BY DEF Places
  <2>2. packet[k] \in Byte
    BY <1>1, <2>1
  <2> QED
    BY <2>2 DEF Byte
<1>3. \A k \in 0 .. 298 : Word(k) \in Nat
  <2> TAKE k \in 0 .. 298
  <2>1. k \in 0 .. 299 /\ k + 1 \in 0 .. 299
    OBVIOUS
  <2>2. packet[k] \in Nat /\ packet[k + 1] \in Nat
    BY <1>2, <2>1
  <2> QED
    BY <2>2 DEF Word
<1>4. Word(9) \in Nat /\ Word(18) \in Nat /\ Word(20) \in Nat /\ Word(22) \in Nat
  BY <1>3
<1> QED
  BY <1>4 DEF Measurement

(* The payload length is a byte.                                           *)
LEMMA PacketByte ==
  ASSUME ProtocolTypeOK
  PROVE  packet \in [Places -> Byte] /\ packet[6] \in 0 .. 255
<1>1. packet \in [Places -> Byte]
  BY DEF ProtocolTypeOK
<1>2. 6 \in Places
  BY DEF Places
<1>3. packet[6] \in Byte
  BY <1>1, <1>2
<1> QED
  BY <1>1, <1>3 DEF Byte

(* Storing a byte moves on by one in the buffer and in the state, and      *)
(* leaves the payload length alone once it is there.                       *)
LEMMA StoreStep ==
  ASSUME ParserInv, NEW b \in Byte, Store(b), bytes_read < bytes_to_read,
         UNCHANGED <<state, bytes_to_read>>
  PROVE  /\ packet' \in [Places -> Byte]
         /\ pos' \in Nat /\ bytes_read' \in Nat
         /\ PacketPlace'
<1>1. /\ state \in 1 .. 9 /\ bytes_read \in Nat /\ bytes_to_read \in Nat /\ pos \in 0 .. 299
      /\ packet \in [Places -> Byte] /\ packet[6] \in 0 .. 255
  <2>1. ProtocolTypeOK /\ PacketPlace
    BY DEF ParserInv
  <2>2. state \in 1 .. 9 /\ bytes_read \in Nat /\ bytes_to_read \in Nat /\ pos \in Nat
    BY <2>1 DEF ProtocolTypeOK, States
  <2>3. pos < 300
    BY <2>1 DEF PacketPlace
  <2> QED
    BY <2>1, <2>2, <2>3, PacketByte
<1>2. /\ packet' = [packet EXCEPT ![pos] = b]
      /\ pos' = pos + 1 /\ bytes_read' = bytes_read + 1
      /\ state' = state /\ bytes_to_read' = bytes_to_read
  BY DEF Store
<1>3. packet' \in [Places -> Byte]
  BY <1>1, <1>2 DEF Places
<1>4. /\ pos = Offset(state) + bytes_read
      /\ bytes_to_read = IF state \in {3, 8} THEN 2 ELSE IF state = 7 THEN packet[6] ELSE 1
  BY DEF ParserInv, PacketPlace
<1>5. state >= 7 => packet'[6] = packet[6]
  BY <1>1, <1>2, <1>4 DEF Offset
<1>6. Offset(state)' = Offset(state)
  BY <1>1, <1>2, <1>5 DEF Offset
<1>7. /\ bytes_to_read' = IF state' \in {3, 8} THEN 2 ELSE IF state' = 7 THEN packet'[6] ELSE 1
      /\ pos' = Offset(state)' + bytes_read' /\ bytes_read' <= bytes_to_read'
  BY <1>1, <1>2, <1>4, <1>5, <1>6 DEF Offset
<1>8. pos' < 300
  BY <1>1, <1>2, <1>4 DEF Offset
<1> QED
  BY <1>1, <1>2, <1>3, <1>7, <1>8 DEF PacketPlace

(* The first byte of the next state goes behind the last one of this, and  *)
(* the payload length has just been stored when the payload is next.       *)
LEMMA NextStateStep ==
  ASSUME ParserInv, NextState
  PROVE  ParserInv'
<1>1. /\ state \in 1 .. 8 /\ bytes_read \in Nat /\ bytes_to_read \in Nat /\ pos \in 0 .. 299
      /\ packet \in [Places -> Byte] /\ packet[6] \in 0 .. 255 /\ bytes_read = bytes_to_read
  <2>1. ProtocolTypeOK /\ PacketPlace /\ bytes_read = bytes_to_read /\ state # 9
    BY DEF ParserInv, NextState
  <2>2. state \in 1 .. 9 /\ bytes_read \in Nat /\ bytes_to_read \in Nat /\ pos \in Nat
    BY <2>1 DEF ProtocolTypeOK, States
  <2>3. pos < 300
    BY <2>1 DEF PacketPlace
  <2> QED
    BY <2>1, <2>2, <2>3, PacketByte
<1>2. /\ state' = state + 1 /\ bytes_to_read' = BytesToRead(state + 1) /\ bytes_read' = 0
      /\ pos' = pos /\ packet' = packet /\ next_is_special' = next_is_special
  BY DEF NextState
<1>3. /\ pos = Offset(state) + bytes_read
      /\ bytes_to_read = IF state \in {3, 8} THEN 2 ELSE IF state = 7 THEN packet[6] ELSE 1
  BY DEF ParserInv, PacketPlace
<1>4. state = 6 => packet[pos - 1] = packet[6]
  BY <1>1, <1>3 DEF Offset
<1>5. bytes_to_read' = IF state' \in {3, 8} THEN 2 ELSE IF state' = 7 THEN packet'[6] ELSE 1
  BY <1>1, <1>2, <1>4 DEF BytesToRead
<1>6. pos' = Offset(state)' + bytes_read'
  BY <1>1, <1>2, <1>3 DEF Offset
<1>7. PacketPlace'
  BY <1>1, <1>2, <1>5, <1>6 DEF PacketPlace
<1>8. ProtocolTypeOK'
  <2>1. bytes_to_read' \in Nat /\ bytes_read' \in Nat /\ state' \in States
    BY <1>1, <1>2, <1>5 DEF States
  <2> QED
    BY <2>1, <1>2 DEF ParserInv, ProtocolTypeOK, NextState, ldiscVars, lineVars
<1> QED
  BY <1>7, <1>8 DEF ParserInv

(* A call that is over has nothing left to parse.                          *)
LEMMA ReturnType ==
  ASSUME CallReturns
  PROVE  parsing' \in BOOLEAN /\ buf' \in Seq(Byte) /\ iter' \in 0 .. MAX_ITER - 1
<1>1. parsing' \in BOOLEAN
  BY DEF CallReturns
<1>2. buf' \in Seq(Byte)
  BY EmptySeq DEF CallReturns
<1>3. iter' \in 0 .. MAX_ITER - 1
  BY DEF CallReturns
<1> QED
  BY <1>1, <1>2, <1>3

(* Every step of the parser keeps its invariant.                           *)
LEMMA ReceivedBufStep ==
  ASSUME ParserInv, ReceivedBuf
  PROVE  ParserInv'
<1> USE DEF ldiscVars, parseVars, lineVars
<1>1. ProtocolTypeOK /\ PacketPlace
  BY DEF ParserInv
<1>2. CASE ParseSpecial \/ ParseEscaped \/ ParsePlain
  <2>1. /\ parsing /\ buf # << >> /\ bytes_read < bytes_to_read /\ ~Stuck
        /\ buf' = Tail(buf) /\ iter' = iter + 1
        /\ UNCHANGED <<available, attached, state, bytes_to_read, parsing, wire, sent, updates>>
    BY <1>2 DEF ParseSpecial, ParseEscaped, ParsePlain, ParseStep, Unparsed
  <2>2. buf' \in Seq(Byte) /\ iter' \in 0 .. 49 /\ Head(buf) \in Byte
    BY <1>1, <2>1 DEF ProtocolTypeOK, Stuck
  <2>3. Decoded(Head(buf)) \in Byte
    BY <2>2, FlipByte DEF Decoded
  <2>4. /\ packet' \in [Places -> Byte] /\ pos' \in Nat /\ bytes_read' \in Nat
        /\ PacketPlace' /\ next_is_special' \in {0} \cup Specials
    <3>1. CASE ParseSpecial
      BY <1>1, <2>1, <3>1, PlaceKept DEF ParseSpecial, ProtocolTypeOK, PacketPlace, Offset
    <3>2. CASE ParseEscaped
      <4>1. Store(Decoded(Head(buf))) /\ next_is_special' = 0
        BY <3>2 DEF ParseEscaped
      <4> QED
        BY <4>1, <2>1, <2>3, StoreStep
    <3>3. CASE ParsePlain
      <4>1. Store(Head(buf)) /\ next_is_special' = next_is_special
        BY <3>3 DEF ParsePlain
      <4> QED
        BY <4>1, <1>1, <2>1, <2>2, StoreStep DEF ProtocolTypeOK
    <3> QED
      BY <1>2, <3>1, <3>2, <3>3
  <2> QED
    BY <1>1, <2>1, <2>2, <2>4 DEF ParserInv, ProtocolTypeOK
<1>3. CASE ParseStuck
  <2>1. pos' = pos
    BY <1>1, <1>3 DEF ParseStuck, Stuck, PacketPlace, ProtocolTypeOK
  <2>2. PacketPlace'
    BY <1>1, <1>3, <2>1, PlaceKept DEF ParseStuck
  <2>3. CallReturns
    BY <1>3 DEF ParseStuck
  <2> QED
    BY <1>1, <1>3, <2>1, <2>2, <2>3, ReturnType DEF ParseStuck, ParserInv, ProtocolTypeOK
<1>4. CASE OutOfBytes
  <2>1. PacketPlace' /\ CallReturns
    BY <1>1, <1>4, PlaceKept DEF OutOfBytes
  <2> QED
    BY <1>1, <1>4, <2>1, ReturnType DEF OutOfBytes, ParserInv, ProtocolTypeOK
<1>5. CASE NextState
  BY <1>5, NextStateStep
<1>6. CASE PacketDone
  <2> DEFINE Reports == [node : Nat, batt : Nat, temp : Nat, light : Nat]
  <2>1. updates' \in Seq(Reports)
    <3>1. updates \in Seq(Reports) /\ Measurement \in Reports
      BY <1>1, MeasurementType DEF ProtocolTypeOK
    <3>2. updates' \in {updates, Append(updates, Measurement)}
      BY <1>6 DEF PacketDone, UpdateSensors
    <3> HIDE DEF Measurement, Reports
    <3> QED
      BY <3>1, <3>2, AppendProperties
  <2>2. PacketPlace'
    BY <1>6 DEF PacketDone, Reset, PacketPlace, Offset
  <2> QED
    <3>1. /\ CallReturns /\ state' \in States /\ bytes_to_read' \in Nat /\ bytes_read' \in Nat
          /\ pos' \in Nat /\ next_is_special' \in {0} \cup Specials
      BY <1>6 DEF PacketDone, Reset, States
    <3>2. UNCHANGED <<available, attached, packet, wire, sent>>
      BY <1>6 DEF PacketDone
    <3> QED
      BY <1>1, <2>1, <2>2, <3>1, <3>2, ReturnType DEF ParserInv, ProtocolTypeOK
<1> QED
  BY <1>2, <1>3, <1>4, <1>5, <1>6 DEF ReceivedBuf

(* The parser's invariant holds at the start and is kept by every step.    *)
LEMMA ParserInductive ==
  /\ ProtocolInit => ParserInv
  /\ ParserInv /\ [ProtocolNext]_protocolVars => ParserInv'
<1>1. ProtocolInit => ParserInv
  <2> SUFFICES ASSUME ProtocolInit PROVE ProtocolTypeOK /\ PacketPlace
    BY DEF ParserInv
  <2>1. packet \in [Places -> Byte]
    BY DEF ProtocolInit, Byte
  <2>2. PacketPlace
    BY DEF ProtocolInit, PacketPlace, Offset
  <2>3. \A S : << >> \in Seq(S)
    BY EmptySeq
  <2>4. /\ available \in Int /\ attached \in SUBSET TTYs
        /\ state \in States /\ bytes_read \in Nat /\ bytes_to_read \in Nat /\ pos \in Nat
        /\ next_is_special \in {0} \cup Specials
        /\ iter \in 0 .. MAX_ITER - 1
    BY DEF ProtocolInit, States
  <2>6. parsing \in BOOLEAN
    BY DEF ProtocolInit
  <2>5. buf = << >> /\ wire = << >> /\ sent = << >> /\ updates = << >>
    BY DEF ProtocolInit
  <2> QED
    BY <2>1, <2>2, <2>3, <2>4, <2>5, <2>6 DEF ProtocolTypeOK
<1>2. ASSUME ParserInv, [ProtocolNext]_protocolVars PROVE ParserInv'
  <2> USE DEF ldiscVars, parseVars, callVars, lineVars
  <2>0. ProtocolTypeOK /\ PacketPlace
    BY <1>2 DEF ParserInv
  <2>1. ASSUME NEW tty \in TTYs, OpenTTY(tty) \/ CloseTTY(tty) PROVE ParserInv'
    <3>1. available' \in Int /\ attached' \in SUBSET TTYs
      BY <2>0, <2>1 DEF OpenTTY, CloseTTY, ProtocolTypeOK
    <3>2. wire' \in Seq(Byte)
      BY <2>0, <2>1, EmptySeq DEF OpenTTY, CloseTTY, ProtocolTypeOK
    <3>3. UNCHANGED <<parseVars, callVars, sent, updates>>
      BY <2>1 DEF OpenTTY, CloseTTY
    <3> QED
      BY <2>0, <3>1, <3>2, <3>3, PlaceKept DEF ParserInv, ProtocolTypeOK
  <2>2. ASSUME NEW p \in Packets, Send(p) PROVE ParserInv'
    <3>1. wire' \in Seq(Byte) /\ sent' \in Seq(Packets)
      <4>1. Frame[p] \in Seq(Byte)
        BY FrameType
      <4> HIDE DEF Frame
      <4> QED
        BY <4>1, <2>0, <2>2 DEF Send, ProtocolTypeOK
    <3> QED
      BY <2>0, <2>2, <3>1, PlaceKept DEF Send, ParserInv, ProtocolTypeOK
  <2>3. ASSUME NEW n \in 1 .. Len(wire), Receive(n) PROVE ParserInv'
    <3>1. buf' \in Seq(Byte) /\ wire' \in Seq(Byte)
      <4>1. wire \in Seq(Byte) /\ Len(wire) \in Nat /\ \A i \in 1 .. Len(wire) : wire[i] \in Byte
        BY <2>0, ElementOfSeq, LenProperties DEF ProtocolTypeOK
      <4>2. /\ \A i \in 1 .. n : wire[i] \in Byte
            /\ \A i \in n + 1 .. Len(wire) : wire[i] \in Byte
        BY <4>1
      <4>3. SubSeq(wire, 1, n) \in Seq(Byte) /\ SubSeq(wire, n + 1, Len(wire)) \in Seq(Byte)
        BY <4>1, <4>2, SubSeqProperties
      <4> QED
        BY <2>3, <4>3 DEF Receive
    <3> QED
      BY <2>0, <2>3, <3>1, PlaceKept DEF Receive, ParserInv, ProtocolTypeOK
  <2>4. CASE ReceivedBuf
    BY <1>2, <2>4, ReceivedBufStep
  <2>5. CASE UNCHANGED protocolVars
    BY <2>0, <2>5, PlaceKept DEF protocolVars, ParserInv, ProtocolTypeOK
  <2> QED
    BY <1>2, <2>1, <2>2, <2>3, <2>4, <2>5 DEF ProtocolNext
<1> QED
  BY <1>1, <1>2

(* Every variable of the parser has its type, throughout.                  *)
THEOREM ParserTypes == ProtocolSpec => []ProtocolTypeOK
<1>1. ParserInv => ProtocolTypeOK
  BY DEF ParserInv
<1> QED
  BY <1>1, ParserInductive, PTL DEF ProtocolSpec

(* Every byte is put where its state has its place, inside the buffer: the *)
(* check "Prevent buffer overflows" never fails.                           *)
THEOREM BytesInPlace == ProtocolSpec => []PacketPlace
<1>1. ParserInv => PacketPlace
  BY DEF ParserInv
<1> QED
  BY <1>1, ParserInductive, PTL DEF ProtocolSpec

(* The discipline is on one terminal at most, and free when it is on none. *)
THEOREM OneTerminal == ProtocolSpec => []SingleTTY
<1>1. ProtocolInit => SingleTTY
  BY DEF ProtocolInit, SingleTTY
<1>2. SingleTTY /\ [ProtocolNext]_protocolVars => SingleTTY'
  <2> SUFFICES ASSUME SingleTTY, [ProtocolNext]_protocolVars PROVE SingleTTY'
    OBVIOUS
  <2> USE DEF ldiscVars
  <2>1. ASSUME NEW tty \in TTYs, OpenTTY(tty) PROVE SingleTTY'
    BY <2>1 DEF OpenTTY, MayOpen, SingleTTY
  <2>2. ASSUME NEW tty \in TTYs, CloseTTY(tty) PROVE SingleTTY'
    BY <2>2 DEF CloseTTY, SingleTTY
  <2>3. CASE UNCHANGED ldiscVars
    BY <2>3 DEF SingleTTY
  <2>4. CASE ReceivedBuf
    BY <2>3, <2>4 DEF ReceivedBuf, ParseSpecial, ParseEscaped, ParsePlain, ParseStep, ParseStuck,
       OutOfBytes, NextState, PacketDone
  <2>5. ASSUME NEW p \in Packets, Send(p) PROVE SingleTTY'
    BY <2>3, <2>5 DEF Send
  <2>6. ASSUME NEW n \in 1 .. Len(wire), Receive(n) PROVE SingleTTY'
    BY <2>3, <2>6 DEF Receive
  <2>7. CASE UNCHANGED protocolVars
    BY <2>3, <2>7 DEF protocolVars
  <2> QED
    BY <2>1, <2>2, <2>4, <2>5, <2>6, <2>7 DEF ProtocolNext
<1> QED
  BY <1>1, <1>2, PTL DEF ProtocolSpec

-----------------------------------------------------------------------------
(***************************************************************************)
(* What the sensors are told on a quiet line: the packet that is received  *)
(* is, as far as it has come, in the buffer, and its rest on the line.     *)
(***************************************************************************)
(* A packet as the table of lunix-protocol.c has it, with room for the     *)
(* measurement if it is one.                                               *)
WholePacket(p) == /\ Len(p) >= 10 /\ Len(p) = 10 + p[7]
                  /\ p[5] = 11 => p[7] >= 17

ShortPackets == \A k \in DOMAIN sent : Len(Frame[sent[k]]) < MAX_ITER

(* How much of p's frame the parser has taken. *)
Taken(p) == Begins(p, pos + 1) - 1 + (IF next_is_special = 0 THEN 0 ELSE 1)

(* What has not been taken is in the call or on the wire. *)
RestOf(p) ==
  /\ Taken(p) + Len(buf) + Len(wire) = Len(Frame[p])
  /\ \A i \in 1 .. Len(buf) : buf[i] = Frame[p][Taken(p) + i]
  /\ \A i \in 1 .. Len(wire) : wire[i] = Frame[p][Taken(p) + Len(buf) + i]

Stored(p) ==
  /\ \A k \in 1 .. pos : packet[k - 1] = p[k]
  /\ next_is_special # 0 => next_is_special = Escape /\ pos + 1 \in Special(p)

Resting == /\ state = SEEKING_START_BYTE /\ bytes_read = 0 /\ next_is_special = 0
           /\ buf = << >> /\ wire = << >> /\ ~parsing /\ iter = 0
           /\ Told(Len(sent))

UnderWay == /\ sent # << >> /\ RestOf(Last(sent)) /\ Stored(Last(sent))
            /\ iter <= Taken(Last(sent))
            /\ parsing \/ (buf = << >> /\ wire # << >>)
            /\ Told(Len(sent) - 1)

QuietInv == ShortPackets => Resting \/ UnderWay

LEMMA LastSent ==
  ASSUME ProtocolTypeOK, sent # << >>
  PROVE  /\ Len(sent) \in Nat \ {0} /\ Last(sent) = sent[Len(sent)]
         /\ Last(sent) \in Packets /\ Last(sent) \in Seq(Byte)
<1>1. sent \in Seq(Packets)
  BY DEF ProtocolTypeOK
<1>2. Len(sent) \in Nat \ {0} /\ Last(sent) = sent[Len(sent)]
  BY <1>1, EmptySeq, LenProperties DEF Last
<1>3. sent[Len(sent)] \in Packets
  BY <1>1, <1>2, ElementOfSeq
<1> QED
  BY <1>2, <1>3, PacketAssumption

(* What a byte looks like on the line. *)
LEMMA FrameAt ==
  ASSUME NEW p \in Packets, NEW k \in 1 .. Len(p)
  PROVE  /\ Begins(p, k) \in 1 .. Len(Frame[p])
         /\ k \notin Special(p) => Frame[p][Begins(p, k)] = p[k]
         /\ k \in Special(p) => /\ Begins(p, k) + 1 \in 1 .. Len(Frame[p])
                                /\ Frame[p][Begins(p, k)] = Escape
                                /\ Frame[p][Begins(p, k) + 1] = Flip(p[k])
<1>1. p \in Seq(Byte) /\ Len(p) \in Nat /\ DOMAIN p = 1 .. Len(p) /\ k \in Nat
  BY FrameType, LenProperties
<1>2. /\ Begins(p, k) \in Nat /\ Begins(p, k) >= k
      /\ Begins(p, k + 1) = Begins(p, k) + IF k \in Special(p) THEN 2 ELSE 1
  BY <1>1, BeginsStep
<1>3. Begins(p, Len(p) + 1) \in Nat /\ Begins(p, k + 1) <= Begins(p, Len(p) + 1)
  <2>1. k + 1 \in Nat /\ Len(p) + 1 \in Nat /\ (k + 1 = Len(p) + 1 \/ k + 1 < Len(p) + 1)
    BY <1>1
  <2>2. Begins(p, Len(p) + 1) \in Nat /\ Begins(p, k + 1) \in Nat
    BY <1>1, <2>1, BeginsStep
  <2>3. k + 1 < Len(p) + 1 => Begins(p, k + 1) < Begins(p, Len(p) + 1)
    BY <1>1, <2>1, BeginsLater
  <2>4. k + 1 = Len(p) + 1 => Begins(p, k + 1) = Begins(p, Len(p) + 1)
    OBVIOUS
  <2> QED
    BY <2>1, <2>2, <2>3, <2>4
<1>4. Len(Frame[p]) = Begins(p, Len(p) + 1) - 1
      /\ \A i \in 1 .. Len(Frame[p]) : Frame[p][i] = OnLine(p, i)
  BY FrameType
<1>5. /\ Begins(p, k) \in 1 .. Len(Frame[p])
      /\ k \in Special(p) => Begins(p, k) + 1 \in 1 .. Len(Frame[p])
  BY <1>1, <1>2, <1>3, <1>4
<1>6. k \notin Special(p) => OnLine(p, Begins(p, k)) = p[k]
  BY <1>1, <1>2, OnLineOf
<1>7. k \in Special(p) => OnLine(p, Begins(p, k)) = Escape
  BY <1>1, <1>2, OnLineOf
<1>8. k \in Special(p) => OnLine(p, Begins(p, k) + 1) = Flip(p[k])
  <2>1. Begins(p, k) + 1 \in Nat /\ Begins(p, k) + 1 # Begins(p, k)
    BY <1>2
  <2> QED
    BY <1>1, <1>2, <2>1, OnLineOf
<1> QED
  BY <1>4, <1>5, <1>6, <1>7, <1>8

(* The parser's place in a whole packet. *)
LEMMA PlaceInPacket ==
  ASSUME ParserInv, NEW p \in Packets, WholePacket(p), Stored(p)
  PROVE  /\ pos \in 0 .. Len(p) /\ Len(p) \in Nat
         /\ bytes_read < bytes_to_read =>
              /\ pos + 1 \in 1 .. Len(p)
              /\ UsesSpecials <=> pos + 1 \in 3 .. Len(p) - 1
         /\ bytes_read = bytes_to_read /\ state = SEEKING_END_BYTE => pos = Len(p)
<1>1. ProtocolTypeOK /\ PacketPlace
  BY DEF ParserInv
<1>2. /\ state \in 1 .. 9 /\ bytes_read \in Nat /\ bytes_to_read \in Nat /\ pos \in 0 .. 299
      /\ packet[6] \in 0 .. 255
  <2>1. state \in 1 .. 9 /\ bytes_read \in Nat /\ bytes_to_read \in Nat /\ pos \in Nat
    BY <1>1 DEF ProtocolTypeOK, States
  <2>2. pos < 300
    BY <1>1 DEF PacketPlace
  <2> QED
    BY <1>1, <2>1, <2>2, PacketByte
<1>3. /\ pos = Offset(state) + bytes_read /\ bytes_read <= bytes_to_read
      /\ bytes_to_read = IF state \in {3, 8} THEN 2 ELSE IF state = 7 THEN packet[6] ELSE 1
  BY <1>1 DEF PacketPlace
<1>4. Len(p) \in Nat /\ Len(p) = 10 + p[7] /\ Len(p) >= 10
  <2>1. p \in Seq(Byte)
    BY PacketAssumption
  <2> QED
    BY <2>1, LenProperties DEF WholePacket
<1>5. p[7] \in Nat
  <2>1. p \in Seq(Byte) /\ 7 \in 1 .. Len(p)
    BY <1>4, PacketAssumption
  <2>2. p[7] \in Byte
    BY <2>1, ElementOfSeq
  <2> QED
    BY <2>2 DEF Byte
<1>6. pos >= 7 => packet[6] = p[7]
  <2>1. pos >= 7 => 7 \in 1 .. pos
    BY <1>2
  <2>2. \A k \in 1 .. pos : packet[k - 1] = p[k]
    BY DEF Stored
  <2>3. pos >= 7 => packet[7 - 1] = p[7]
    BY <2>1, <2>2
  <2> QED
    BY <2>3
<1>7. state >= 7 => pos >= 7
  BY <1>2, <1>3 DEF Offset
<1>8. pos = IF state <= 3 THEN state - 1 + bytes_read
            ELSE IF state <= 7 THEN state + bytes_read
            ELSE IF state = 8 THEN 7 + packet[6] + bytes_read ELSE 9 + packet[6] + bytes_read
  BY <1>2, <1>3 DEF Offset
<1>9. CASE state < 7
  BY <1>2, <1>3, <1>4, <1>5, <1>8, <1>9 DEF UsesSpecials
<1>10. CASE state >= 7
  <2>1. packet[6] = p[7] /\ state \in {7, 8, 9}
    BY <1>2, <1>6, <1>7, <1>10
  <2>2. CASE state = 7
    BY <1>2, <1>3, <1>4, <1>5, <1>8, <2>1, <2>2 DEF UsesSpecials
  <2>3. CASE state = 8
    <3>1. pos = 7 + p[7] + bytes_read /\ bytes_read <= bytes_to_read /\ bytes_to_read = 2
      BY <1>3, <1>8, <2>1, <2>3
    <3>2. UsesSpecials
      BY <2>3 DEF UsesSpecials
    <3> QED
      BY <1>2, <1>4, <1>5, <2>3, <3>1, <3>2
  <2>4. CASE state = 9
    BY <1>2, <1>3, <1>4, <1>5, <1>8, <2>1, <2>4 DEF UsesSpecials
  <2> QED
    BY <2>1, <2>2, <2>3, <2>4
<1> QED
  BY <1>2, <1>9, <1>10

(* Where the next byte is on the line. *)
LEMMA TakenPlace ==
  ASSUME ParserInv, NEW p \in Packets, WholePacket(p), Stored(p)
  PROVE  /\ Taken(p) \in Nat
         /\ bytes_read < bytes_to_read => Taken(p) < Len(Frame[p])
         /\ pos = Len(p) => Taken(p) = Len(Frame[p]) /\ next_is_special = 0
<1>1. /\ pos \in 0 .. Len(p) /\ Len(p) \in Nat /\ p \in Seq(Byte)
      /\ bytes_read < bytes_to_read => pos + 1 \in 1 .. Len(p)
  BY PlaceInPacket, PacketAssumption
<1>2. Begins(p, pos + 1) \in Nat /\ Begins(p, pos + 1) >= pos + 1
  <2>1. pos + 1 \in Nat
    BY <1>1
  <2> QED
    BY <1>1, <2>1, BeginsStep
<1>3. Taken(p) \in Nat
  BY <1>1, <1>2 DEF Taken
<1>4. ASSUME bytes_read < bytes_to_read PROVE Taken(p) < Len(Frame[p])
  <2>1. /\ Begins(p, pos + 1) \in 1 .. Len(Frame[p]) /\ Len(Frame[p]) \in Nat
        /\ pos + 1 \in Special(p) => Begins(p, pos + 1) + 1 \in 1 .. Len(Frame[p])
    BY <1>1, <1>4, FrameAt, FrameType, LenProperties
  <2> QED
    BY <2>1 DEF Taken, Stored
<1>5. ASSUME pos = Len(p) PROVE Taken(p) = Len(Frame[p]) /\ next_is_special = 0
  <2>1. pos + 1 \notin Special(p)
    BY <1>1, <1>5 DEF Special
  <2>2. next_is_special = 0
    BY <2>1 DEF Stored
  <2>3. Len(Frame[p]) = Begins(p, Len(p) + 1) - 1
    BY FrameType
  <2> QED
    BY <1>2, <1>5, <2>2, <2>3 DEF Taken
<1> QED
  BY <1>3, <1>4, <1>5

(* The next byte of the call is the next byte of the packet. *)
LEMMA RestTail ==
  ASSUME ProtocolTypeOK, NEW p \in Packets, RestOf(p), Taken(p) \in Nat, buf # << >>,
         buf' = Tail(buf), wire' = wire, Taken(p)' = Taken(p) + 1
  PROVE  RestOf(p)' /\ Head(buf) = Frame[p][Taken(p) + 1]
<1>1. buf \in Seq(Byte) /\ Len(buf) \in Nat \ {0} /\ wire \in Seq(Byte) /\ Len(wire) \in Nat
  BY EmptySeq, LenProperties DEF ProtocolTypeOK
<1>2. Head(buf) = buf[1] /\ Len(Tail(buf)) = Len(buf) - 1
      /\ \A i \in 1 .. Len(buf) - 1 : Tail(buf)[i] = buf[i + 1]
  BY <1>1, HeadTailProperties
<1>3. Head(buf) = Frame[p][Taken(p) + 1]
  BY <1>1, <1>2 DEF RestOf
<1>4. /\ Taken(p)' = Taken(p) + 1 /\ Len(buf') = Len(buf) - 1 /\ wire' = wire
      /\ \A i \in 1 .. Len(buf) - 1 : buf'[i] = buf[i + 1]
  BY <1>2
<1>5. Taken(p)' + Len(buf)' + Len(wire)' = Len(Frame[p])
  BY <1>1, <1>4 DEF RestOf
<1>6. ASSUME NEW i \in 1 .. Len(buf') PROVE buf'[i] = Frame[p][Taken(p)' + i]
  <2>1. i \in 1 .. Len(buf) - 1 /\ i + 1 \in 1 .. Len(buf)
    BY <1>1, <1>4
  <2>2. buf[i + 1] = Frame[p][Taken(p) + (i + 1)]
    BY <2>1 DEF RestOf
  <2>3. Taken(p)' + i = Taken(p) + (i + 1)
    BY <1>4, <2>1
  <2> QED
    BY <1>4, <2>1, <2>2, <2>3
<1>7. ASSUME NEW i \in 1 .. Len(wire) PROVE wire[i] = Frame[p][Taken(p)' + Len(buf') + i]
  <2>1. wire[i] = Frame[p][Taken(p) + Len(buf) + i]
    BY DEF RestOf
  <2>2. Taken(p)' + Len(buf') + i = Taken(p) + Len(buf) + i
    BY <1>1, <1>4
  <2> QED
    BY <2>1, <2>2
<1> QED
  BY <1>3, <1>4, <1>5, <1>6, <1>7 DEF RestOf

LEMMA FlipTwice == \A b \in Byte : Flip(Flip(b)) = b
  BY DEF Byte, Flip

(* A byte that is parsed takes its place in the buffer, or is the mark of  *)
(* one that is stuffed.                                                    *)
LEMMA ParseKeeps ==
  ASSUME ParserInv, NEW p \in Packets, WholePacket(p), Stored(p), RestOf(p),
         ParseSpecial \/ ParseEscaped \/ ParsePlain
  PROVE  Stored(p)' /\ RestOf(p)' /\ Taken(p)' = Taken(p) + 1
<1>1. /\ ProtocolTypeOK /\ buf # << >> /\ bytes_read < bytes_to_read /\ buf' = Tail(buf) /\ wire' = wire
      /\ pos \in Nat /\ packet \in [Places -> Byte] /\ pos \in Places
  <2>1. ProtocolTypeOK /\ pos \in Nat /\ packet \in [Places -> Byte] /\ pos < 300
    BY DEF ParserInv, ProtocolTypeOK, PacketPlace
  <2>2. buf # << >> /\ bytes_read < bytes_to_read /\ buf' = Tail(buf) /\ wire' = wire
    BY DEF ParseSpecial, ParseEscaped, ParsePlain, ParseStep, Unparsed, lineVars
  <2>3. pos \in Places
    BY <2>1 DEF Places
  <2> QED
    BY <2>1, <2>2, <2>3
<1>2. /\ pos + 1 \in 1 .. Len(p) /\ Len(p) \in Nat /\ p \in Seq(Byte)
      /\ UsesSpecials <=> pos + 1 \in 3 .. Len(p) - 1
  BY <1>1, PlaceInPacket, PacketAssumption
<1>3. Taken(p) \in Nat
  BY TakenPlace
<1>4. /\ Begins(p, pos + 1) \in Nat
      /\ Begins(p, pos + 2) = Begins(p, pos + 1) + IF pos + 1 \in Special(p) THEN 2 ELSE 1
  <2>1. pos + 1 \in Nat /\ pos + 1 + 1 = pos + 2
    BY <1>1
  <2> QED
    BY <1>2, <2>1, BeginsStep
<1>5. /\ pos + 1 \notin Special(p) => Frame[p][Begins(p, pos + 1)] = p[pos + 1]
      /\ pos + 1 \in Special(p) => /\ Frame[p][Begins(p, pos + 1)] = Escape
                                   /\ Frame[p][Begins(p, pos + 1) + 1] = Flip(p[pos + 1])
  BY <1>2, FrameAt
<1>6. Taken(p)' = Taken(p) + 1 => RestOf(p)' /\ Head(buf) = Frame[p][Taken(p) + 1]
  BY <1>1, <1>3, RestTail DEF ParserInv
<1>7. Head(buf) = Frame[p][Taken(p) + 1]
  <2>1. Len(buf) \in Nat \ {0} /\ Head(buf) = buf[1]
    BY <1>1, EmptySeq, LenProperties, HeadTailProperties DEF ProtocolTypeOK
  <2> QED
    BY <2>1 DEF RestOf
<1>8. /\ next_is_special = 0 => Taken(p) + 1 = Begins(p, pos + 1)
      /\ next_is_special # 0 => Taken(p) + 1 = Begins(p, pos + 1) + 1
  BY <1>4 DEF Taken
<1>9. UsesSpecials => (pos + 1 \in Special(p) <=> p[pos + 1] \in Specials)
  BY <1>2 DEF Special
<1>10. ~UsesSpecials => pos + 1 \notin Special(p)
  BY <1>2 DEF Special
<1>11. CASE ParseSpecial
  <2>1. /\ UsesSpecials /\ next_is_special = 0 /\ Head(buf) \in Specials
        /\ next_is_special' = Head(buf) /\ UNCHANGED <<pos, packet>>
    BY <1>11 DEF ParseSpecial
  <2>2. pos + 1 \in Special(p) /\ Head(buf) = Escape
    BY <1>5, <1>7, <1>8, <1>9, <2>1
  <2>3. Taken(p)' = Taken(p) + 1
    BY <1>4, <2>1, <2>2 DEF Taken, Escape
  <2>4. Stored(p)'
    BY <2>1, <2>2 DEF Stored
  <2> QED
    BY <1>6, <2>3, <2>4
<1>12. CASE ParseEscaped \/ ParsePlain
  <2> DEFINE b == packet'[pos]
  <2>1. /\ pos' = pos + 1 /\ next_is_special' = 0
        /\ b = IF next_is_special = 0 THEN Head(buf) ELSE Flip(Head(buf))
        /\ \A k \in Places \ {pos} : packet'[k] = packet[k]
        /\ next_is_special = 0 => ~UsesSpecials \/ Head(buf) \notin Specials
    <3>1. CASE ParseEscaped
      <4>1. /\ next_is_special = Escape /\ Store(Decoded(Head(buf))) /\ next_is_special' = 0
            /\ next_is_special # 0
        BY <3>1 DEF ParseEscaped, Stored
      <4> QED
        BY <1>1, <4>1 DEF Store, Decoded
    <3>2. CASE ParsePlain
      <4>1. /\ next_is_special = 0 /\ Store(Head(buf)) /\ next_is_special' = next_is_special
            /\ ~UsesSpecials \/ Head(buf) \notin Specials
        BY <1>10, <3>2 DEF ParsePlain, Stored
      <4> QED
        BY <1>1, <4>1 DEF Store
    <3> QED
      BY <1>12, <3>1, <3>2
  <2>2. b = p[pos + 1] /\ Taken(p)' = Taken(p) + 1
    <3>1. Taken(p)' = Begins(p, pos + 2) - 1
      <4>1. pos' + 1 = pos + 2
        BY <1>1, <2>1
      <4> QED
        BY <1>4, <2>1, <4>1 DEF Taken
    <3>2. CASE next_is_special = 0
      <4>1. pos + 1 \notin Special(p)
        BY <1>5, <1>7, <1>8, <1>10, <2>1, <3>2 DEF Specials
      <4> QED
        BY <1>3, <1>4, <1>5, <1>7, <1>8, <2>1, <3>1, <3>2, <4>1
    <3>3. CASE next_is_special # 0
      <4>1. pos + 1 \in Special(p)
        BY <3>3 DEF Stored
      <4>2. p[pos + 1] \in Byte
        BY <1>2, ElementOfSeq
      <4>3. Flip(Flip(p[pos + 1])) = p[pos + 1]
        BY <4>2, FlipTwice
      <4> QED
        BY <1>3, <1>4, <1>5, <1>7, <1>8, <2>1, <3>1, <3>3, <4>1, <4>3
    <3> QED
      BY <3>2, <3>3
  <2>3. ASSUME NEW k \in 1 .. pos' PROVE packet'[k - 1] = p[k]
    <3>1. CASE k = pos + 1
      <4>1. k - 1 = pos
        BY <1>1, <3>1
      <4> QED
        BY <2>2, <3>1, <4>1
    <3>2. CASE k # pos + 1
      <4>1. k \in 1 .. pos /\ k - 1 \in Places /\ k - 1 # pos
        <5>1. k \in 1 .. pos + 1 /\ pos \in 0 .. 299
          BY <1>1, <2>1 DEF Places
        <5> QED
          BY <3>2, <5>1 DEF Places
      <4> QED
        BY <2>1, <4>1 DEF Stored
    <3> QED
      BY <3>1, <3>2
  <2>4. Stored(p)'
    BY <2>1, <2>3 DEF Stored
  <2> QED
    BY <1>6, <2>2, <2>4
<1> QED
  BY <1>11, <1>12

(* The measurements sent are counted one by one. *)
LEMMA MeasuredStep ==
  ASSUME NEW n \in Nat
  PROVE  /\ IsFiniteSet(Measured(n)) /\ Cardinality(Measured(n)) \in Nat
         /\ IsReading(sent[n + 1]) => /\ Measured(n + 1) = Measured(n) \cup {n + 1}
                                      /\ Cardinality(Measured(n + 1)) = Cardinality(Measured(n)) + 1
         /\ ~IsReading(sent[n + 1]) => Measured(n + 1) = Measured(n)
<1>1. IsFiniteSet(1 .. n) /\ Measured(n) \in SUBSET (1 .. n)
  BY FS_Interval DEF Measured
<1>2. IsFiniteSet(Measured(n)) /\ Cardinality(Measured(n)) \in Nat
  BY <1>1, FS_Subset, FS_CardinalityType
<1>3. n + 1 \notin Measured(n)
  BY DEF Measured
<1>4. IsReading(sent[n + 1]) => Measured(n + 1) = Measured(n) \cup {n + 1}
  BY DEF Measured
<1>5. ~IsReading(sent[n + 1]) => Measured(n + 1) = Measured(n)
  BY DEF Measured
<1>6. Cardinality(Measured(n) \cup {n + 1}) = Cardinality(Measured(n)) + 1
  BY <1>2, <1>3, FS_AddElement
<1> QED
  BY <1>2, <1>4, <1>5, <1>6

LEMMA MeasuredPlace ==
  ASSUME NEW n \in Nat, NEW k \in Measured(n)
  PROVE  Cardinality(Measured(k)) \in 1 .. Cardinality(Measured(n))
<1>1. k \in 1 .. n /\ k \in Measured(k) /\ Measured(k) \in SUBSET Measured(n)
  BY DEF Measured
<1>2. /\ IsFiniteSet(Measured(n)) /\ IsFiniteSet(Measured(k))
      /\ Cardinality(Measured(n)) \in Nat /\ Cardinality(Measured(k)) \in Nat
  <2>1. k \in Nat
    BY <1>1
  <2> QED
    BY <2>1, MeasuredStep
<1>3. Cardinality(Measured(k)) <= Cardinality(Measured(n))
  BY <1>1, <1>2, FS_Subset
<1>4. Cardinality(Measured(k)) # 0
  BY <1>1, <1>2, FS_EmptySet
<1> QED
  BY <1>2, <1>3, <1>4

(* A packet that is whole is told, if it is a measurement. *)
LEMMA ToldNext ==
  ASSUME ProtocolTypeOK, NEW n \in Nat, Told(n), sent' = sent,
         updates' = IF IsReading(sent[n + 1]) THEN Append(updates, Reading(sent[n + 1])) ELSE updates
  PROVE  Told(n + 1)'
<1>1. Measured(n + 1)' = Measured(n + 1) /\ \A k : Measured(k)' = Measured(k)
  BY DEF Measured
<1>2. /\ Len(updates) = Cardinality(Measured(n)) /\ Cardinality(Measured(n)) \in Nat
      /\ \A k \in Measured(n) : updates[Cardinality(Measured(k))] = Reading(sent[k])
  BY MeasuredStep DEF Told
<1>3. CASE ~IsReading(sent[n + 1])
  <2>1. Measured(n + 1) = Measured(n) /\ updates' = updates
    BY <1>3, MeasuredStep
  <2> QED
    BY <1>1, <1>2, <2>1 DEF Told
<1>4. CASE IsReading(sent[n + 1])
  <2> DEFINE r == Reading(sent[n + 1])
             c == Cardinality(Measured(n))
  <2>1. /\ Measured(n + 1) = Measured(n) \cup {n + 1} /\ Cardinality(Measured(n + 1)) = c + 1
        /\ updates' = Append(updates, r)
    BY <1>4, MeasuredStep
  <2>2. /\ Len(Append(updates, r)) = c + 1 /\ Append(updates, r)[c + 1] = r
        /\ \A i \in 1 .. c : Append(updates, r)[i] = updates[i]
    <3>1. \E S : updates \in Seq(S \cup {r})
      <4>1. updates \in Seq([node : Nat, batt : Nat, temp : Nat, light : Nat])
        BY DEF ProtocolTypeOK
      <4> DEFINE W == [node : Nat, batt : Nat, temp : Nat, light : Nat]
      <4>2. updates \in Seq(W \cup {r})
        <5>1. W \subseteq W \cup {r} /\ updates \in Seq(W)
          BY <4>1
        <5> HIDE DEF W, r
        <5>2. updates \in [1 .. Len(updates) -> W] /\ Len(updates) \in Nat
          BY <5>1, LenProperties, ElementOfSeq
        <5>3. updates = [i \in 1 .. Len(updates) |-> updates[i]]
          BY <5>2
        <5>4. \A i \in 1 .. Len(updates) : updates[i] \in W \cup {r}
          BY <5>2
        <5> QED
          BY <5>2, <5>3, <5>4, IsASeq
      <4> QED
        BY <4>2
    <3>2. PICK S : updates \in Seq(S \cup {r})
      BY <3>1
    <3> HIDE DEF r, c
    <3>3. r \in S \cup {r} /\ Len(updates) = c
      BY <1>2 DEF c
    <3> QED
      BY <3>2, <3>3, AppendProperties, LenProperties
  <2>3. \A k \in Measured(n) : Cardinality(Measured(k)) \in 1 .. c
    BY MeasuredPlace
  <2> HIDE DEF r, c
  <2>4. ASSUME NEW k \in Measured(n + 1)
        PROVE  updates'[Cardinality(Measured(k))] = Reading(sent[k])
    <3>1. CASE k = n + 1
      BY <2>1, <2>2, <3>1 DEF r
    <3>2. CASE k # n + 1
      BY <1>2, <2>1, <2>2, <2>3, <3>2
    <3> QED
      BY <3>1, <3>2
  <2> QED
    BY <1>1, <2>1, <2>2, <2>4 DEF Told
<1> QED
  BY <1>3, <1>4

(* Neither the packets told nor the measurements sent change. *)
LEMMA ToldKept ==
  ASSUME NEW n, Told(n), UNCHANGED <<sent, updates>>
  PROVE  Told(n)'
<1>1. \A k : Measured(k)' = Measured(k)
  BY DEF Measured
<1> QED
  BY <1>1 DEF Told

(* A step of the parser in a packet. *)
LEMMA UnderWayParse ==
  ASSUME ParserInv, ShortPackets, UnderWay, ReceivedBuf,
         NEW n \in Nat, Len(sent) = n + 1, NEW p \in Packets, p = Last(sent), WholePacket(p)
  PROVE  Resting' \/ UnderWay'
<1>1. /\ ProtocolTypeOK /\ sent # << >> /\ p = sent[n + 1] /\ p \in Seq(Byte) /\ n + 1 \in DOMAIN sent
  BY LastSent, LenProperties DEF ParserInv, UnderWay, ProtocolTypeOK
<1>2. RestOf(p) /\ Stored(p) /\ iter <= Taken(p) /\ iter \in Nat /\ Told(n) /\ parsing
  BY DEF UnderWay, ParserInv, ProtocolTypeOK, ReceivedBuf, ParseSpecial, ParseEscaped, ParsePlain,
     ParseStep, ParseStuck, Unparsed, OutOfBytes, NextState, PacketDone
<1>3. /\ Taken(p) \in Nat
      /\ bytes_read < bytes_to_read => Taken(p) < Len(Frame[p])
      /\ pos = Len(p) => Taken(p) = Len(Frame[p]) /\ next_is_special = 0
  BY <1>1, <1>2, TakenPlace
<1>4. Len(Frame[p]) < MAX_ITER /\ Len(Frame[p]) \in Nat
  BY <1>1, FrameType, LenProperties DEF ShortPackets
<1>5. buf \in Seq(Byte) /\ wire \in Seq(Byte) /\ Len(buf) \in Nat /\ Len(wire) \in Nat
  BY <1>1, LenProperties DEF ProtocolTypeOK
<1>6. CASE ParseSpecial \/ ParseEscaped \/ ParsePlain
  <2>1. Stored(p)' /\ RestOf(p)' /\ Taken(p)' = Taken(p) + 1
    BY <1>1, <1>2, <1>6, ParseKeeps
  <2>2. iter' = iter + 1 /\ parsing' = parsing /\ UNCHANGED <<sent, updates>>
    BY <1>6 DEF ParseSpecial, ParseEscaped, ParsePlain, ParseStep, lineVars
  <2>3. Told(n)'
    BY <1>2, <2>2, ToldKept
  <2>4. Last(sent)' = p /\ Len(sent)' = n + 1
    BY <2>2
  <2>5. iter' <= Taken(p)'
    BY <1>2, <1>3, <2>1, <2>2
  <2> QED
    BY <1>1, <1>2, <2>1, <2>2, <2>3, <2>4, <2>5 DEF UnderWay
<1>7. CASE ParseStuck
  BY <1>2, <1>3, <1>4, <1>7 DEF ParseStuck, Unparsed, Stuck, ParserInv, PacketPlace, ProtocolTypeOK
<1>8. CASE OutOfBytes
  <2>1. /\ buf = << >> /\ buf' = << >> /\ iter' = 0 /\ ~parsing'
        /\ bytes_read < bytes_to_read /\ UNCHANGED <<parseVars, wire, sent, updates>>
    BY <1>8 DEF OutOfBytes, CallReturns, lineVars
  <2>2. Len(wire) # 0
    <3>1. Len(buf) = 0
      BY <2>1, EmptySeq
    <3> QED
      BY <1>2, <1>3, <1>4, <1>5, <2>1, <3>1 DEF RestOf
  <2>3. wire # << >>
    BY <2>2, EmptySeq
  <2>4. RestOf(p)' /\ Stored(p)' /\ Taken(p)' = Taken(p)
    BY <1>2, <2>1 DEF RestOf, Stored, Taken, parseVars
  <2>5. Told(n)'
    BY <1>2, <2>1, ToldKept
  <2>6. Last(sent)' = p /\ Len(sent)' = n + 1
    BY <2>1
  <2>7. iter' <= Taken(p)'
    BY <1>3, <2>1, <2>4
  <2> QED
    BY <1>1, <2>1, <2>3, <2>4, <2>5, <2>6, <2>7 DEF UnderWay
<1>9. CASE NextState
  <2>1. iter' = 0 /\ UNCHANGED <<pos, next_is_special, packet, parsing, buf, wire, sent, updates>>
    BY <1>9 DEF NextState, lineVars
  <2>2. RestOf(p)' /\ Stored(p)' /\ Taken(p)' = Taken(p)
    BY <1>2, <2>1 DEF RestOf, Stored, Taken
  <2>3. Told(n)'
    BY <1>2, <2>1, ToldKept
  <2>4. Last(sent)' = p /\ Len(sent)' = n + 1
    BY <2>1
  <2>5. iter' <= Taken(p)'
    BY <1>3, <2>1, <2>2
  <2> QED
    BY <1>1, <1>2, <2>1, <2>2, <2>3, <2>4, <2>5 DEF UnderWay
<1>10. CASE PacketDone
  <2>1. /\ bytes_read = bytes_to_read /\ state = SEEKING_END_BYTE /\ UpdateSensors
        /\ state' = SEEKING_START_BYTE /\ bytes_read' = 0 /\ next_is_special' = 0
        /\ ~parsing' /\ buf' = << >> /\ iter' = 0 /\ UNCHANGED <<wire, sent>>
    BY <1>10 DEF PacketDone, Reset, CallReturns, lineVars
  <2>2. pos = Len(p) /\ Len(p) \in Nat
    BY <1>1, <1>2, <2>1, PlaceInPacket
  <2>3. wire = << >>
    <3>1. Len(wire) = 0
      BY <1>2, <1>3, <1>4, <1>5, <2>2 DEF RestOf
    <3> QED
      BY <1>5, <3>1, EmptySeq
  <2>4. \A k \in 1 .. Len(p) : packet[k - 1] = p[k]
    BY <1>2, <2>2 DEF Stored
  <2>5. Len(p) >= 10 /\ packet[4] = p[5]
    <3>1. Len(p) >= 10 /\ 5 \in 1 .. Len(p)
      BY <1>1, <2>2 DEF WholePacket
    <3>2. packet[5 - 1] = p[5]
      BY <2>4, <3>1
    <3> QED
      BY <3>1, <3>2
  <2>6. packet[4] = 11 => Measurement = Reading(p)
    <3> SUFFICES ASSUME packet[4] = 11 PROVE Measurement = Reading(p)
      OBVIOUS
    <3>1. Len(p) >= 27
      <4>1. p[7] \in Byte
        BY <1>1, <2>2, <2>5, ElementOfSeq
      <4>2. Len(p) = 10 + p[7] /\ p[7] >= 17
        BY <2>5 DEF WholePacket
      <4>3. \A n7 \in Byte : n7 >= 17 => 10 + n7 >= 27
        BY DEF Byte
      <4> QED
        BY <4>1, <4>2, <4>3
    <3>2. \A k \in 0 .. 26 : packet[k] = p[k + 1]
      <4> TAKE k \in 0 .. 26
      <4>1. k + 1 \in 1 .. Len(p) /\ k + 1 - 1 = k
        BY <2>2, <3>1
      <4> QED
        BY <2>4, <4>1
    <3>3. \A k \in 0 .. 25 : Word(k) = WordOf(p, k)
      <4> TAKE k \in 0 .. 25
      <4>1. k \in 0 .. 26 /\ k + 1 \in 0 .. 26 /\ k + 1 + 1 = k + 2
        OBVIOUS
      <4>2. packet[k] = p[k + 1] /\ packet[k + 1] = p[k + 2]
        BY <3>2, <4>1
      <4> QED
        BY <4>2 DEF Word, WordOf
    <3>4. Word(9) = WordOf(p, 9) /\ Word(18) = WordOf(p, 18) /\ Word(20) = WordOf(p, 20)
          /\ Word(22) = WordOf(p, 22)
      BY <3>3
    <3> QED
      BY <3>4 DEF Measurement, Reading
  <2>7. updates' = IF IsReading(p) THEN Append(updates, Reading(p)) ELSE updates
    BY <2>1, <2>5, <2>6 DEF UpdateSensors, IsReading
  <2>8. Told(n + 1)' /\ Len(sent)' = n + 1
    BY <1>1, <1>2, <2>1, <2>7, ToldNext
  <2> QED
    BY <2>1, <2>3, <2>8 DEF Resting
<1> QED
  BY <1>6, <1>7, <1>8, <1>9, <1>10 DEF ReceivedBuf

(* A packet is sent when the one before has been received whole. *)
LEMMA QuietSend ==
  ASSUME QuietLine, ParserInv, Resting \/ UnderWay, NEW p \in Packets, WholePacket(p), Send(p)
  PROVE  UnderWay'
<1>1. /\ ProtocolTypeOK /\ wire = << >> /\ ~parsing /\ wire' = wire \o Frame[p] /\ sent' = Append(sent, p)
      /\ UNCHANGED <<state, pos, next_is_special, packet, parsing, buf, iter, updates>>
  BY DEF Send, ParserInv, parseVars, callVars
<1>2. Resting
  BY <1>1 DEF UnderWay
<1>3. pos = 0 /\ next_is_special = 0 /\ buf = << >> /\ iter = 0
  <2>1. pos = Offset(state) + bytes_read /\ state = 1 /\ bytes_read = 0
    BY <1>2 DEF Resting, ParserInv, PacketPlace
  <2> QED
    BY <1>2, <2>1 DEF Resting, Offset
<1>4. sent \in Seq(Packets) /\ Len(sent) \in Nat /\ Told(Len(sent))
  BY <1>1, <1>2, LenProperties DEF ProtocolTypeOK, Resting
<1>5. /\ Len(sent') = Len(sent) + 1 /\ sent' # << >> /\ Last(sent') = p
      /\ \A k \in 1 .. Len(sent) : sent'[k] = sent[k]
  <2>1. /\ sent' \in Seq(Packets) /\ Len(sent') = Len(sent) + 1 /\ sent'[Len(sent) + 1] = p
        /\ \A k \in 1 .. Len(sent) : sent'[k] = sent[k]
    BY <1>1, <1>4, AppendProperties
  <2>2. sent' # << >>
    BY <1>4, <2>1, EmptySeq
  <2> QED
    BY <2>1, <2>2 DEF Last
<1>6. Frame[p] \in Seq(Byte) /\ Len(Frame[p]) \in Nat \ {0}
  <2>1. p \in Seq(Byte) /\ Frame[p] \in Seq(Byte) /\ Len(Frame[p]) = Begins(p, Len(p) + 1) - 1
    BY FrameType
  <2>2. Len(p) \in Nat /\ Len(p) + 1 \in Nat /\ Len(p) >= 10
    BY <2>1, LenProperties DEF WholePacket
  <2>3. Begins(p, Len(p) + 1) \in Nat /\ Begins(p, Len(p) + 1) >= Len(p) + 1
    BY <2>1, <2>2, BeginsStep
  <2> QED
    BY <2>1, <2>2, <2>3
<1>7. wire' = Frame[p] /\ wire' # << >>
  <2>1. << >> \o Frame[p] = Frame[p]
    BY <1>6, ConcatEmptySeq
  <2> QED
    BY <1>1, <1>6, <2>1, EmptySeq
<1>8. Taken(p)' = 0
  <2>1. p \in Seq(Byte) /\ Begins(p, 1) = 1
    BY FrameType, BeginsAtOne
  <2>2. pos' + 1 = 1 /\ next_is_special' = 0
    BY <1>1, <1>3
  <2> QED
    BY <2>1, <2>2 DEF Taken
<1>9. RestOf(p)'
  <2>1. Len(buf') = 0 /\ buf' = << >>
    BY <1>1, <1>3, EmptySeq
  <2> HIDE DEF Frame, Taken
  <2> QED
    BY <1>6, <1>7, <1>8, <2>1 DEF RestOf
<1>10. Stored(p)'
  BY <1>1, <1>3 DEF Stored
<1>11. ASSUME NEW n \in Nat, n = Len(sent) PROVE Told(n)'
  <2>1. \A k \in 1 .. n : IsReading(sent[k])' <=> IsReading(sent[k])
    BY <1>5, <1>11 DEF IsReading, Reading, WordOf
  <2>2. \A m \in 0 .. n : Measured(m)' = Measured(m)
    BY <2>1 DEF Measured
  <2>3. /\ Len(updates) = Cardinality(Measured(n))
        /\ \A k \in Measured(n) : updates[Cardinality(Measured(k))] = Reading(sent[k])
    BY <1>4, <1>11 DEF Told
  <2>4. Measured(n)' = Measured(n) /\ \A k \in Measured(n) : k \in 1 .. n /\ Measured(k)' = Measured(k)
    <3>1. \A k \in Measured(n) : k \in 1 .. n
      BY DEF Measured
    <3> QED
      BY <2>2, <3>1
  <2>5. \A k \in Measured(n) : Reading(sent[k])' = Reading(sent[k])
    BY <1>5, <1>11, <2>4 DEF Reading, WordOf
  <2> HIDE DEF Reading, Measured
  <2> QED
    BY <1>1, <2>3, <2>4, <2>5 DEF Told
<1>12. (Told(Len(sent) - 1))'
  <2>1. PICK n \in Nat : n = Len(sent)
    BY <1>4
  <2>2. Told(n)' /\ Len(sent)' - 1 = n
    BY <1>5, <1>11, <2>1
  <2> QED
    BY <2>2
<1> QED
  BY <1>1, <1>3, <1>5, <1>7, <1>8, <1>9, <1>10, <1>12 DEF UnderWay

(* The TTY layer hands over the next bytes of the packet. *)
LEMMA QuietReceive ==
  ASSUME ParserInv, Resting \/ UnderWay, NEW n \in 1 .. Len(wire), Receive(n),
         NEW m \in Nat, Len(sent) = m + 1, NEW p \in Packets, p = Last(sent), WholePacket(p)
  PROVE  UnderWay'
<1>1. /\ ProtocolTypeOK /\ ~parsing /\ parsing' /\ iter' = 0
      /\ buf' = SubSeq(wire, 1, n) /\ wire' = SubSeq(wire, n + 1, Len(wire))
      /\ UNCHANGED <<pos, next_is_special, packet, sent, updates>>
  BY DEF Receive, ParserInv, parseVars
<1>2. wire \in Seq(Byte) /\ Len(wire) \in Nat
  BY <1>1, LenProperties DEF ProtocolTypeOK
<1>3. UnderWay
  BY <1>2, EmptySeq DEF Resting
<1>4. buf = << >> /\ Len(buf) = 0 /\ RestOf(p) /\ Stored(p) /\ Told(m) /\ sent # << >>
  BY <1>1, <1>3, EmptySeq DEF UnderWay
<1>5. /\ Len(buf') = n /\ \A i \in 1 .. n : buf'[i] = wire[i]
      /\ Len(wire') = Len(wire) - n /\ \A i \in 1 .. Len(wire) - n : wire'[i] = wire[n + i]
  BY <1>1, <1>2
<1>6. Taken(p)' = Taken(p) /\ Taken(p) \in Nat
  BY <1>1, <1>4, TakenPlace DEF Taken
<1>7. RestOf(p)'
  <2>1. Taken(p)' + Len(buf)' + Len(wire)' = Len(Frame[p])
    <3>1. Taken(p) + 0 + Len(wire) = Len(Frame[p])
      BY <1>4 DEF RestOf
    <3>2. Taken(p)' + n + (Len(wire) - n) = Taken(p) + 0 + Len(wire)
      BY <1>2, <1>6
    <3> QED
      BY <1>5, <3>1, <3>2
  <2>2. ASSUME NEW i \in 1 .. Len(buf') PROVE buf'[i] = Frame[p][Taken(p)' + i]
    <3>1. i \in 1 .. Len(wire) /\ buf'[i] = wire[i]
      BY <1>2, <1>5
    <3>2. wire[i] = Frame[p][Taken(p) + 0 + i]
      BY <1>4, <3>1 DEF RestOf
    <3>3. Taken(p) + 0 + i = Taken(p)' + i
      BY <1>6
    <3> QED
      BY <3>1, <3>2, <3>3
  <2>3. ASSUME NEW i \in 1 .. Len(wire') PROVE wire'[i] = Frame[p][Taken(p)' + Len(buf') + i]
    <3>1. n + i \in 1 .. Len(wire) /\ wire'[i] = wire[n + i]
      BY <1>2, <1>5
    <3>2. wire[n + i] = Frame[p][Taken(p) + Len(buf) + (n + i)]
      BY <3>1, <1>4 DEF RestOf
    <3>3. Taken(p) + Len(buf) + (n + i) = Taken(p)' + Len(buf') + i
      BY <1>2, <1>4, <1>5, <1>6
    <3> QED
      BY <3>1, <3>2, <3>3
  <2> QED
    BY <2>1, <2>2, <2>3 DEF RestOf
<1>8. Stored(p)'
  BY <1>1, <1>4 DEF Stored
<1>9. Told(m)' /\ Len(sent)' = m + 1 /\ Last(sent)' = p
  BY <1>1, <1>4, ToldKept
<1>10. Len(sent)' - 1 = m
  BY <1>9
<1> QED
  BY <1>1, <1>4, <1>6, <1>7, <1>8, <1>9, <1>10 DEF UnderWay

LEMMA QuietKept ==
  ASSUME Resting \/ UnderWay,
         UNCHANGED <<state, bytes_read, pos, next_is_special, packet, parsing, buf, iter, wire,
                     sent, updates>>
  PROVE  Resting' \/ UnderWay'
<1>1. \A n : Told(n) => Told(n)'
  BY ToldKept
<1>2. CASE Resting
  <2>1. Told(Len(sent))'
    BY <1>2 DEF Resting, Told, Measured
  <2> QED
    BY <1>2, <2>1 DEF Resting
<1>3. CASE UnderWay
  <2>1. (Told(Len(sent) - 1))'
    BY <1>3 DEF UnderWay, Told, Measured
  <2>2. (RestOf(Last(sent)) /\ Stored(Last(sent)) /\ iter <= Taken(Last(sent)))'
    BY <1>3 DEF UnderWay, RestOf, Stored, Taken
  <2> QED
    BY <1>3, <2>1, <2>2 DEF UnderWay
<1> QED
  BY <1>2, <1>3

LEMMA QuietNext ==
  ASSUME QuietLine, \A p \in Packets : WholePacket(p), ParserInv, QuietInv, [ProtocolNext]_protocolVars
  PROVE  QuietInv'
<1> SUFFICES ASSUME ShortPackets' PROVE Resting' \/ UnderWay'
  BY DEF QuietInv
<1> USE DEF ldiscVars, parseVars, callVars, lineVars
<1>1. CASE UNCHANGED sent
  <2>1. ShortPackets
    BY <1>1 DEF ShortPackets
  <2>2. Resting \/ UnderWay
    BY <2>1 DEF QuietInv
  <2>3. sent # << >> => \E n \in Nat, p \in Packets : Len(sent) = n + 1 /\ p = Last(sent)
    <3>1. sent # << >> => Len(sent) \in Nat \ {0} /\ Last(sent) \in Packets
      BY LastSent DEF ParserInv
    <3>2. \A l \in Nat \ {0} : \E n \in Nat : l = n + 1
      <4> TAKE l \in Nat \ {0}
      <4>1. l - 1 \in Nat /\ l = l - 1 + 1
        OBVIOUS
      <4> QED
        BY <4>1
    <3> QED
      BY <3>1, <3>2
  <2>4. CASE UNCHANGED protocolVars
    BY <2>2, <2>4, QuietKept DEF protocolVars
  <2>5. ASSUME NEW tty \in TTYs, OpenTTY(tty) PROVE Resting' \/ UnderWay'
    BY <2>2, <2>5, QuietKept DEF OpenTTY
  <2>6. ASSUME NEW tty \in TTYs, CloseTTY(tty) PROVE Resting' \/ UnderWay'
    BY <2>2, <2>6, QuietKept DEF CloseTTY
  <2>7. CASE ReceivedBuf
    <3>1. parsing
      BY <2>7 DEF ReceivedBuf, ParseSpecial, ParseEscaped, ParsePlain, ParseStep, ParseStuck,
         Unparsed, OutOfBytes, NextState, PacketDone
    <3>2. UnderWay /\ sent # << >>
      BY <2>2, <3>1 DEF Resting, UnderWay
    <3>3. PICK n \in Nat, p \in Packets : Len(sent) = n + 1 /\ p = Last(sent)
      BY <2>3, <3>2
    <3> QED
      BY <2>1, <2>7, <3>2, <3>3, UnderWayParse
  <2>8. ASSUME NEW n \in 1 .. Len(wire), Receive(n) PROVE Resting' \/ UnderWay'
    <3>1. wire # << >>
      <4>1. wire \in Seq(Byte)
        BY DEF ParserInv, ProtocolTypeOK
      <4> QED
        BY <2>8, <4>1, EmptySeq
    <3>2. sent # << >>
      BY <2>2, <3>1 DEF Resting, UnderWay
    <3>3. PICK m \in Nat, p \in Packets : Len(sent) = m + 1 /\ p = Last(sent)
      BY <2>3, <3>2
    <3> QED
      BY <2>2, <2>8, <3>3, QuietReceive
  <2>9. ASSUME NEW p \in Packets, Send(p) PROVE FALSE
    <3>1. sent \in Seq(Packets) /\ sent' = Append(sent, p) /\ Len(sent) \in Nat
      BY <2>9, LenProperties DEF Send, ParserInv, ProtocolTypeOK
    <3>2. Len(Append(sent, p)) = Len(sent) + 1
      BY <3>1, AppendProperties
    <3> QED
      BY <1>1, <3>1, <3>2
  <2> QED
    BY <2>4, <2>5, <2>6, <2>7, <2>8, <2>9 DEF ProtocolNext
<1>2. ASSUME NEW p \in Packets, Send(p) PROVE UnderWay'
  <2>1. sent \in Seq(Packets) /\ sent' = Append(sent, p) /\ Len(sent) \in Nat
        /\ DOMAIN sent = 1 .. Len(sent)
    BY <1>2, LenProperties DEF Send, ParserInv, ProtocolTypeOK
  <2>2. DOMAIN sent' = 1 .. Len(sent) + 1 /\ \A k \in 1 .. Len(sent) : sent'[k] = sent[k]
    BY <2>1, AppendProperties
  <2>3. ShortPackets
    BY <2>1, <2>2 DEF ShortPackets
  <2>4. Resting \/ UnderWay
    BY <2>3 DEF QuietInv
  <2> QED
    BY <1>2, <2>4, QuietSend
<1>3. UNCHANGED sent \/ \E p \in Packets : Send(p)
  BY DEF ProtocolNext, protocolVars, OpenTTY, CloseTTY, Receive, ReceivedBuf, ParseSpecial, ParseEscaped, ParsePlain,
     ParseStep, ParseStuck, OutOfBytes, NextState, PacketDone
<1> QED
  BY <1>1, <1>2, <1>3

(* However the TTY layer cuts the packets into calls, the sensors have     *)
(* been told of each measurement once, in order and with its values, and   *)
(* of nothing else: on a quiet line and for packets that a debug build     *)
(* does not give up on.  (lunix-protocol.c:119-274, lunix-ldisc.c:77-104)  *)
THEOREM ReadingsTold ==
  ASSUME \A p \in Packets : WholePacket(p)
  PROVE  ProtocolSpec => []EveryReadingOnce
<1>1. CASE QuietLine
  <2>1. ProtocolInit => QuietInv
    <3> SUFFICES ASSUME ProtocolInit PROVE Resting
      BY DEF QuietInv
    <3>1. Len(sent) = 0 /\ Len(updates) = 0 /\ sent = << >>
      BY EmptySeq DEF ProtocolInit
    <3>2. Measured(0) = {}
      BY DEF Measured
    <3>3. Told(0)
      BY <3>1, <3>2, FS_EmptySet DEF Told
    <3> QED
      BY <3>1, <3>3 DEF ProtocolInit, Resting
  <2>2. ParserInv /\ QuietInv /\ [ProtocolNext]_protocolVars => QuietInv'
    BY <1>1, QuietNext
  <2>3. QuietInv => EveryReadingOnce
    BY DEF QuietInv, ShortPackets, EveryReadingOnce, Resting, UnderWay
  <2> QED
    BY <2>1, <2>2, <2>3, ParserInductive, PTL DEF ProtocolSpec
<1>2. CASE ~QuietLine
  <2>1. EveryReadingOnce
    BY <1>2 DEF EveryReadingOnce
  <2> QED
    BY <2>1, PTL
<1> QED
  BY <1>1, <1>2, LineAssumption
=============================================================================
