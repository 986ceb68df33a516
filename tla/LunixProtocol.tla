--------------------------- MODULE LunixProtocol ---------------------------
(***************************************************************************)
(* The Lunix:TNG line discipline (lunix-ldisc.c) and the protocol state    *)
(* machine behind it (lunix-protocol.c): motes send packets over a serial  *)
(* line, the TTY layer hands the bytes over in calls cut anywhere, and     *)
(* each whole packet with a measurement updates a sensor.                  *)
(***************************************************************************)
EXTENDS Integers, SequencesExt

CONSTANTS
  TTYs,        \* the terminals the discipline may be set on
  SensorCnt,   \* lunix_sensor_cnt
  Packets,     \* the packets the motes may send, as they are in the buffer
  MaxPackets,  \* bound: they send no more than this
  QuietLine    \* TRUE: a packet is sent only when the one before has been
               \* received whole, and none is under way at a close

Byte == 0 .. 255
MAX_PACKET_LEN == 300
Places == 0 .. MAX_PACKET_LEN - 1
MAX_ITER == 50             \* of a build with LUNIX_DEBUG, the default

ASSUME SensorAssumption == SensorCnt \in Nat /\ MaxPackets \in Nat
ASSUME LineAssumption == QuietLine \in BOOLEAN

(* state->state *)
SEEKING_START_BYTE == 1
SEEKING_DESTINATION_ADDRESS == 3
SEEKING_PAYLOAD_LENGTH == 6
SEEKING_PAYLOAD == 7
SEEKING_CRC == 8
SEEKING_END_BYTE == 9
States == SEEKING_START_BYTE .. SEEKING_END_BYTE

Flag == 126      \* 0x7E
Escape == 125    \* 0x7D
Specials == {Flag, Escape}

(* b ^ 0x20 *)
Flip(b) == IF b % 64 < 32 THEN b + 32 ELSE b - 32

VARIABLES
  available, \* lunix_disc_available
  attached,  \* the TTYs the discipline is set on
  state, bytes_read, bytes_to_read, pos, next_is_special, packet,
  parsing,   \* lunix_protocol_received_buf has been called
  buf,       \* what it has not parsed yet
  iter,      \* of the running lunix_protocol_parse_state
  wire,      \* bytes that the TTY layer has not handed over yet
  sent,      \* the packets sent
  updates    \* the calls of lunix_sensor_update: node, batt, temp, light

ldiscVars == <<available, attached>>
parseVars == <<state, bytes_read, bytes_to_read, pos, next_is_special, packet>>
callVars  == <<parsing, buf, iter>>
lineVars  == <<wire, sent>>
protocolVars == <<available, attached, state, bytes_read, bytes_to_read, pos,
                  next_is_special, packet, parsing, buf, iter, wire, sent, updates>>

ProtocolInit ==
  /\ available = 1 /\ attached = {}
  /\ state = SEEKING_START_BYTE /\ bytes_to_read = 1 /\ bytes_read = 0
  /\ pos = 0 /\ next_is_special = 0
  /\ packet = [k \in Places |-> 0]
  /\ parsing = FALSE /\ buf = << >> /\ iter = 0
  /\ wire = << >> /\ sent = << >> /\ updates = << >>

-----------------------------------------------------------------------------
(***************************************************************************)
(* The line discipline.                                                    *)
(***************************************************************************)
(* Variant, for mutation: the counter is not looked at. *)
MayAlwaysOpen == TRUE

MayOpen == available # 0

OpenTTY(tty) ==
  /\ tty \notin attached /\ MayOpen
  /\ available' = available - 1 /\ attached' = attached \cup {tty}
  /\ UNCHANGED <<parseVars, callVars, lineVars, updates>>

(* What has been received of a packet stays; bytes under way are lost.     *)
CloseTTY(tty) ==
  /\ tty \in attached /\ ~parsing
  /\ QuietLine => wire = << >>
  /\ available' = available + 1 /\ attached' = attached \ {tty}
  /\ wire' = << >>
  /\ UNCHANGED <<parseVars, callVars, sent, updates>>

(* lunix_ldisc_receive passes its n bytes on to lunix_protocol_received_buf. *)
Receive(n) ==
  /\ attached # {} /\ ~parsing
  /\ parsing' = TRUE /\ iter' = 0
  /\ buf' = SubSeq(wire, 1, n) /\ wire' = SubSeq(wire, n + 1, Len(wire))
  /\ UNCHANGED <<ldiscVars, parseVars, sent, updates>>

(* The packet on the line: all but its first two and its last byte are     *)
(* stuffed, which makes a byte two.                                        *)
Special(p) == {k \in 3 .. Len(p) - 1 : p[k] \in Specials}

(* Where its k-th byte begins there. *)
Begins(p, k) == k + Cardinality({j \in Special(p) : j < k})

OnLine(p, i) ==
  LET k == CHOOSE k \in DOMAIN p : Begins(p, k) <= i /\ i < Begins(p, k + 1)
  IN IF k \notin Special(p) THEN p[k] ELSE IF i = Begins(p, k) THEN Escape ELSE Flip(p[k])

Frame == [p \in Packets |-> [i \in 1 .. Begins(p, Len(p) + 1) - 1 |-> OnLine(p, i)]]

ASSUME PacketAssumption == Packets \subseteq Seq(Byte)

Send(p) ==
  /\ attached # {} /\ Len(sent) < MaxPackets
  /\ QuietLine => wire = << >> /\ ~parsing /\ state = SEEKING_START_BYTE
  /\ wire' = wire \o Frame[p] /\ sent' = Append(sent, p)
  /\ UNCHANGED <<ldiscVars, parseVars, callVars, updates>>

(***************************************************************************)
(* lunix_protocol_received_buf: one step for each round of the loop of     *)
(* lunix_protocol_parse_state, one for each state that is done.            *)
(***************************************************************************)
Unparsed == parsing /\ buf # << >> /\ bytes_read < bytes_to_read
(* Variant: one round too many. *)
StuckLate == iter = MAX_ITER \/ pos = MAX_PACKET_LEN

Stuck == iter + 1 = MAX_ITER \/ pos = MAX_PACKET_LEN
UsesSpecials == state \in SEEKING_DESTINATION_ADDRESS .. SEEKING_CRC

CallReturns == parsing' = FALSE /\ buf' = << >> /\ iter' = 0

Store(b) ==
  /\ packet' = [packet EXCEPT ![pos] = b]
  /\ pos' = pos + 1 /\ bytes_read' = bytes_read + 1

ParseStep == /\ Unparsed /\ ~Stuck
             /\ buf' = Tail(buf) /\ iter' = iter + 1
             /\ UNCHANGED <<ldiscVars, state, bytes_to_read, parsing, lineVars, updates>>

ParseSpecial ==
  /\ ParseStep
  /\ UsesSpecials /\ next_is_special = 0 /\ Head(buf) \in Specials
  /\ next_is_special' = Head(buf)
  /\ UNCHANGED <<bytes_read, pos, packet>>

(* Variant: an escaped byte is stored as it comes. *)
DecodedAsIs(b) == b

Decoded(b) == IF next_is_special = Escape THEN Flip(b) ELSE b

ParseEscaped ==
  /\ ParseStep
  /\ UsesSpecials /\ next_is_special # 0
  /\ Store(Decoded(Head(buf)))
  /\ next_is_special' = 0

ParsePlain ==
  /\ ParseStep
  /\ ~UsesSpecials \/ (next_is_special = 0 /\ Head(buf) \notin Specials)
  /\ Store(Head(buf))
  /\ UNCHANGED next_is_special

(* The debug build gives up in the 50th round, and nothing may be written  *)
(* behind the buffer; what is left of the call is dropped.                 *)
ParseStuck ==
  /\ Unparsed /\ Stuck
  /\ pos' = IF iter + 1 = MAX_ITER THEN pos ELSE 0
  /\ CallReturns
  /\ UNCHANGED <<ldiscVars, state, bytes_read, bytes_to_read, next_is_special, packet,
                 lineVars, updates>>

(* There is nothing left to parse. *)
OutOfBytes ==
  /\ parsing /\ buf = << >> /\ bytes_read < bytes_to_read
  /\ CallReturns
  /\ UNCHANGED <<ldiscVars, parseVars, lineVars, updates>>

BytesToRead(s) == IF s \in {SEEKING_DESTINATION_ADDRESS, SEEKING_CRC} THEN 2
                  ELSE IF s = SEEKING_PAYLOAD THEN packet[pos - 1] ELSE 1

(* The next state is looked at in the same call. *)
NextState ==
  /\ parsing /\ bytes_read = bytes_to_read /\ state # SEEKING_END_BYTE
  /\ state' = state + 1 /\ bytes_to_read' = BytesToRead(state + 1) /\ bytes_read' = 0
  /\ iter' = 0
  /\ UNCHANGED <<ldiscVars, pos, next_is_special, packet, parsing, buf, lineVars, updates>>

(* lunix_protocol_update_sensors *)
Word(k) == packet[k] + 256 * packet[k + 1]
Measurement == [node |-> Word(9), batt |-> Word(18), temp |-> Word(20), light |-> Word(22)]

UpdateSensors ==
  updates' = IF packet[4] = 11 /\ Measurement.node \in 1 .. SensorCnt
             THEN Append(updates, Measurement) ELSE updates

(* Variant: the parser starts a packet where the last one ended. *)
ResetSkipped == UNCHANGED <<pos, next_is_special>>

Reset == pos' = 0 /\ next_is_special' = 0

(* The state after the last one has been passed already in this call: what *)
(* is left of it is dropped.                                               *)
PacketDone ==
  /\ parsing /\ bytes_read = bytes_to_read /\ state = SEEKING_END_BYTE
  /\ UpdateSensors
  /\ state' = SEEKING_START_BYTE /\ bytes_to_read' = 1 /\ bytes_read' = 0
  /\ Reset /\ CallReturns
  /\ UNCHANGED <<ldiscVars, packet, lineVars>>

ReceivedBuf == \/ ParseSpecial \/ ParseEscaped \/ ParsePlain \/ ParseStuck
               \/ OutOfBytes \/ NextState \/ PacketDone

ProtocolNext ==
  \/ \E tty \in TTYs : OpenTTY(tty) \/ CloseTTY(tty)
  \/ \E p \in Packets : Send(p)
  \/ \E n \in 1 .. Len(wire) : Receive(n)
  \/ ReceivedBuf

ProtocolSpec == ProtocolInit /\ [][ProtocolNext]_protocolVars

-----------------------------------------------------------------------------
(* Every variable has its type. *)
ProtocolTypeOK ==
  /\ available \in Int /\ attached \in SUBSET TTYs
  /\ state \in States /\ bytes_read \in Nat /\ bytes_to_read \in Nat /\ pos \in Nat
  /\ next_is_special \in {0} \cup Specials
  /\ packet \in [Places -> Byte]
  /\ parsing \in BOOLEAN /\ buf \in Seq(Byte) /\ iter \in 0 .. MAX_ITER - 1
  /\ wire \in Seq(Byte) /\ sent \in Seq(Packets)
  /\ updates \in Seq([node : Nat, batt : Nat, temp : Nat, light : Nat])

(* Where in the buffer the first byte of state s is put; the payload length *)
(* is in packet[6].                                                        *)
Offset(s) == IF s <= SEEKING_DESTINATION_ADDRESS THEN s - 1
             ELSE IF s <= SEEKING_PAYLOAD THEN s
             ELSE IF s = SEEKING_CRC THEN 7 + packet[6] ELSE 9 + packet[6]

(* The bytes go where the table of lunix-protocol.c says, however the calls *)
(* are cut, whatever the bytes are and whatever calls were given up: the   *)
(* place in the buffer is always that of the state, and inside the buffer. *)
PacketPlace ==
  /\ bytes_read <= bytes_to_read
  /\ bytes_to_read = IF state \in {SEEKING_DESTINATION_ADDRESS, SEEKING_CRC} THEN 2
                     ELSE IF state = SEEKING_PAYLOAD THEN packet[6] ELSE 1
  /\ pos = Offset(state) + bytes_read
  /\ pos < MAX_PACKET_LEN

(* "This line discipline can only be associated with a single TTY at any   *)
(* time" (lunix-ldisc.c), and the next one can have it when it is closed.  *)
SingleTTY == \/ available = 1 /\ attached = {}
             \/ available = 0 /\ \E tty \in TTYs : attached = {tty}

(* What the sensors are told of a packet, read from the packet itself.     *)
WordOf(p, k) == p[k + 1] + 256 * p[k + 2]
Reading(p) == [node |-> WordOf(p, 9), batt |-> WordOf(p, 18), temp |-> WordOf(p, 20),
               light |-> WordOf(p, 22)]
IsReading(p) == p[5] = 11 /\ Reading(p).node \in 1 .. SensorCnt

(* The measurements among the first n packets sent. *)
Measured(n) == {k \in 1 .. n : IsReading(sent[k])}

Told(n) == /\ Len(updates) = Cardinality(Measured(n))
           /\ \A k \in Measured(n) : updates[Cardinality(Measured(k))] = Reading(sent[k])

(* However the TTY layer cuts a packet into calls, each packet with a      *)
(* measurement has become one update of its sensor with its own values,    *)
(* in order, and no other packet has: on a quiet line, and unless a packet *)
(* was so long that a debug build gives up on it.                          *)
EveryReadingOnce ==
  (QuietLine /\ wire = << >> /\ ~parsing /\ \A k \in DOMAIN sent : Len(Frame[sent[k]]) < MAX_ITER)
     => Told(Len(sent))

(* A whole packet begins with the "Packet Start byte signature" and ends   *)
(* with the "Packet End byte signature" 0x7E (table of lunix-protocol.c).  *)
PacketsAreFramed ==
  [][pos # 0 /\ pos' = 0 => packet[0] = Flag /\ packet[pos - 1] = Flag]_protocolVars
=============================================================================
