-------------------------- MODULE LunixProtocolMC --------------------------
(***************************************************************************)
(* Packets for LunixProtocol: a measurement of a known node with bytes     *)
(* that are stuffed on the line, one of an unknown node, a packet of       *)
(* another type without a payload, and one too long for a debug build,     *)
(* unless it is cut.                                                       *)
(***************************************************************************)
EXTENDS LunixProtocol

Packet(amtype, payload) ==
  <<Flag, 66, 255, 255, amtype, Escape, Len(payload)>> \o payload \o <<Flag, 1, Flag>>

Payload(node, batt, temp, light) ==
  <<0, 0, node, 0, 0, 0, 0, 0, 0, 0, 0>> \o batt \o temp \o light

MCPackets == { Packet(11, Payload(1, <<Flag, 1>>, <<2, Escape>>, <<Flip(Flag), 3>>)),
               Packet(11, Payload(7, <<4, 5>>, <<6, 7>>, <<8, 9>>)),
               Packet(3, << >>),
               Packet(11, [k \in 1 .. 50 |-> k]) }
=============================================================================
