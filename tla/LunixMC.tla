------------------------------ MODULE LunixMC ------------------------------
(***************************************************************************)
(* Instances of the two sides of a sensor of Lunix:TNG, the discipline     *)
(* with the parser behind it and the character device.  The state they     *)
(* share, the sensor's pages, is what the device's StoreValue and StoreTime *)
(* write when lunix_sensor_update is called; how that call comes about is  *)
(* the discipline's part.  A behaviour is one of the side it starts with;  *)
(* the other stays where it is.                                            *)
(***************************************************************************)
EXTENDS LunixProtocolMC, LunixChrdevMC

VARIABLE side

lunixVars == <<side, protocolVars, deviceVars>>

LunixInit ==
  /\ side \in {"line", "device"} /\ ProtocolInit /\ DeviceInit
  /\ side = "line" => fileOf = CHOOSE s \in Sharings : TRUE

LunixNext ==
  \/ side = "line" /\ ProtocolNext /\ UNCHANGED <<side, deviceVars>>
  \/ side = "device" /\ DeviceNext /\ UNCHANGED <<side, protocolVars>>

LunixSpec == LunixInit /\ [][LunixNext]_lunixVars /\ DeviceFairness
=============================================================================
