--------------------------- MODULE LunixChrdevMC ---------------------------
(***************************************************************************)
(* Instances of LunixChrdev: two processes with a file each, or with one   *)
(* between them, and texts of two lengths.                                 *)
(***************************************************************************)
EXTENDS LunixChrdev

MCSharings == {[p \in Procs |-> p], [p \in Procs |-> "p1"]}
MCTextLen == [k \in 0 .. MaxUpdates |-> IF k % 2 = 0 THEN 5 ELSE 2]
=============================================================================
