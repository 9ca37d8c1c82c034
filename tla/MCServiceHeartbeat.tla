------------------------- MODULE MCServiceHeartbeat -------------------------
(***************************************************************************)
(* Connections for model checking ServiceHeartbeat.                         *)
(***************************************************************************)
EXTENDS ServiceHeartbeat

\* Every connection goes to the first gateway; each is of a device of its own.
MCGatewayOf(c) == "g1"
MCDeviceOf(c) == IF c = "c2" THEN "e" ELSE "d"
=============================================================================
