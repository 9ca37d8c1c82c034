---------------------- MODULE MCAppliedConfigurations ----------------------
(* A configuration of two resources, the first with a time to live, applied *)
(* by conditions and on demand with the force flag.                         *)
EXTENDS AppliedConfigurations

CONSTANTS a1, a2, r1, r2, c1, c2

MCResources == <<r1, r2>>
MCConditions == <<c1, c2>>
=============================================================================
