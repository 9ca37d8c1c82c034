-------------------------- MODULE MCEventProjection --------------------------
(***************************************************************************)
(* Constants for model checking EventProjection.                            *)
(***************************************************************************)
EXTENDS EventProjection

\* An aggregate without events, and a projection that has loaded nothing.
MCNothingStored == -1
=============================================================================
