---------------------------- MODULE MCElevation ----------------------------
(***************************************************************************)
(* Elevation with at most two failing calls.                               *)
(***************************************************************************)
EXTENDS Elevation
=============================================================================
