----------------------------- MODULE MCMetering -----------------------------
(***************************************************************************)
(* Metering on a small instance.                                           *)
(***************************************************************************)
EXTENDS Metering

=============================================================================
