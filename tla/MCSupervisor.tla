---------------------------- MODULE MCSupervisor ----------------------------
(***************************************************************************)
(* Supervisor on a small instance.  Fingerprints are interchangeable.      *)
(***************************************************************************)
EXTENDS SupervisorClaims, TLC

PidSymmetry == Permutations(Pids)

=============================================================================
