-------------------------- MODULE SupervisorClaims --------------------------
(***************************************************************************)
(* Sentences of the documentation and of comments about supervision, as    *)
(* properties of Supervisor.  Each is refuted by a behaviour of the code;  *)
(* the README quotes them.                                                 *)
(***************************************************************************)
EXTENDS Supervisor

(***************************************************************************)
(* Supervisor::restart: "or an operator stopped it back to `stopped`, the  *)
(* gate rejects and this restart is a harmless no-op".                     *)
(***************************************************************************)
StoppedIsLeftByOperatorOnly ==
    [][\A n \in Names :
         row[n] = "stopped" /\ row'[n] = "starting" => UNCHANGED plans]_vars

(***************************************************************************)
(* Engine::set_restart_policy: "Persists the policy so a subsequent        *)
(* `start` reads it and the reaper honors it on a crash."                  *)
(***************************************************************************)
PolicyIsKept ==
    up /\ op = Idle =>
        \A n \in Names :
            row[n] # Absent => effective_restart_policy(n) = configured[n]

=============================================================================
