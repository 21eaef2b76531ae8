------------------------------ MODULE Lifecycle ------------------------------
(***************************************************************************)
(* The pure tables every other module reads: the uniform lifecycle of an   *)
(* Agent Instance (domain/lifecycle.rs, domain/transition.rs) and the      *)
(* Restart Policy's crash-loop rule and backoff (domain/restart.rs).       *)
(***************************************************************************)
EXTENDS Naturals

CONSTANT MaxFailures    \* MAX_CONSECUTIVE_FAILURES: 5 in the source

ASSUME MaxFailuresAssumption == MaxFailures \in Nat \ {0}

States == {"registered", "starting", "running", "paused", "stopping",
           "stopped", "failed"}

LifecycleCommand == {"start", "stop", "pause", "resume"}

(***************************************************************************)
(* next_state: the command edges.  A pair outside this set is the single   *)
(* InvalidTransition error, so a command is a guard here, never a step.    *)
(***************************************************************************)
CommandEdges ==
    {<<"registered", "start", "starting">>, <<"stopped", "start", "starting">>,
     <<"failed", "start", "starting">>,
     <<"running", "stop", "stopping">>, <<"paused", "stop", "stopping">>,
     <<"running", "pause", "paused">>, <<"paused", "resume", "running">>}

Accepts(s, c) == \E t \in States : <<s, c, t>> \in CommandEdges

next_state(s, c) == CHOOSE t \in States : <<s, c, t>> \in CommandEdges

\* The edges the supervisor applies on process events, outside the table.
EventEdges ==
    {<<"starting", "running">>, <<"starting", "failed">>,
     <<"stopping", "stopped">>,
     <<"running", "failed">>, <<"paused", "failed">>}

Edges == {<<e[1], e[3]>> : e \in CommandEdges} \cup EventEdges

\* The states in which an operator believes a process is being supervised.
LiveStates == {"running", "paused"}

is_removable_without_force(s) == s # "running"

-----------------------------------------------------------------------------
Policies == {"never", "on-failure"}

DefaultPolicy == "on-failure"

restarts_on_crash(policy) == policy = "on-failure"

is_crash_loop(n) == n >= MaxFailures

\* The attempts a RestartPlan can carry: the counts below the crash loop.
Attempts == 1 .. MaxFailures - 1

=============================================================================
