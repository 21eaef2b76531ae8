------------------------------ MODULE MCServices ------------------------------
(***************************************************************************)
(* The services around the supervised agents, on small instances: the      *)
(* ledger that meters them (Metering), the jobs that hold them on Windows  *)
(* (JobHandles) and the executable that replaces itself (SelfUpdate).      *)
(* They share no variable and are checked side by side: a behaviour is one *)
(* of a single part, chosen in its first state, and the others stay        *)
(* initial.                                                                *)
(***************************************************************************)
EXTENDS Metering, JobHandles, SelfUpdate

VARIABLE part

mcVars == <<part, vars, jobVars, updateVars>>

-----------------------------------------------------------------------------
(* Bounds.                                                                 *)

Jobs(sp, fa, st, cr, op_, ki, sk, sg) ==
    [spawns |-> sp, faults |-> fa, stops |-> st, crashes |-> cr, opens |-> op_,
     starts |-> ki, sticks |-> sk, strangers |-> sg]
MCJobs ==
    {Jobs(1, 0, 1, 1, 1, 1, 1, 1), Jobs(1, 1, 1, 0, 1, 2, 1, 0),
     Jobs(2, 0, 1, 0, 1, 1, 0, 0), Jobs(1, 0, 2, 1, 2, 0, 1, 1),
     Jobs(2, 1, 1, 0, 1, 0, 0, 1)}

Updates(u, c, f, k, r, b, m) ==
    [updates |-> u, checks |-> c, failures |-> f, kills |-> k, republished |-> r,
     corrections |-> b, manager |-> m]
MCUpdates ==
    {Updates(2, 0, 1, 1, 0, 0, FALSE), Updates(1, 0, 0, 0, 1, 0, TRUE),
     Updates(1, 1, 0, 0, 0, 1, FALSE), Updates(0, 2, 1, 0, 0, 0, FALSE),
     Updates(0, 2, 0, 1, 0, 0, FALSE)}

ASSUME SelfUpdateConstants

-----------------------------------------------------------------------------
MCInit ==
    /\ part \in {"ledger", "job", "update"}
    /\ Init /\ (part # "ledger" => source = "self-reported")
    /\ JobInit /\ (part # "job" => job_limits = CHOOSE b \in JobBounds : TRUE)
    /\ UpdateInit /\ (part # "update" => limits = CHOOSE b \in UpdateBounds : TRUE)

MCNext ==
    \/ part = "ledger" /\ Next /\ UNCHANGED <<part, jobVars, updateVars>>
    \/ part = "job" /\ JobNext /\ UNCHANGED <<part, vars, updateVars>>
    \/ part = "update" /\ UpdateNext /\ UNCHANGED <<part, vars, jobVars>>

\* The fairness of Metering and JobHandles: the reaper ticks, and an operation and
\* a stop run to their end.
MCSpec ==
    /\ MCInit /\ [][MCNext]_mcVars
    /\ WF_vars(part = "ledger" /\ Engine) /\ WF_jobVars(part = "job" /\ StopMoves)

-----------------------------------------------------------------------------
(* Checked besides: CountedOnce, Accounted and SkipsInOrder (Metering),    *)
(* JobIsExact (JobHandles), UpdateIsSafe (SelfUpdate).                     *)

\* Every variable has its type.
TypesOK == TypeOK /\ JobTypeOK /\ UpdateTypeOK

\* Metering: a park never wedges.  JobHandles: the wait of a stop ends.
WaitsEnd == []<>AllSettled /\ StopEnds
=============================================================================
