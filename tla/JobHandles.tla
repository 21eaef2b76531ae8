----------------------------- MODULE JobHandles -----------------------------
(***************************************************************************)
(* The Windows process backend: an agent, the Job Object it is put in, and *)
(* what becomes of the processes it starts.                                *)
(*                                                                         *)
(* Windows has no process groups to signal.  A child is created first and  *)
(* put in a job afterwards; what it starts in between is in no job.  An    *)
(* attached agent's job kills its processes when its last handle closes,   *)
(* however the engine ends; a detached agent's job does not, and is only   *)
(* there to be terminated by a stop that escalates.  A later engine can    *)
(* open the process again, never the job.                                  *)
(*                                                                         *)
(* A pid is not given away while somebody holds a handle of its process.   *)
(* One agent instance; the engine holds one lock over every call.          *)
(***************************************************************************)
EXTENDS Naturals

CONSTANTS
    Pids,       \* the pids the system gives away
    JobBounds   \* records naming how often each bounded thing happens

VARIABLES
    slots,      \* the system's processes, by pid
    kin,        \* live processes the agents started: <<the agent's birth, where>>
    births,     \* the latest creation time given to a process
    record,     \* the write-ahead spawn record, or NoRecord
    engine,     \* "open", or how the last one ended
    process,     \* the engine's handle of the agent, or NoHandle
    step,       \* where the call that holds the lock is
    gone,       \* creation times of the agents the backend called gone
    known,      \* creation times of the agents that were recorded
    missed,     \* those of the recorded agents an adoption could not read
    stopped,    \* creation times of the agents a stop succeeded on
    escalated,  \* those of them whose job was terminated
    harmed,     \* a process that was not the agent was terminated
    job_limits

jobVars == <<slots, kin, births, record, engine, process, step, gone, known,
             missed, stopped, escalated, harmed, job_limits>>

NoHandle == [pid |-> 0]
NoRecord == [pid |-> 0]

\* A pid nobody has.  `stuck`: in kernel-mode I/O, where a termination waits.
Free == [who |-> "nobody", born |-> 0, job |-> "none", stuck |-> FALSE, doomed |-> FALSE]

StillRuns(t) == \E p \in Pids : slots[p].who = "agent" /\ slots[p].born = t

JobTypeOK ==
    /\ slots \in [Pids -> [who : {"nobody", "agent", "stranger", "exited"}, born : Nat,
                           job : {"none", "kill", "plain"}, stuck : BOOLEAN,
                           doomed : BOOLEAN]]
    /\ kin \subseteq (1 .. births) \X {"inside", "outside"}
    /\ births \in Nat
    /\ record \in {NoRecord} \cup [pid : Pids, born : Nat, detached : BOOLEAN]
    /\ engine \in {"open", "closed", "crashed"}
    /\ process \in {NoHandle} \cup
          [child : BOOLEAN, pid : Pids, born : Nat, job : {"none", "kill", "plain"}]
    /\ step \in {"idle", "created", "assigned", "spawned", "window", "terminate",
                 "confirm"}
    /\ gone \subseteq 1 .. births /\ known \subseteq 1 .. births
    /\ missed \subseteq 1 .. births
    /\ stopped \subseteq 1 .. births
    /\ escalated \subseteq stopped
    /\ harmed \in BOOLEAN

JobInit ==
    /\ slots = [p \in Pids |-> Free] /\ kin = {} /\ births = 0
    /\ record = NoRecord /\ engine = "open" /\ process = NoHandle /\ step = "idle"
    /\ gone = {} /\ known = {} /\ missed = {} /\ stopped = {} /\ escalated = {}
    /\ harmed = FALSE
    /\ job_limits \in JobBounds

-----------------------------------------------------------------------------
(***************************************************************************)
(* What the system does when it is asked to.                               *)
(***************************************************************************)

\* A process that has ended keeps its pid while somebody holds its handle.
Ended(slot, held) == IF held THEN [slot EXCEPT !.who = "exited"] ELSE Free

\* A process is terminated, now or when it leaves the kernel.
Terminated(slot, held) ==
    IF slot.who \in {"nobody", "exited"} THEN slot
    ELSE IF slot.stuck THEN [slot EXCEPT !.doomed = TRUE] ELSE Ended(slot, held)

\* All in a job are terminated: the agent born at t and what it started inside.
JobTerminated(p, t, held) ==
    /\ slots' = [slots EXCEPT ![p] = Terminated(@, held)]
    /\ kin' = kin \ {<<t, "inside">>}

\* A broken close: every job is made like that of a detached agent.
Closed_sparing(h) ==
    /\ slots' = [slots EXCEPT ![h.pid] = IF @.who = "exited" THEN Free ELSE @]
    /\ UNCHANGED kin

\* CloseHandle of everything the engine holds of the agent.  A job that kills
\* on close does so, and the pid of an ended process is free.
Closed(h) ==
    LET left == IF slots[h.pid].who = "exited" THEN Free ELSE slots[h.pid]
    IN  IF h.job = "kill"
        THEN /\ slots' = [slots EXCEPT ![h.pid] = Terminated(left, FALSE)]
             /\ kin' = kin \ {<<h.born, "inside">>}
        ELSE slots' = [slots EXCEPT ![h.pid] = left] /\ UNCHANGED kin

\* Drop of a handle: nothing but the handles is closed.
drop(h) == Closed(h)

\* reap_if_exited: the process of the handle has ended.  A wait on the process
\* answers, whatever its exit code was (259 is also STILL_ACTIVE).
reap_if_exited == slots[process.pid].who = "exited"

\* process_start_time: of the process that now has the pid.
process_start_time(p) == slots[p].born

-----------------------------------------------------------------------------
(***************************************************************************)
(* spawn: create, assign, verify, and the record the Supervisor writes.    *)
(***************************************************************************)

\* The job exists and the process runs, not yet in it.
create_process(p, detach) ==
    /\ engine = "open" /\ step = "idle" /\ process = NoHandle /\ record = NoRecord
    /\ slots[p] = Free /\ job_limits.spawns > 0
    /\ births' = births + 1
    /\ slots' = [slots EXCEPT ![p] = [Free EXCEPT !.who = "agent", !.born = births']]
    /\ process' = [child |-> TRUE, pid |-> p, born |-> births',
                  job |-> IF detach THEN "plain" ELSE "kill"]
    /\ step' = "created"
    /\ job_limits' = [job_limits EXCEPT !.spawns = @ - 1]
    /\ UNCHANGED <<kin, record, engine, gone, stopped, escalated, known, missed, harmed>>

\* AssignProcessToJobObject: what the process starts from now on is inside.
assign ==
    /\ engine = "open" /\ step = "created"
    /\ slots' = [slots EXCEPT ![process.pid].job = process.job]
    /\ step' = "assigned"
    /\ UNCHANGED <<kin, births, record, engine, process, gone, stopped, escalated,
                   known, missed, harmed, job_limits>>

\* ... fails: the child alone is killed and waited for, and the job closed.
assign_fails ==
    /\ engine = "open" /\ step = "created" /\ job_limits.faults > 0
    /\ ~slots[process.pid].stuck
    /\ slots' = [slots EXCEPT ![process.pid] = Free]
    /\ process' = NoHandle /\ step' = "idle"
    /\ job_limits' = [job_limits EXCEPT !.faults = @ - 1]
    /\ UNCHANGED <<kin, births, record, engine, gone, stopped, escalated, known, missed,
                   harmed>>

\* The creation time is read and the handle is the Supervisor's.
verify ==
    /\ engine = "open" /\ step = "assigned"
    /\ step' = "spawned"
    /\ UNCHANGED <<slots, kin, births, record, engine, process, gone, stopped, escalated,
                   known, missed, harmed, job_limits>>

\* No attempt reads it.  A detached child is killed, an attached one dies with
\* its job, and no handle is returned.
verify_fails ==
    /\ engine = "open" /\ step = "assigned" /\ job_limits.faults > 0
    /\ ~slots[process.pid].stuck
    /\ slots' = [slots EXCEPT ![process.pid] = Free]
    /\ kin' = IF process.job = "kill" THEN kin \ {<<process.born, "inside">>} ELSE kin
    /\ process' = NoHandle /\ step' = "idle"
    /\ job_limits' = [job_limits EXCEPT !.faults = @ - 1]
    /\ UNCHANGED <<births, record, engine, gone, stopped, escalated, known, missed,
                   harmed>>

\* The record names the pid, the verified creation time and the detachment.
write_record ==
    /\ engine = "open" /\ step = "spawned"
    /\ record' = [pid |-> process.pid, born |-> process.born,
                  detached |-> process.job = "plain"]
    /\ known' = known \cup {process.born}
    /\ step' = "idle"
    /\ UNCHANGED <<slots, kin, births, engine, process, gone, stopped, escalated, missed,
                   harmed, job_limits>>
-----------------------------------------------------------------------------
(***************************************************************************)
(* poll, stop and adopt.  pause and resume do nothing on Windows but look. *)
(***************************************************************************)
StopWaits == step \in {"window", "terminate", "confirm"}

Ready == engine = "open" /\ step = "idle" /\ process # NoHandle

\* The Supervisor lets go of an agent the backend calls gone.
Forget ==
    /\ gone' = gone \cup {process.born}
    /\ drop(process)
    /\ process' = NoHandle /\ record' = NoRecord /\ step' = "idle"

\* A poll that answers Exited; one that answers Alive changes nothing.
poll ==
    /\ Ready /\ record # NoRecord /\ reap_if_exited
    /\ Forget
    /\ UNCHANGED <<births, engine, stopped, escalated, known, missed, harmed, job_limits>>

\* stop starts: it looks, and begins to wait.  Nothing asks the agent to exit.
stop ==
    /\ Ready /\ record # NoRecord /\ ~reap_if_exited /\ job_limits.stops > 0
    /\ step' = "window"
    /\ job_limits' = [job_limits EXCEPT !.stops = @ - 1]
    /\ UNCHANGED <<slots, kin, births, record, engine, process, gone, stopped, escalated,
                   known, missed, harmed>>

\* The agent ended by itself before the deadline, or had ended at the start.
stop_graceful ==
    /\ engine = "open" /\ process # NoHandle /\ reap_if_exited
    /\ \/ step = "window" /\ UNCHANGED job_limits
       \/ /\ step = "idle" /\ record # NoRecord /\ job_limits.stops > 0
          /\ job_limits' = [job_limits EXCEPT !.stops = @ - 1]
    /\ stopped' = stopped \cup {process.born}
    /\ Forget
    /\ UNCHANGED <<births, engine, escalated, known, missed, harmed>>

\* The deadline is past.
window_ends ==
    /\ engine = "open" /\ step = "window" /\ ~reap_if_exited
    /\ step' = "terminate"
    /\ UNCHANGED <<slots, kin, births, record, engine, process, gone, stopped, escalated,
                   known, missed, harmed, job_limits>>

\* TerminateJobObject, or TerminateProcess on a process an earlier engine
\* spawned, which has no job here and refuses when it has just ended.
terminate ==
    /\ engine = "open" /\ step = "terminate"
    /\ IF process.job # "none"
       THEN JobTerminated(process.pid, process.born, TRUE) /\ step' = "confirm"
       ELSE /\ slots' = [slots EXCEPT ![process.pid] = Terminated(@, TRUE)]
            /\ step' = IF reap_if_exited THEN "idle" ELSE "confirm"
            /\ UNCHANGED kin
    /\ harmed' = (harmed \/ slots[process.pid].who = "stranger")
    /\ UNCHANGED <<births, record, engine, process, gone, known, missed, stopped,
                   escalated, job_limits>>

\* confirm_death: the end is seen in time ...
confirm_death ==
    /\ engine = "open" /\ step = "confirm" /\ reap_if_exited
    /\ stopped' = stopped \cup {process.born}
    /\ escalated' = IF process.job # "none" THEN escalated \cup {process.born} ELSE escalated
    /\ Forget
    /\ UNCHANGED <<births, engine, known, missed, harmed, job_limits>>

\* ... or not, and the handle is kept for the retry.
unconfirmed ==
    /\ engine = "open" /\ step = "confirm" /\ ~reap_if_exited /\ slots[process.pid].stuck
    /\ step' = "idle"
    /\ UNCHANGED <<slots, kin, births, record, engine, process, gone, stopped, escalated,
                   known, missed, harmed, job_limits>>

\* A wait or a termination fails: the stop ends with an error, the row stays
\* stopping and the handle is kept.
call_fails ==
    /\ engine = "open" /\ StopWaits /\ job_limits.faults > 0
    /\ step' = "idle"
    /\ job_limits' = [job_limits EXCEPT !.faults = @ - 1]
    /\ UNCHANGED <<slots, kin, births, record, engine, process, gone, stopped, escalated,
                   known, missed, harmed>>

\* The engine ends, closing every handle it holds: in a drop, between two
\* calls, or killed, anywhere.
engine_ends(how) ==
    /\ engine = "open" /\ (how = "closed" => step = "idle")
    /\ how = "crashed" => job_limits.crashes > 0
    /\ IF process = NoHandle THEN UNCHANGED <<slots, kin>>
       ELSE IF step = "created" \* the job is still empty
       THEN slots' = [slots EXCEPT ![process.pid] =
                         IF @.who = "exited" THEN Free ELSE @] /\ UNCHANGED kin
       ELSE Closed(process)
    /\ engine' = how /\ process' = NoHandle /\ step' = "idle"
    /\ job_limits' = IF how = "crashed" THEN [job_limits EXCEPT !.crashes = @ - 1] ELSE job_limits
    /\ UNCHANGED <<births, record, gone, stopped, escalated, known, missed, harmed>>

\* A broken adoption: whatever has the recorded pid.
adopts_by_pid(r) == slots[r.pid].who \in {"agent", "stranger"}

\* adopt: the process that has the recorded pid now, if it was created when the
\* record says.  The handle has no job and its drop ends nothing.
adopts(r) == slots[r.pid].who \in {"agent", "stranger"} /\ process_start_time(r.pid) = r.born

\* The process of a record cannot be opened for another reason than that it is
\* gone, or its creation time cannot be read: that too is Ok(None).
cannot_read(r) == slots[r.pid].who \in {"agent", "stranger"} /\ job_limits.faults > 0

\* reconcile_orphan_failed: the row fails and the record is cleared.
reconcile == record' = NoRecord /\ UNCHANGED process

open ==
    /\ engine # "open" /\ job_limits.opens > 0
    /\ engine' = "open"
    /\ \/ /\ record = NoRecord
          /\ UNCHANGED <<record, process, gone, missed>>
          /\ job_limits' = [job_limits EXCEPT !.opens = @ - 1]
       \/ /\ record # NoRecord /\ adopts(record)
          /\ process' = [child |-> FALSE, pid |-> record.pid, born |-> record.born,
                         job |-> "none"]
          /\ job_limits' = [job_limits EXCEPT !.opens = @ - 1]
          /\ UNCHANGED <<record, gone, missed>>
       \/ /\ record # NoRecord /\ ~adopts(record)
          /\ reconcile /\ gone' = gone \cup {record.born}
          /\ job_limits' = [job_limits EXCEPT !.opens = @ - 1]
          /\ UNCHANGED missed
       \/ /\ record # NoRecord /\ cannot_read(record)
          /\ reconcile /\ missed' = missed \cup {record.born}
          /\ job_limits' = [job_limits EXCEPT !.opens = @ - 1, !.faults = @ - 1]
          /\ UNCHANGED gone
    /\ UNCHANGED <<slots, kin, births, step, stopped, escalated, known, harmed>>

-----------------------------------------------------------------------------
(***************************************************************************)
(* The agent and the system.                                               *)
(***************************************************************************)
UnchangedByOthers == UNCHANGED <<record, engine, process, step, gone, stopped, escalated,
                                 known, missed, harmed>>

Held(p) == process # NoHandle /\ process.pid = p

\* The agent starts a process, which is in the agent's job if there is one.
agent_starts(p) ==
    /\ slots[p].who = "agent" /\ ~slots[p].stuck /\ job_limits.starts > 0
    /\ kin' = kin \cup {<<slots[p].born,
                          IF slots[p].job = "none" THEN "outside" ELSE "inside">>}
    /\ job_limits' = [job_limits EXCEPT !.starts = @ - 1]
    /\ UnchangedByOthers /\ UNCHANGED <<slots, births>>

\* A process exits by itself, or at last after a termination that had to wait.
exits(p) ==
    /\ slots[p].who \in {"agent", "stranger"} /\ ~slots[p].stuck
    /\ slots' = [slots EXCEPT ![p] = Ended(@, Held(p))]
    /\ UnchangedByOthers /\ UNCHANGED <<kin, births, job_limits>>

kin_exits(k) ==
    /\ k \in kin /\ kin' = kin \ {k}
    /\ UnchangedByOthers /\ UNCHANGED <<slots, births, job_limits>>

\* An I/O the agent waits for in the kernel begins, and ends.
sticks(p) ==
    /\ slots[p].who = "agent" /\ ~slots[p].stuck /\ job_limits.sticks > 0
    /\ slots' = [slots EXCEPT ![p].stuck = TRUE]
    /\ job_limits' = [job_limits EXCEPT !.sticks = @ - 1]
    /\ UnchangedByOthers /\ UNCHANGED <<kin, births>>

unsticks(p) ==
    /\ slots[p].stuck
    /\ slots' = [slots EXCEPT ![p] =
                    IF @.doomed THEN Ended([@ EXCEPT !.stuck = FALSE], Held(p))
                    ELSE [@ EXCEPT !.stuck = FALSE]]
    /\ UnchangedByOthers /\ UNCHANGED <<kin, births, job_limits>>

\* A free pid goes to a process that has nothing to do with the engine.
stranger(p) ==
    /\ slots[p] = Free /\ job_limits.strangers > 0
    /\ births' = births + 1
    /\ slots' = [slots EXCEPT ![p] = [Free EXCEPT !.who = "stranger", !.born = births']]
    /\ job_limits' = [job_limits EXCEPT !.strangers = @ - 1]
    /\ UnchangedByOthers /\ UNCHANGED kin

StopMoves == window_ends \/ stop_graceful \/ terminate \/ confirm_death \/ unconfirmed
             \/ call_fails

JobNext ==
    \/ \E p \in Pids, detach \in BOOLEAN : create_process(p, detach)
    \/ assign \/ assign_fails \/ verify \/ verify_fails \/ write_record
    \/ poll \/ stop \/ StopMoves
    \/ \E how \in {"closed", "crashed"} : engine_ends(how)
    \/ open
    \/ \E p \in Pids : agent_starts(p) \/ exits(p) \/ sticks(p) \/ unsticks(p) \/ stranger(p)
    \/ \E k \in kin : kin_exits(k)

JobSpec == JobInit /\ [][JobNext]_jobVars

\* A stop under way moves on: its waits are bounded.
JobFairness == WF_jobVars(StopMoves)

-----------------------------------------------------------------------------
(***************************************************************************)
(* Properties.                                                             *)
(***************************************************************************)

\* An engine that ended, in whatever way, leaves nothing of an attached agent
\* whose spawn had reached its job: the job kills on close.  Only an agent in
\* the kernel is still there, doomed.  The cost of creating first and assigning
\* second is an agent killed between the two.
AttachedDiesWithEngine ==
    engine # "open" =>
        \A p \in Pids :
            slots[p].who = "agent" /\ slots[p].job = "kill" => slots[p].doomed

\* A detached agent that was once recorded is named by the record for as long as
\* it runs, through stops that failed and engines that ended, whatever process
\* has had a pid since: the next engine finds it.  (One whose engine is killed
\* before the record is written is nobody's, and one an adoption could not read
\* is nobody's from then on: its record is gone.)
DetachedIsFound ==
    \A p \in Pids :
        slots[p].who = "agent" /\ slots[p].job = "plain" /\ slots[p].born \in known \ missed
            => record.pid = p /\ record.born = slots[p].born

\* Nobody but the agent is ever terminated.
NoStrangerHarmed == ~harmed

\* Who the backend calls gone has ended: at a poll, in a stop, or in an adoption
\* that could read who has the pid.
GoneIsGone == \A t \in gone : ~StillRuns(t)

\* reconcile_orphan_failed clears a record because "its process is gone".  Not
\* checked, as it does not hold: adopt answers as much of a process it could not
\* read, and an agent that runs on detached is then nobody's.
UnrecordedIsGone == \A t \in gone \cup missed : ~StillRuns(t)

\* A stop that escalated through the job leaves nothing the agent started in
\* it, even when the agent ended before the escalation could begin.
EscalationReachesAll == \A t \in escalated : ~StillRuns(t) /\ <<t, "inside">> \notin kin

\* All of it: who is called gone is; an attached agent goes with its engine and a
\* recorded detached one that could be read is found; no other process is taken
\* for it; an escalated stop ends all that runs in the job.
JobIsExact ==
    /\ GoneIsGone /\ AttachedDiesWithEngine /\ DetachedIsFound
    /\ NoStrangerHarmed /\ EscalationReachesAll

\* A stop ends: with success, refused because the agent has just ended, or
\* unconfirmed, and the engine-wide lock is free again.
StopEnds == StopWaits ~> ~StopWaits
=============================================================================
