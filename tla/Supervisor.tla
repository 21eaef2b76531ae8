------------------------------ MODULE Supervisor ------------------------------
(***************************************************************************)
(* The supervisor of one engine session over one state directory: the      *)
(* durable row and write-ahead spawn record of every Agent Instance, the   *)
(* process handles the session holds, the restart backoffs in flight, and  *)
(* the agent processes themselves, which outlive a killed engine.          *)
(*                                                                         *)
(* Every operation runs under the registry and supervisor mutexes, so at   *)
(* most one is in flight: op names it and the step it has reached.  The    *)
(* steps of an operation are its durable writes and its process actions,   *)
(* because an engine that is killed stops between two of them.             *)
(***************************************************************************)
EXTENDS Lifecycle, FiniteSets

CONSTANTS
    Names,            \* instance names
    Pids,             \* process fingerprints (pid and start time together)
    GuaranteedPause,  \* the names whose adapter declares a guaranteed pause
    Observed,         \* the names metered by the engine's own listener
    Commands,         \* the operator commands this configuration issues
    Faults,           \* the failures of the host this configuration has
    KillAt,           \* the steps at which the engine may be killed
    DiesWithEngine,   \* an attached agent dies with a killed engine (the
                      \* kill-on-close Job Object of Windows; FALSE on Unix)
    MaxPlans,         \* bound: no operator start of a name with this many
                      \* backoffs of one attempt in flight
    NoPid,            \* no process; also the pid 0 of a policy-only record
    Nobody,           \* the owner of a fingerprint with no live process
    NoRecord,         \* no row in agent_runtime
    NoHandle          \* no entry in Supervisor.running

CommandKinds == {"register", "start", "detach", "stop", "pause", "resume",
                 "policy", "remove", "exit"}

(***************************************************************************)
(* append: the event-log append after a committed state fails.  record: a  *)
(* write to the spawn-record table fails.  poll: a handle becomes          *)
(* unreadable for good.  stuck: a SIGKILL is not confirmed in time.        *)
(* control: a signal cannot be delivered.  adopt: a start time cannot be   *)
(* read at open.  prepare: a restart fails before its first state change.  *)
(***************************************************************************)
FaultKinds == {"append", "record", "poll", "stuck", "control", "adopt",
               "prepare"}

Steps == {"launch", "watch", "ready", "kill", "clear", "settle", "delete",
          "signal", "seed", "settled", "fail"}

ASSUME SupervisorAssumption ==
    /\ GuaranteedPause \subseteq Names
    /\ Observed \subseteq Names
    /\ Commands \subseteq CommandKinds
    /\ Faults \subseteq FaultKinds
    /\ KillAt \subseteq Steps \cup {"idle"}
    /\ DiesWithEngine \in BOOLEAN
    /\ MaxPlans \in Nat

VARIABLES
    up,          \* an engine session is open
    row,         \* agent_instances.state, durable
    record,      \* agent_runtime, durable
    held,        \* Supervisor.running: the handles of this session
    plans,       \* the backoff timers in flight, per name and attempt
    op,          \* the operation that holds the locks
    owner,       \* the instance each live process was spawned for
    frozen,      \* the live processes under SIGSTOP
    autos,       \* history: automatic restarts since the operator's start
    configured   \* history: the policy the operator last set

durable == <<row, record>>
session == <<up, held, plans>>
os      == <<owner, frozen>>
history == <<autos, configured>>
vars    == <<durable, session, op, os, history>>

-----------------------------------------------------------------------------
Absent == "absent"
Idle   == [at |-> "idle"]

SpawnRecord == [pid : Pids \cup {NoPid}, policy : Policies,
                count : 0 .. MaxFailures, detach : BOOLEAN]

Supervised == [pid : Pids, detach : BOOLEAN, stop_unconfirmed : BOOLEAN]

Job == [at : Steps, name : Names, pid : Pids \cup {NoPid},
        attempt : 0 .. MaxFailures, detach : BOOLEAN, policy : Policies,
        remove : BOOLEAN]

ASSUME NullAssumption ==
    /\ NoPid \notin Pids /\ Nobody \notin Names
    /\ NoRecord \notin SpawnRecord /\ NoHandle \notin Supervised

NewJob(n, step) ==
    [at |-> step, name |-> n, pid |-> NoPid, attempt |-> 0,
     detach |-> FALSE, policy |-> DefaultPolicy, remove |-> FALSE]

Goto(step) == [op EXCEPT !.at = step]

effective_restart_policy(n) ==
    IF record[n] = NoRecord THEN DefaultPolicy ELSE record[n].policy

restart_count(n) == IF record[n] = NoRecord THEN 0 ELSE record[n].count

PolicySeed(policy) ==
    [pid |-> NoPid, policy |-> policy, count |-> 0, detach |-> FALSE]

Alive(p) == owner[p] # Nobody

Live(n) == {p \in Pids : owner[p] = n}

NoPlans == [n \in Names |-> [a \in Attempts |-> 0]]

InFlight(n) == {a \in Attempts : plans[n][a] > 0}

\* A fingerprint no process, handle, record or launch refers to.
Fresh(p) ==
    /\ ~Alive(p)
    /\ \A n \in Names : /\ record[n] # NoRecord => record[n].pid # p
                        /\ held[n] # NoHandle => held[n].pid # p

Kill(P) == /\ owner' = [p \in Pids |-> IF p \in P THEN Nobody ELSE owner[p]]
           /\ frozen' = frozen \ P

\* Drop of a handle: a detached one is disarmed, any other kills its group.
DropKills(h) == IF h = NoHandle THEN {} ELSE IF h.detach THEN {} ELSE {h.pid}

Unlocked(c) == up /\ op = Idle /\ c \in Commands

(***************************************************************************)
(* transition_with_log_capture commits the state and then appends the      *)
(* event; a failed append surfaces as the caller's error, so the operation *)
(* ends there with the state already changed.                              *)
(***************************************************************************)
Transition(n, s, next) ==
    /\ row' = [row EXCEPT ![n] = s]
    /\ op' = next \/ ("append" \in Faults /\ op' = Idle)

-----------------------------------------------------------------------------
(* register, and the two writes the registry makes for its own sake.       *)

register(n) ==
    /\ Unlocked("register") /\ row[n] = Absent
    /\ row' = [row EXCEPT ![n] = "registered"]
    /\ UNCHANGED <<record, session, op, os, history>>

\* Mutant: the upsert replaces the whole row.
UpsertReplaces(rec, policy) == PolicySeed(policy)

UpsertPolicy(rec, policy) ==
    IF rec = NoRecord THEN PolicySeed(policy) ELSE [rec EXCEPT !.policy = policy]

set_restart_policy(n) ==
    /\ Unlocked("policy") /\ row[n] # Absent
    /\ \E policy \in Policies :
         /\ record' = [record EXCEPT ![n] = UpsertPolicy(@, policy)]
         /\ configured' = [configured EXCEPT ![n] = policy]
    /\ UNCHANGED <<row, session, op, os, autos>>

-----------------------------------------------------------------------------
(* start, start_detached and restart share start_inner.                    *)

BeginStart(n, attempt, detach) ==
    /\ Accepts(row[n], "start")
    /\ ~(detach /\ n \in Observed)
    /\ Transition(n, next_state(row[n], "start"),
         [NewJob(n, "launch") EXCEPT !.attempt = attempt, !.detach = detach,
                                     !.policy = effective_restart_policy(n)])

start(n, detach) ==
    /\ Unlocked(IF detach THEN "detach" ELSE "start")
    /\ \A a \in Attempts : plans[n][a] < MaxPlans
    /\ BeginStart(n, 0, detach)
    /\ autos' = [autos EXCEPT ![n] = 0]
    /\ UNCHANGED <<record, session, os, configured>>

\* Mutant: a timer that is not one of those handed out fires.
DueUnplanned(n, a) == up /\ op = Idle

RestartDue(n, a) == up /\ op = Idle /\ plans[n][a] > 0

(***************************************************************************)
(* A backoff elapses.  The restart is an ordinary start whose detach flag  *)
(* is the record's; a refusal, or any failure before the first state       *)
(* change, is dropped by the task that slept.                              *)
(***************************************************************************)
restart(n, a) ==
    LET detach == record[n] # NoRecord /\ record[n].detach
    IN  /\ RestartDue(n, a)
        /\ plans' = [plans EXCEPT ![n][a] = @ - 1]
        /\ \/ /\ BeginStart(n, a, detach)
              /\ autos' = [autos EXCEPT ![n] = IF @ < MaxFailures THEN @ + 1
                                                                  ELSE @]
           \/ /\ \/ ~Accepts(row[n], "start")
                 \/ detach /\ n \in Observed
                 \/ "prepare" \in Faults
              /\ UNCHANGED <<row, op, autos>>
        /\ UNCHANGED <<record, up, held, os, configured>>

\* backend.spawn fails: nothing was started.
launch_fails ==
    /\ op.at = "launch"
    /\ row' = [row EXCEPT ![op.name] = "failed"]
    /\ op' = Idle
    /\ UNCHANGED <<record, session, os, history>>

spawn(p) ==
    /\ op.at = "launch" /\ Fresh(p)
    /\ owner' = [owner EXCEPT ![p] = op.name]
    /\ op' = [Goto("watch") EXCEPT !.pid = p]
    /\ UNCHANGED <<durable, session, frozen, history>>

\* The process is gone before the readiness window closes.
watch_startup_exit ==
    /\ op.at = "watch" /\ ~Alive(op.pid)
    /\ row' = [row EXCEPT ![op.name] = "failed"]
    /\ op' = Idle
    /\ UNCHANGED <<record, session, os, history>>

\* Mutant: an automatic restart records a fresh streak.
RecordUncounted ==
    [pid |-> op.pid, policy |-> op.policy, count |-> 0, detach |-> op.detach]

NewSpawnRecord ==
    [pid |-> op.pid, policy |-> op.policy,
     count |-> op.attempt, detach |-> op.detach]

\* Still alive at the end of the window: commit the write-ahead record.
write_spawn_record ==
    /\ op.at = "watch" /\ Alive(op.pid)
    /\ record' = [record EXCEPT ![op.name] = NewSpawnRecord]
    /\ op' = Goto("ready")
    /\ UNCHANGED <<row, session, os, history>>

\* Mutant: the process is left behind.
NoTeardown == UNCHANGED os

Teardown ==
    \/ Kill({op.pid})
    \/ op.detach /\ Faults \cap {"stuck", "control"} # {} /\ UNCHANGED os

(***************************************************************************)
(* The record cannot be committed: the process is torn down (an attached   *)
(* one by its handle's drop, a detached one by an explicit stop whose      *)
(* failure is ignored) and the launch fails.                               *)
(***************************************************************************)
write_spawn_record_fails ==
    /\ op.at = "watch" /\ Alive(op.pid) /\ "record" \in Faults
    /\ row' = [row EXCEPT ![op.name] = "failed"]
    /\ op' = Idle
    /\ Teardown
    /\ UNCHANGED <<record, session, history>>

NewHandle(p, detach) ==
    [pid |-> p, detach |-> detach, stop_unconfirmed |-> FALSE]

(***************************************************************************)
(* starting -> running.  Inserting the handle drops the one it replaces.   *)
(* When the append fails the row already says running and the new handle   *)
(* is dropped instead of inserted.                                         *)
(***************************************************************************)
become_running ==
    LET handle == NewHandle(op.pid, op.detach)
    IN  /\ op.at = "ready"
        /\ row' = [row EXCEPT ![op.name] = "running"]
        /\ op' = Idle
        /\ \/ /\ held' = [held EXCEPT ![op.name] = handle]
              /\ Kill(DropKills(held[op.name]))
           \/ /\ "append" \in Faults
              /\ Kill(DropKills(handle))
              /\ UNCHANGED held
        /\ UNCHANGED <<record, up, plans, history>>

-----------------------------------------------------------------------------
(* stop, and remove, which stops a live instance before deleting its row.  *)

BeginStop(n, remove) ==
    /\ Accepts(row[n], "stop")
    /\ Transition(n, next_state(row[n], "stop"),
                  [NewJob(n, "kill") EXCEPT !.remove = remove])

stop(n) ==
    /\ Unlocked("stop")
    /\ BeginStop(n, FALSE)
    /\ UNCHANGED <<record, session, os, history>>

Unconfirmed(n) ==
    row[n] = "stopping" /\ held[n] # NoHandle /\ held[n].stop_unconfirmed

\* A retried stop polls once: it finishes the stop of a process that has
\* died since, and otherwise reports StopUnconfirmed and changes nothing.
stop_retry(n) ==
    /\ Unlocked("stop") /\ Unconfirmed(n) /\ ~Alive(held[n].pid)
    /\ held' = [held EXCEPT ![n] = NoHandle]
    /\ op' = NewJob(n, "clear")
    /\ UNCHANGED <<durable, up, plans, os, history>>

\* Mutant: the signal is sent and its effect is not awaited.
StopUnawaited ==
    /\ op.at = "kill"
    /\ held' = [held EXCEPT ![op.name] = NoHandle]
    /\ op' = Goto("clear")
    /\ UNCHANGED <<durable, up, plans, os, history>>

\* backend.stop returns: there is no handle, or its process is dead by now.
backend_stop ==
    LET h == held[op.name]
    IN  /\ op.at = "kill"
        /\ Kill(IF h = NoHandle THEN {} ELSE {h.pid})
        /\ held' = [held EXCEPT ![op.name] = NoHandle]
        /\ op' = Goto("clear")
        /\ UNCHANGED <<durable, up, plans, history>>

\* Mutant: the handle is taken out of the table before the stop succeeds.
UnconfirmedLosesHandle ==
    /\ op.at = "kill" /\ "stuck" \in Faults
    /\ held[op.name] # NoHandle /\ Alive(held[op.name].pid)
    /\ held' = [held EXCEPT ![op.name] = NoHandle]
    /\ op' = Idle
    /\ UNCHANGED <<durable, up, plans, os, history>>

\* Mutant: an unconfirmed death counts as a stop.
UnconfirmedFinalizes ==
    /\ op.at = "kill" /\ "stuck" \in Faults
    /\ held[op.name] # NoHandle /\ Alive(held[op.name].pid)
    /\ op' = Goto("clear")
    /\ UNCHANGED <<durable, session, os, history>>

\* SIGKILL was sent but death was not confirmed: the handle is kept, marked.
backend_stop_unconfirmed ==
    /\ op.at = "kill" /\ "stuck" \in Faults
    /\ held[op.name] # NoHandle /\ Alive(held[op.name].pid)
    /\ held' = [held EXCEPT ![op.name].stop_unconfirmed = TRUE]
    /\ op' = Idle
    /\ UNCHANGED <<durable, up, plans, os, history>>

\* Any other error of backend.stop: the handle is kept and not marked.
backend_stop_fails ==
    /\ op.at = "kill" /\ "control" \in Faults
    /\ held[op.name] # NoHandle /\ Alive(held[op.name].pid)
    /\ op' = Idle
    /\ UNCHANGED <<durable, session, os, history>>

clear_spawn_record ==
    /\ op.at = "clear"
    /\ \/ /\ record' = [record EXCEPT ![op.name] = NoRecord]
          /\ op' = Goto("settle")
       \/ "record" \in Faults /\ op' = Idle /\ UNCHANGED record
    /\ UNCHANGED <<row, session, os, history>>

become_stopped ==
    /\ op.at = "settle"
    /\ Transition(op.name, "stopped", IF op.remove THEN Goto("delete") ELSE Idle)
    /\ UNCHANGED <<record, session, os, history>>

\* The row goes, and the spawn record with it (the store cascades).
Delete(n) ==
    /\ row' = [row EXCEPT ![n] = Absent]
    /\ record' = [record EXCEPT ![n] = NoRecord]
    /\ configured' = [configured EXCEPT ![n] = DefaultPolicy]

delete_stopped ==
    /\ op.at = "delete"
    /\ Delete(op.name)
    /\ op' = Idle
    /\ UNCHANGED <<session, os, autos>>

\* Mutant: only a running instance is stopped before its row goes.
StopsRunningOnly(s) == s = "running"

StopsFirst(s) == s \in LiveStates

\* A running row needs --force; the rows in between are deleted as they are.
remove(n, force) ==
    /\ Unlocked("remove") /\ row[n] # Absent
    /\ force \/ is_removable_without_force(row[n])
    /\ IF StopsFirst(row[n])
       THEN BeginStop(n, TRUE) /\ UNCHANGED <<record, configured>>
       ELSE Delete(n) /\ UNCHANGED op
    /\ UNCHANGED <<session, os, autos>>

-----------------------------------------------------------------------------
(* pause and resume: the row is committed first and the signal follows.    *)

suspend_or_resume(n, command) ==
    /\ Unlocked(command)
    /\ Accepts(row[n], command)
    /\ Transition(n, next_state(row[n], command),
                  IF n \in GuaranteedPause THEN NewJob(n, "signal") ELSE Idle)
    /\ UNCHANGED <<record, session, os, history>>

\* Mutant: resume commits its state and never signals.
SuspendsOnly(s, P) == frozen \cup (IF s = "paused" THEN P ELSE {})

Signalled(s, P) == IF s = "paused" THEN frozen \cup P ELSE frozen \ P

\* Without a handle, or with a process that has exited, nothing is signalled.
signal_backend ==
    LET h == held[op.name]
        p == IF h = NoHandle THEN {} ELSE {q \in {h.pid} : Alive(q)}
    IN  /\ op.at = "signal"
        /\ op' = Idle
        /\ \/ frozen' = Signalled(row[op.name], p)
           \/ "control" \in Faults /\ UNCHANGED frozen
        /\ UNCHANGED <<durable, session, owner, history>>

-----------------------------------------------------------------------------
(* poll_once, one handle at a time: the reaper lets a dead one go.         *)

(***************************************************************************)
(* plan_restart.  A terminal crash settles the record: it is cleared and   *)
(* then seeded again with the policy alone.  Otherwise the incremented     *)
(* count is written and the restart is planned.  All three writes are best *)
(* effort: a failure is ignored and the next step follows.                 *)
(***************************************************************************)
plan_restart(n) ==
    LET policy == effective_restart_policy(n)
        next   == restart_count(n) + 1
    IN  IF ~restarts_on_crash(policy) \/ is_crash_loop(next)
        THEN /\ op' = [NewJob(n, "seed") EXCEPT !.policy = policy]
             /\ \/ record' = [record EXCEPT ![n] = NoRecord]
                \/ "record" \in Faults /\ UNCHANGED record
        ELSE /\ op' = [NewJob(n, "fail") EXCEPT !.attempt = next]
             /\ \/ record' = [record EXCEPT ![n] =
                     IF @ = NoRecord THEN @ ELSE [@ EXCEPT !.count = next]]
                \/ "record" \in Faults /\ UNCHANGED record

\* Mutant: the reaper does not look at the state of the row again.
ReapBlindly(n) == plan_restart(n)

\* Mutant: an unconfirmed stop is left to the operator's retry.
ReapLiveOnly(n) ==
    IF row[n] \in LiveStates THEN plan_restart(n) ELSE UNCHANGED <<op, record>>

\* What a lost handle means depends on what its row says by then.
Reap(n) ==
    CASE row[n] \in LiveStates -> plan_restart(n)
      [] Unconfirmed(n)        -> op' = NewJob(n, "clear") /\ UNCHANGED record
      [] OTHER                 -> UNCHANGED <<op, record>>

LoseHandle(n) ==
    /\ held' = [held EXCEPT ![n] = NoHandle]
    /\ Reap(n)
    /\ UNCHANGED <<row, up, plans, history>>

\* Mutant: the reaper polls the running instances alone.
PollRunningOnly(n) ==
    /\ up /\ op = Idle /\ held[n] # NoHandle
    /\ ~Alive(held[n].pid) /\ row[n] # "paused"
    /\ LoseHandle(n)
    /\ UNCHANGED os

poll_exited(n) ==
    /\ up /\ op = Idle /\ held[n] # NoHandle
    /\ ~Alive(held[n].pid)
    /\ LoseHandle(n)
    /\ UNCHANGED os

(***************************************************************************)
(* The tenth consecutive poll error of a live process.  The drop that      *)
(* follows asks the same poll whether to kill, so the process may survive. *)
(***************************************************************************)
poll_unreadable(n) ==
    /\ up /\ op = Idle /\ held[n] # NoHandle /\ "poll" \in Faults
    /\ Alive(held[n].pid)
    /\ LoseHandle(n)
    /\ Kill(DropKills(held[n])) \/ UNCHANGED os

settle_terminal_record ==
    /\ op.at = "seed"
    /\ \/ record' = [record EXCEPT ![op.name] = UpsertPolicy(@, op.policy)]
       \/ "record" \in Faults /\ UNCHANGED record
    /\ op' = Goto("settled")
    /\ UNCHANGED <<row, session, os, history>>

\* The row lands in failed; a plan is handed out only if the event was logged.
become_failed ==
    /\ op.at \in {"settled", "fail"}
    /\ row' = [row EXCEPT ![op.name] = "failed"]
    /\ op' = Idle
    /\ \/ plans' = IF op.attempt = 0 THEN plans
                   ELSE [plans EXCEPT ![op.name][op.attempt] = @ + 1]
       \/ "append" \in Faults /\ UNCHANGED plans
    /\ UNCHANGED <<record, up, held, os, history>>

-----------------------------------------------------------------------------
(* The session itself: killed, exited, opened over the state directory.    *)

EndSession ==
    /\ up' = FALSE
    /\ held' = [n \in Names |-> NoHandle]
    /\ plans' = NoPlans

\* The processes the handles of the session take with them.
DropAll == UNION {DropKills(held[n]) : n \in Names}

\* The process of an attached launch that is not in the table yet.
Launching == IF op = Idle \/ op.detach THEN {} ELSE {op.pid} \cap Pids

(***************************************************************************)
(* kill -9: no destructor runs.  The agents are re-parented and live on,   *)
(* except where the operating system closes the attached ones' jobs.       *)
(***************************************************************************)
engine_killed ==
    /\ up /\ op.at \in KillAt
    /\ EndSession
    /\ op' = Idle
    /\ IF DiesWithEngine THEN Kill(DropAll \cup Launching) ELSE UNCHANGED os
    /\ UNCHANGED <<durable, history>>

\* Drop of the engine: every handle is dropped, the timers die.
engine_exits ==
    /\ Unlocked("exit")
    /\ EndSession
    /\ Kill(DropAll)
    /\ UNCHANGED <<durable, op, history>>

\* Mutant: a detached agent is not the engine's to hold.
AttachedSurvives(rec) ==
    rec # NoRecord /\ rec.pid # NoPid /\ Alive(rec.pid) /\ ~rec.detach

\* The record names a process, and its pid still has its start time.
Survives(rec) == rec # NoRecord /\ rec.pid # NoPid /\ Alive(rec.pid)

\* Mutant: only running rows are reconciled.
ReconcileRunning(s) == IF s = "running" THEN "failed" ELSE s

\* Mutant: every row is reconciled.
ReconcileAny(s) == "failed"

\* The orphan's row fails if it claims a supervised process.
reconcile_orphan_failed(s) == IF s \in LiveStates THEN "failed" ELSE s

Adopts(n, unreadable) == Survives(record[n]) /\ n \notin unreadable

\* A policy seed names no process: it is no orphan.
IsOrphan(n, unreadable) ==
    record[n] # NoRecord /\ record[n].pid # NoPid /\ ~Adopts(n, unreadable)

(***************************************************************************)
(* Records are reconciled one by one and never interact.  A surviving      *)
(* process has its handle held again, detached as it was; any other is an  *)
(* orphan, whose row is reconciled and whose record is cleared.  The start *)
(* times of the processes of unreadable could not be read, and the records *)
(* of uncleared could not be deleted.                                      *)
(***************************************************************************)
adopt_orphans(unreadable, uncleared) ==
    /\ held' = [n \in Names |->
                  IF Adopts(n, unreadable)
                  THEN NewHandle(record[n].pid, record[n].detach) ELSE NoHandle]
    /\ row' = [n \in Names |->
                  IF IsOrphan(n, unreadable)
                  THEN reconcile_orphan_failed(row[n]) ELSE row[n]]
    /\ record' = [n \in Names |->
                  IF IsOrphan(n, unreadable) /\ n \notin uncleared
                  THEN NoRecord ELSE record[n]]

\* Engine::open adopts before it serves any command.
open ==
    /\ ~up
    /\ up' = TRUE
    /\ \E unreadable, uncleared \in SUBSET Names :
         /\ unreadable = {} \/ "adopt" \in Faults
         /\ uncleared = {} \/ "record" \in Faults
         /\ adopt_orphans(unreadable, uncleared)
    /\ UNCHANGED <<plans, op, os, history>>

\* External: any agent process may exit, or be killed, at any moment.
process_exits(p) ==
    /\ Alive(p)
    /\ Kill({p})
    /\ UNCHANGED <<durable, session, op, history>>

-----------------------------------------------------------------------------
Init ==
    /\ up = TRUE
    /\ row = [n \in Names |-> Absent]
    /\ record = [n \in Names |-> NoRecord]
    /\ held = [n \in Names |-> NoHandle]
    /\ plans = NoPlans
    /\ op = Idle
    /\ owner = [p \in Pids |-> Nobody]
    /\ frozen = {}
    /\ autos = [n \in Names |-> 0]
    /\ configured = [n \in Names |-> DefaultPolicy]

Operator(n) ==
    \/ register(n) \/ set_restart_policy(n)
    \/ \E detach \in BOOLEAN : start(n, detach)
    \/ stop(n) \/ stop_retry(n)
    \/ \E force \in BOOLEAN : remove(n, force)
    \/ \E command \in {"pause", "resume"} : suspend_or_resume(n, command)

Reaper(n) == poll_exited(n) \/ poll_unreadable(n)

\* The next step of the operation that holds the locks.
Continue ==
    /\ op # Idle
    /\ \/ launch_fails \/ watch_startup_exit \/ write_spawn_record
       \/ write_spawn_record_fails \/ become_running
       \/ \E p \in Pids : spawn(p)
       \/ backend_stop \/ backend_stop_unconfirmed \/ backend_stop_fails
       \/ clear_spawn_record \/ become_stopped \/ delete_stopped
       \/ signal_backend \/ settle_terminal_record \/ become_failed

Next ==
    \/ \E n \in Names : Operator(n) \/ Reaper(n)
    \/ \E n \in Names, a \in Attempts : restart(n, a)
    \/ Continue
    \/ engine_killed \/ engine_exits \/ open
    \/ \E p \in Pids : process_exits(p)

Spec == Init /\ [][Next]_vars

-----------------------------------------------------------------------------
TypeOK ==
    /\ up \in BOOLEAN
    /\ row \in [Names -> States \cup {Absent}]
    /\ record \in [Names -> SpawnRecord \cup {NoRecord}]
    /\ held \in [Names -> Supervised \cup {NoHandle}]
    /\ plans \in [Names -> [Attempts -> Nat]]
    /\ op \in Job \cup {Idle}
    /\ owner \in [Pids -> Names \cup {Nobody}]
    /\ frozen \subseteq Pids
    /\ autos \in [Names -> 0 .. MaxFailures]
    /\ configured \in [Names -> Policies]

(***************************************************************************)
(* No phantom row: while a session is open and no operation is in flight,  *)
(* a row that claims a supervised process (running, paused) has a handle,  *)
(* so the reaper will see its exit and stop can reach it (AI-8).           *)
(***************************************************************************)
NoPhantomRow ==
    up /\ op = Idle =>
        \A n \in Names : row[n] \in LiveStates => held[n] # NoHandle

(***************************************************************************)
(* What a killed engine leaves behind can be found again: a handle of a    *)
(* live row always has a durable record of the same process and the same   *)
(* detach flag, so adoption re-holds it as it was held (AD-5, NFR-1).      *)
(***************************************************************************)
HandleIsRecorded ==
    \A n \in Names :
        row[n] \in LiveStates /\ held[n] # NoHandle =>
            /\ record[n] # NoRecord
            /\ record[n].pid = held[n].pid
            /\ record[n].detach = held[n].detach

(***************************************************************************)
(* An instance never has two agent processes at once, whatever the order   *)
(* of starts, restarts, stops, kills of the engine and adoptions.          *)
(***************************************************************************)
OneProcess == \A n \in Names : \A p, q \in Live(n) : p = q

(***************************************************************************)
(* No orphan: every live process is held by the open session or is the one *)
(* being launched, and between sessions it is named by the record of its   *)
(* instance, so the next session adopts it (NFR-1).                        *)
(***************************************************************************)
NoOrphan ==
    \A p \in Pids : Alive(p) =>
        LET n == owner[p] IN
        IF up THEN \/ held[n] # NoHandle /\ held[n].pid = p
                   \/ op # Idle /\ op.name = n /\ op.pid = p
              ELSE record[n] # NoRecord /\ record[n].pid = p

(***************************************************************************)
(* Crash-loop protection: between two starts by the operator an instance   *)
(* is restarted automatically fewer than MaxFailures times, across engine  *)
(* kills and adoptions, because the count is durable.                      *)
(***************************************************************************)
CrashLoopBounded == \A n \in Names : autos[n] < MaxFailures

(***************************************************************************)
(* A guaranteed pause is real: between operations the process of a paused  *)
(* row is stopped and the process of a running row is not.                 *)
(***************************************************************************)
PauseIsReal ==
    up /\ op = Idle =>
        \A n \in GuaranteedPause :
            row[n] \in LiveStates /\ held[n] # NoHandle /\ Alive(held[n].pid) =>
                (row[n] = "paused" <=> held[n].pid \in frozen)

(***************************************************************************)
(* The operation in flight owns its row: nothing moves the row of an       *)
(* instance under an operation that has read it (the mutexes, and the      *)
(* state read again after every drain).                                    *)
(***************************************************************************)
OpMatchesRow ==
    op # Idle =>
        LET s == row[op.name] IN
        /\ op.at \in {"launch", "watch", "ready"} => s = "starting"
        /\ op.at \in {"kill", "clear", "settle"} => s = "stopping"
        /\ op.at = "delete" => s = "stopped"
        /\ op.at \in {"signal", "seed", "settled", "fail"} => s \in LiveStates

(***************************************************************************)
(* The row only ever moves along the edges of the lifecycle, whoever moves *)
(* it: operator, backoff timer, reaper, or the reconcile at open.          *)
(***************************************************************************)
RowMoves(n) ==
    row'[n] # row[n] =>
        \/ row[n] = Absent /\ row'[n] = "registered"
        \/ row[n] # "running" /\ row'[n] = Absent
        \/ <<row[n], row'[n]>> \in Edges

RowFollowsLifecycle == [][\A n \in Names : RowMoves(n)]_vars

(***************************************************************************)
(* The fairness of the schedule.  An operation that holds the locks runs   *)
(* on.  The reaper ticks every 250ms and a backoff elapses: both wait for  *)
(* the mutexes, which other operations release again and again, so they    *)
(* get them infinitely often without keeping them (strong fairness).  A    *)
(* session that ended is followed by another.  No process has to exit.     *)
(***************************************************************************)
Fairness ==
    /\ WF_vars(Continue)
    /\ WF_vars(open)
    /\ \A n \in Names : SF_vars(poll_exited(n))
    /\ \A n \in Names, a \in Attempts : SF_vars(restart(n, a))

FairSpec == Spec /\ Fairness

(***************************************************************************)
(* A process that dies under a live row is noticed: the row does not go on *)
(* claiming it, whether this session reaps it or a later one reconciles.   *)
(***************************************************************************)
CrashIsNoticed ==
    \A n \in Names :
        row[n] \in LiveStates /\ Live(n) = {} ~> row[n] \notin LiveStates

(***************************************************************************)
(* A stop whose SIGKILL was not confirmed heals by itself: once the        *)
(* process is dead the row becomes stopped with no operator's retry, as    *)
(* long as the session lives.                                              *)
(***************************************************************************)
UnconfirmedStopHeals ==
    \A n \in Names :
        Unconfirmed(n) /\ ~Alive(held[n].pid) ~> row[n] = "stopped" \/ ~up

(***************************************************************************)
(* The supervisor implements what AgentInstance promises the operator.     *)
(***************************************************************************)
Promise == INSTANCE AgentInstance WITH
               state <- row, live <- [n \in Names |-> Live(n) # {}]

ImplementsPromise == Promise!Spec

=============================================================================
