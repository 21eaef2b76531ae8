--------------------------- MODULE ProcessHandles ---------------------------
(***************************************************************************)
(* The Unix process backend: what one handle may conclude about, and do    *)
(* to, the process it was made for.                                        *)
(*                                                                         *)
(* The operating system owns the process table.  It gives a pid away again *)
(* once the process is reaped and its group is empty, and it does so       *)
(* between any two system calls of the engine.  A process is therefore a   *)
(* pid and a start time; a handle holds both.  A SPAWNED handle reaps its  *)
(* own child, so its pid cannot be given away under it; an ADOPTED one, of *)
(* a process an earlier engine spawned, can only look.                     *)
(*                                                                         *)
(* One agent instance, one engine at a time (Supervisor composes more).    *)
(* The engine holds one lock across every call below, so calls do not      *)
(* overlap; the system, the agent and an abandoned writer thread do.       *)
(***************************************************************************)
EXTENDS Naturals, Sequences

CONSTANTS
    Pids,           \* the pids the system gives away
    HandleBounds    \* records naming how often each bounded thing happens

VARIABLES
    table,      \* the system's process table, by pid
    clock,      \* the latest start time given to a process
    record,     \* the write-ahead spawn record: pid, start time, detached
    engine,     \* "open", or how the last one ended: "closed", "crashed"
    handle,     \* the engine's handle of the agent, or NoHandle
    step,       \* where the call that holds the lock is
    reported,   \* start times of the agents the backend called gone
    harmed,     \* a signal reached a group that was not the agent's
    pipe,       \* the payloads the current agent's stdin got, in order
    writer,     \* a writer thread still owns the pipe
    limits      \* what is left of each bound

handleVars == <<table, clock, record, engine, handle, step, reported, harmed,
                pipe, writer, limits>>

NoHandle == [pid |-> 0]
NoRecord == [pid |-> 0]

\* A pid nobody has.  `members`: processes other than the leader are in its group.
Free == [who |-> "nobody", start_time |-> 0, members |-> FALSE, stopped |-> FALSE,
         stuck |-> FALSE, doomed |-> FALSE, detached |-> FALSE]

Lives(p) == table[p].who \in {"agent", "stranger"}
Zombie(p) == table[p].who = "zombie"

AgentIs(t, p) == table[p].who = "agent" /\ table[p].start_time = t
AgentLives(t) == \E p \in Pids : AgentIs(t, p)

HandleTypeOK ==
    /\ table \in [Pids -> [who : {"nobody", "agent", "stranger", "zombie"},
                           start_time : Nat, members : BOOLEAN, stopped : BOOLEAN,
                           stuck : BOOLEAN, doomed : BOOLEAN, detached : BOOLEAN]]
    /\ clock \in Nat
    /\ record \in {NoRecord} \cup [pid : Pids, start_time : Nat, detached : BOOLEAN]
    /\ engine \in {"open", "closed", "crashed"}
    /\ handle \in {NoHandle} \cup
          [child : BOOLEAN, pid : Pids, start_time : Nat, detached : BOOLEAN,
           stdin : {"NoPipe", "Live", "TimedOut"}]
    /\ step \in {"idle", "term", "window", "sweep", "kill", "confirm", "pause",
                 "resume", "write", "drop", "drop_wait", "dropped"}
    /\ reported \subseteq 1 .. clock
    /\ harmed \in BOOLEAN /\ writer \in BOOLEAN
    /\ pipe \in Seq({"whole", "part"})

HandleInit ==
    /\ table = [p \in Pids |-> Free]
    /\ clock = 0 /\ record = NoRecord /\ engine = "open" /\ handle = NoHandle
    /\ step = "idle" /\ reported = {} /\ harmed = FALSE /\ pipe = << >> /\ writer = FALSE
    /\ limits \in HandleBounds

-----------------------------------------------------------------------------
(***************************************************************************)
(* The system calls.                                                       *)
(***************************************************************************)

\* The slot after its leader died: a zombie while its parent engine has not
\* waited for it, and the pid is only free once nobody is left in the group.
Dead(slot, waits) ==
    IF waits \/ slot.members
    THEN [Free EXCEPT !.who = IF waits THEN "zombie" ELSE "nobody",
                      !.start_time = IF waits THEN slot.start_time ELSE 0,
                      !.members = slot.members]
    ELSE Free

\* The engine that spawned the agent at p is still its parent.
OwnChild(p) == engine = "open" /\ handle # NoHandle /\ handle.pid = p /\ handle.child

\* SIGKILL to a group.  Uninterruptible I/O postpones it for the leader.
Killed(p) ==
    LET slot == [table[p] EXCEPT !.members = FALSE]
    IN  IF slot.who \in {"nobody", "zombie"} THEN slot
        ELSE IF slot.stuck THEN [slot EXCEPT !.doomed = TRUE]
        ELSE Dead(slot, slot.who = "agent" /\ OwnChild(p))

\* What SIGTERM to a group may do: whoever ignores it, or is suspended, stays.
Terminated(p) ==
    {table[p], [table[p] EXCEPT !.members = FALSE]} \cup
    (IF Lives(p) /\ ~table[p].stopped /\ ~table[p].stuck
     THEN {Dead(slot, slot.who = "agent" /\ OwnChild(p)) :
             slot \in {table[p], [table[p] EXCEPT !.members = FALSE]}}
     ELSE {})

\* signal_group: a group that is gone is no error; one that is not the agent's
\* receives the signal all the same.
signal_group(slots) ==
    /\ \E slot \in slots : table' = [table EXCEPT ![handle.pid] = slot]
    /\ harmed' = (harmed \/ table[handle.pid].who = "stranger")

\* kill(pid, 0): a process nobody has reaped yet answers.
pid_is_alive(p) == Lives(p) \/ Zombie(p)

\* Reading the start time may fail; a failure uses up one of the bound.
MayFailToRead(fails) == fails => limits.readFailures > 0
LimitsAfterRead(fails) ==
    IF fails THEN [limits EXCEPT !.readFailures = @ - 1] ELSE limits

\* Bare liveness, the probe the fingerprint check was added to.
reap_if_exited_bare(fails) ==
    IF handle.child THEN ~AgentIs(handle.start_time, handle.pid)
    ELSE ~pid_is_alive(handle.pid)

\* reap_if_exited: TRUE when the process of the handle has exited.
reap_if_exited(fails) ==
    IF handle.child THEN ~AgentIs(handle.start_time, handle.pid)
    ELSE IF ~pid_is_alive(handle.pid) THEN TRUE
    ELSE ~fails /\ table[handle.pid].start_time # handle.start_time

\* try_wait reaps: the zombie leaves the table, and its pid may be free.
Reaped == IF handle.child /\ Zombie(handle.pid)
          THEN [table EXCEPT ![handle.pid] = Dead(@, FALSE)] ELSE table

\* One look at the process through the handle, and what it said.
Looks(exited, fails) ==
    /\ MayFailToRead(fails)
    /\ fails => ~handle.child /\ pid_is_alive(handle.pid)
    /\ exited = reap_if_exited(fails)

Look(exited, fails) == Looks(exited, fails) /\ limits' = LimitsAfterRead(fails)

\* The Supervisor forgets an agent the backend calls gone.
Forget ==
    /\ reported' = reported \cup {handle.start_time}
    /\ handle' = NoHandle /\ record' = NoRecord

\* The engine holds the agent and the lock is free.
Ready == engine = "open" /\ step = "idle" /\ handle # NoHandle

-----------------------------------------------------------------------------
(***************************************************************************)
(* spawn and adopt.                                                        *)
(***************************************************************************)

\* The group is created, its start time is read, and record and handle follow.
spawn(p, detach, pipe_stdin) ==
    /\ engine = "open" /\ step = "idle" /\ handle = NoHandle /\ record = NoRecord
    /\ table[p] = Free /\ limits.spawns > 0
    /\ clock' = clock + 1
    /\ table' = [table EXCEPT ![p] = [Free EXCEPT !.who = "agent", !.start_time = clock',
                                                  !.detached = detach]]
    /\ handle' = [child |-> TRUE, pid |-> p, start_time |-> clock', detached |-> detach,
                  stdin |-> IF pipe_stdin THEN "Live" ELSE "NoPipe"]
    /\ record' = [pid |-> p, start_time |-> clock', detached |-> detach]
    /\ pipe' = << >> /\ writer' = FALSE
    /\ limits' = [limits EXCEPT !.spawns = @ - 1]
    /\ UNCHANGED <<engine, step, reported, harmed>>

\* No attempt could read the start time: the fresh group is killed and reaped.
spawn_unverified ==
    /\ engine = "open" /\ step = "idle" /\ handle = NoHandle /\ record = NoRecord
    /\ \E p \in Pids : table[p] = Free
    /\ limits.spawns > 0 /\ limits.readFailures > 0
    /\ clock' = clock + 1
    /\ limits' = [limits EXCEPT !.spawns = @ - 1, !.readFailures = @ - 1]
    /\ UNCHANGED <<table, record, engine, handle, step, reported, harmed, pipe, writer>>

\* Adoption arms the handle again, whatever the record says.
adopt_armed ==
    /\ handle' = [child |-> FALSE, pid |-> record.pid, start_time |-> record.start_time,
                  detached |-> FALSE, stdin |-> "NoPipe"]
    /\ UNCHANGED record

\* The recorded process is taken over when its pid still shows its start time.
adopt ==
    /\ handle' = [child |-> FALSE, pid |-> record.pid, start_time |-> record.start_time,
                  detached |-> record.detached, stdin |-> "NoPipe"]
    /\ UNCHANGED record

open ==
    /\ engine # "open" /\ limits.opens > 0
    /\ engine' = "open"
    /\ \E fails \in BOOLEAN :
          /\ MayFailToRead(fails)
          /\ fails => record # NoRecord /\ pid_is_alive(record.pid)
          /\ limits' = [LimitsAfterRead(fails) EXCEPT !.opens = @ - 1]
          /\ IF /\ record # NoRecord
                /\ pid_is_alive(record.pid)
                /\ ~fails /\ table[record.pid].start_time = record.start_time
             THEN adopt
             ELSE record' = NoRecord /\ UNCHANGED handle
    /\ UNCHANGED <<table, clock, step, reported, harmed, pipe, writer>>

-----------------------------------------------------------------------------
(***************************************************************************)
(* poll, stop, pause and resume.                                           *)
(***************************************************************************)

\* The reaper's look.
poll ==
    /\ Ready
    /\ \E exited, fails \in BOOLEAN :
          /\ Look(exited, fails)
          /\ IF exited THEN Forget ELSE UNCHANGED <<reported, handle, record>>
    /\ table' = Reaped
    /\ UNCHANGED <<clock, engine, step, harmed, pipe, writer>>

stop ==
    /\ Ready /\ limits.stops > 0
    /\ \E exited, fails \in BOOLEAN :
          /\ Looks(exited, fails)
          /\ limits' = [LimitsAfterRead(fails) EXCEPT !.stops = @ - 1]
          /\ IF exited THEN Forget /\ UNCHANGED step
             ELSE step' = "term" /\ UNCHANGED <<reported, handle, record>>
    /\ table' = Reaped
    /\ UNCHANGED <<clock, engine, harmed, pipe, writer>>

stop_term ==
    /\ step = "term"
    /\ step' = "window"
    /\ signal_group(Terminated(handle.pid))
    /\ UNCHANGED <<clock, record, engine, handle, reported, pipe, writer, limits>>

\* Within the window: the leader was seen to go.
stop_exited ==
    /\ step = "window"
    /\ \E fails \in BOOLEAN : Look(TRUE, fails)
    /\ step' = "sweep"
    /\ table' = Reaped
    /\ UNCHANGED <<clock, record, engine, handle, reported, harmed, pipe, writer>>

\* The window ran out on a process that still looked alive.
stop_window_ends ==
    /\ step = "window"
    /\ \E fails \in BOOLEAN : Look(FALSE, fails)
    /\ step' = "kill"
    /\ UNCHANGED <<table, clock, record, engine, handle, reported, harmed, pipe, writer>>

\* Whoever is left in the group of the leader just reaped is killed.
stop_sweep ==
    /\ step = "sweep"
    /\ step' = "idle"
    /\ signal_group({Killed(handle.pid)})
    /\ Forget
    /\ UNCHANGED <<clock, engine, pipe, writer, limits>>

stop_kill ==
    /\ step = "kill"
    /\ step' = "confirm"
    /\ signal_group({Killed(handle.pid)})
    /\ UNCHANGED <<clock, record, engine, handle, reported, pipe, writer, limits>>

confirm_death ==
    /\ step = "confirm"
    /\ \E fails \in BOOLEAN : Look(TRUE, fails)
    /\ step' = "idle"
    /\ table' = Reaped
    /\ Forget
    /\ UNCHANGED <<clock, engine, harmed, pipe, writer>>

\* The wait that gave up and reported success.
stop_unconfirmed_trusting ==
    /\ step = "confirm"
    /\ \E fails \in BOOLEAN : Look(FALSE, fails)
    /\ step' = "idle"
    /\ Forget
    /\ UNCHANGED <<table, clock, engine, harmed, pipe, writer>>

\* KILL_CONFIRM_TIMEOUT passed: the agent is kept, as possibly alive.
stop_unconfirmed ==
    /\ step = "confirm"
    /\ \E fails \in BOOLEAN : Look(FALSE, fails)
    /\ step' = "idle"
    /\ UNCHANGED <<table, clock, record, engine, handle, reported, harmed, pipe, writer>>

\* pause and resume look first, then signal the whole group.
control(call) ==
    /\ Ready /\ limits.controls > 0
    /\ \E exited, fails \in BOOLEAN :
          /\ Looks(exited, fails)
          /\ limits' = [LimitsAfterRead(fails) EXCEPT !.controls = @ - 1]
          /\ step' = IF exited THEN "idle" ELSE call
    /\ table' = Reaped
    /\ UNCHANGED <<clock, record, engine, handle, reported, harmed, pipe, writer>>

pause == control("pause")
resume == control("resume")

control_signal ==
    /\ step \in {"pause", "resume"}
    /\ step' = "idle"
    /\ signal_group({[table[handle.pid] EXCEPT !.stopped = Lives(handle.pid) /\ step = "pause"]})
    /\ UNCHANGED <<clock, record, engine, handle, reported, pipe, writer, limits>>

-----------------------------------------------------------------------------
(***************************************************************************)
(* send_input: the pipe is moved to a thread, and only comes back when the *)
(* thread is done with it.                                                 *)
(***************************************************************************)

send_input ==
    /\ Ready /\ handle.stdin = "Live" /\ limits.sends > 0
    /\ step' = "write"
    /\ handle' = [handle EXCEPT !.stdin = "TimedOut"]
    /\ pipe' = IF AgentIs(handle.start_time, handle.pid) THEN Append(pipe, "part") ELSE pipe
    /\ writer' = TRUE
    /\ limits' = [limits EXCEPT !.sends = @ - 1]
    /\ UNCHANGED <<table, clock, record, engine, reported, harmed>>

Wrote == [pipe EXCEPT ![Len(pipe)] = "whole"]

\* The agent drained the pipe in time.
write_done ==
    /\ step = "write" /\ AgentIs(handle.start_time, handle.pid)
    /\ step' = "idle" /\ writer' = FALSE
    /\ handle' = [handle EXCEPT !.stdin = "Live"]
    /\ pipe' = Wrote
    /\ UNCHANGED <<table, clock, record, engine, reported, harmed, limits>>

\* Nobody reads any more: an error, and the pipe comes back with it.
write_breaks ==
    /\ step = "write" /\ ~AgentIs(handle.start_time, handle.pid)
    /\ step' = "idle" /\ writer' = FALSE
    /\ handle' = [handle EXCEPT !.stdin = "Live"]
    /\ UNCHANGED <<table, clock, record, engine, reported, harmed, pipe, limits>>

\* The pipe taken back from under the thread.
write_timeout_reclaims ==
    /\ step = "write"
    /\ step' = "idle"
    /\ handle' = [handle EXCEPT !.stdin = "Live"]
    /\ UNCHANGED <<table, clock, record, engine, reported, harmed, pipe, writer, limits>>

\* STDIN_WRITE_TIMEOUT passed: the thread keeps the pipe, for good.
write_timeout ==
    /\ step = "write"
    /\ step' = "idle"
    /\ UNCHANGED <<table, clock, record, engine, handle, reported, harmed, pipe, writer, limits>>

\* An abandoned thread gets its bytes out after all; its result is dropped.
write_late ==
    /\ writer /\ step # "write" /\ handle # NoHandle
    /\ AgentIs(handle.start_time, handle.pid)
    /\ writer' = FALSE
    /\ pipe' = Wrote
    /\ UNCHANGED <<table, clock, record, engine, handle, step, reported, harmed, limits>>

-----------------------------------------------------------------------------
(***************************************************************************)
(* The end of an engine: Drop, or a kill.                                  *)
(***************************************************************************)

\* A detached handle is let go; any other is looked at before it is killed.
close ==
    /\ engine = "open" /\ step = "idle"
    /\ IF handle = NoHandle \/ handle.detached
       THEN step' = "dropped" /\ UNCHANGED limits
       ELSE \E exited, fails \in BOOLEAN :
               /\ Look(exited, fails)
               /\ step' = IF exited THEN "dropped" ELSE "drop"
    /\ table' = IF handle = NoHandle THEN table ELSE Reaped
    /\ UNCHANGED <<clock, record, engine, handle, reported, harmed, pipe, writer>>

drop_kill ==
    /\ step = "drop"
    /\ step' = IF handle.child THEN "drop_wait" ELSE "dropped"
    /\ signal_group({Killed(handle.pid)})
    /\ UNCHANGED <<clock, record, engine, handle, reported, pipe, writer, limits>>

\* wait() on the own child has no bound.
drop_wait ==
    /\ step = "drop_wait" /\ Zombie(handle.pid)
    /\ step' = "dropped"
    /\ table' = Reaped
    /\ UNCHANGED <<clock, record, engine, handle, reported, harmed, pipe, writer, limits>>

\* Children nobody waits for any more are init's.
Orphaned == [p \in Pids |-> IF Zombie(p) THEN Dead(table[p], FALSE) ELSE table[p]]

Ended(how) ==
    /\ engine' = how /\ step' = "idle" /\ handle' = NoHandle
    /\ table' = Orphaned /\ writer' = FALSE
    /\ UNCHANGED <<clock, record, reported, harmed, pipe>>

closed == step = "dropped" /\ Ended("closed") /\ UNCHANGED limits

\* The engine process is killed anywhere.
crash ==
    /\ engine = "open" /\ limits.crashes > 0
    /\ Ended("crashed")
    /\ limits' = [limits EXCEPT !.crashes = @ - 1]

-----------------------------------------------------------------------------
(***************************************************************************)
(* The system and the agent.                                               *)
(***************************************************************************)

agent_forks(p) ==
    /\ table[p].who = "agent" /\ ~table[p].members /\ limits.forks > 0
    /\ table' = [table EXCEPT ![p].members = TRUE]
    /\ limits' = [limits EXCEPT !.forks = @ - 1]
    /\ UNCHANGED <<clock, record, engine, handle, step, reported, harmed, pipe, writer>>

\* The leader exits by itself, or its I/O resolves and a pending SIGKILL lands.
leader_exits(p) ==
    /\ Lives(p)
    /\ table' = [table EXCEPT ![p] = Dead(@, @.who = "agent" /\ OwnChild(p))]
    /\ UNCHANGED <<clock, record, engine, handle, step, reported, harmed, pipe, writer, limits>>

member_exits(p) ==
    /\ table[p].members
    /\ table' = [table EXCEPT ![p] = IF Lives(p) \/ Zombie(p)
                                     THEN [@ EXCEPT !.members = FALSE] ELSE Free]
    /\ UNCHANGED <<clock, record, engine, handle, step, reported, harmed, pipe, writer, limits>>

\* An uninterruptible wait: signals do not get through until it is over.
agent_sticks(p) ==
    /\ table[p].who = "agent" /\ ~table[p].stuck /\ limits.stuck > 0
    /\ table' = [table EXCEPT ![p].stuck = TRUE]
    /\ limits' = [limits EXCEPT !.stuck = @ - 1]
    /\ UNCHANGED <<clock, record, engine, handle, step, reported, harmed, pipe, writer>>

agent_unsticks(p) ==
    /\ table[p].stuck
    /\ table' = [table EXCEPT ![p] =
                    IF @.doomed THEN Dead(@, OwnChild(p)) ELSE [@ EXCEPT !.stuck = FALSE]]
    /\ UNCHANGED <<clock, record, engine, handle, step, reported, harmed, pipe, writer, limits>>

\* The system gives the pid to another process, a group leader as well.
pid_reused(p) ==
    /\ table[p] = Free /\ limits.strangers > 0
    /\ clock' = clock + 1
    /\ table' = [table EXCEPT ![p] = [Free EXCEPT !.who = "stranger", !.start_time = clock']]
    /\ limits' = [limits EXCEPT !.strangers = @ - 1]
    /\ UNCHANGED <<record, engine, handle, step, reported, harmed, pipe, writer>>

-----------------------------------------------------------------------------
Stopping == stop_term \/ stop_exited \/ stop_window_ends \/ stop_sweep
            \/ stop_kill \/ confirm_death \/ stop_unconfirmed
Writing == write_done \/ write_breaks \/ write_timeout
Dropping == drop_kill \/ drop_wait \/ closed

System ==
    \E p \in Pids : \/ agent_forks(p) \/ leader_exits(p) \/ member_exits(p)
                    \/ agent_sticks(p) \/ agent_unsticks(p) \/ pid_reused(p)

HandleNext ==
    \/ \E p \in Pids, detach, pipe_stdin \in BOOLEAN : spawn(p, detach, pipe_stdin)
    \/ spawn_unverified \/ open
    \/ poll \/ stop \/ Stopping
    \/ pause \/ resume \/ control_signal
    \/ send_input \/ Writing \/ write_late
    \/ close \/ Dropping \/ crash
    \/ System

\* The engine's calls return: their waits and loops are bounded, except wait()
\* in Drop, which is only as quick as the agent; the reaper ticks for ever.
HandleFairness ==
    /\ WF_handleVars(poll)
    /\ WF_handleVars(Stopping) /\ WF_handleVars(control_signal) /\ WF_handleVars(Writing)
    /\ WF_handleVars(Dropping)

HandleSpec == HandleInit /\ [][HandleNext]_handleVars

FairHandleSpec == HandleSpec /\ HandleFairness

-----------------------------------------------------------------------------
(***************************************************************************)
(* Properties.                                                             *)
(***************************************************************************)

\* What the backend calls gone is gone: neither a reaper's Exited nor a
\* confirmed stop is ever said of an agent that still runs, whatever start
\* times could not be read, and whatever the kernel keeps a process from
\* dying of (UnixProcess::reap_if_exited, confirm_death).
GoneIsGone == \A t \in reported : ~AgentLives(t)

\* A clean exit kills the agents it holds, and not the detached ones, however
\* many engines have adopted and let go of them in between (Drop for
\* UnixProcess, UnixBackend::adopt).  An agent in uninterruptible I/O dies of
\* it when it can.
ExitSpares ==
    /\ engine = "open" /\ engine' = "closed" /\ handle # NoHandle
       => LET slot == table'[handle.pid]
          IN  slot.who = "agent" /\ slot.start_time = handle.start_time
                => slot.detached \/ slot.doomed
    /\ step = "drop" /\ step' # "drop" /\ engine' = "open"
       => ~(AgentIs(handle.start_time, handle.pid) /\ table[handle.pid].detached)
ExitSparesDetachedOnly == [][ExitSpares]_handleVars

\* The engine finds out about every death, also when another process has the
\* pid by then and will keep it (reap_if_exited's start-time check).
HandleOfDead == engine = "open" /\ handle # NoHandle /\ ~AgentLives(handle.start_time)
DeathIsNoticed == HandleOfDead ~> ~HandleOfDead

\* An agent reads whole payloads in the order they were sent; only the last
\* one may be cut off (write_stdin_bounded never writes behind an abandoned
\* writer).
NoTornInput == \A i \in 1 .. Len(pipe) - 1 : pipe[i] = "whole"

(***************************************************************************)
(* unix/mod.rs:412 says of the sweep after a reaped leader that the window *)
(* in which a recycled group would be hit "is fully closed by the pid +    *)
(* start-time fingerprint".  No fingerprint is looked at between the last  *)
(* look and the signal.                                                    *)
(***************************************************************************)
OnlyOwnGroupSignalled == ~harmed

=============================================================================
