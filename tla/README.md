# Ktesio in TLA+

Ktesio keeps a fleet of agent processes alive on one machine. The `kt` command
and embedding hosts drive an engine (`crates/ktesio-engine`) that registers
*Agent Instances*, starts, stops, pauses and removes their processes, notices
crashes, restarts with backoff, finds surviving processes again after the
engine itself has died, and meters what the agents consume.

This directory models that engine, and the `kt` command and the conformance
kit around it. Paths below are relative to
`crates/ktesio-engine/src/` unless they start with `docs/` or `crates/`.

## 1. The system

| Part | State it keeps | Operations | Modelled in |
|---|---|---|---|
| Lifecycle table and Restart Policy: `domain/lifecycle.rs`, `domain/transition.rs`, `domain/restart.rs` | none, pure | `next_state`, `is_crash_loop`, `delay_for` | `Lifecycle` (not the delays) |
| Supervisor: `domain/supervisor.rs` | `running`: a handle and a Run context per held instance; poll-error streaks | `start`, `start_detached`, `restart`, `stop`, `pause`, `resume`, `send_input`, `poll_once`, `adopt_orphans`, drains, budget enforcement | `Supervisor`; drains in `Metering`, poll errors in `PollCorroboration`, enforcement in `Budget`, input in `ProcessHandles` and `Kt` |
| Engine facade: `engine.rs` | two mutexes, reaper task, backoff timers | `open`, `Drop`, `remove`, one method per command | `Supervisor` |
| Process backend: `ports/process_backend.rs`, `backends/` | one process group or Job Object per handle, its stdin, its output capture | `spawn`, `stop`, `poll`, `pause`, `resume`, `adopt`, `write_stdin`, `Drop`, tailer passes | Unix in `ProcessHandles`, Windows in `JobHandles`, capture in `OutputCapture`; as the supervisor sees it in `Supervisor` |
| State store: `store/sqlite.rs`, `ports/state_store.rs` | `agent_instances`, `agent_runtime`, `usage_events`, memory backing | one transaction per mutation | rows and spawn records in `Supervisor`; the ledger in `Metering`, its totals in `Budget`; memory backing in `AgentHome` |
| Registry: `domain/registry.rs`, `paths.rs` | Agent Homes and configuration files over the store | register, remove, config, memory backing | `AgentHome`, `AdapterContract`; row changes also in `Supervisor` |
| Poll corroboration: `poll_once` phases 1 and 2 | streak per handle, environmental ticks | one verdict per handle and tick | `PollCorroboration` |
| Metering: `drain_usage_for`, `drain_observed_for` | cursor and park, observed queue and park | drain, park, retry, skip | `Metering` |
| Metering listener: `metering/` | one task per connection, the usage queue | accept, forward, inject, skim, relay | `Relay`; its queue and end in `Metering` |
| Budgets and costs: `enforce_budget`, `domain/budget.rs`, `domain/cost.rs` | breach latch per Run, `breaches.log` | price, total, evaluate, record, act | `Budget` |
| Event bus and resync: `domain/bus.rs`, `domain/resync.rs` | ring of 1024, cursors over the logs | append, publish, receive, lag, resync | `EventStream` |
| Config and secrets: `domain/config.rs`, `ports/secret_resolver.rs` | `config.toml` per instance | write, merge, mask, resolve, deliver | `AgentHome`, `Budget` (not the parsing) |
| Attributed log and `kt agent logs`: `ports/process_backend.rs`, `crates/kt/src/cli/agent.rs` | three generations of `output.log`, a byte cursor per stream and per follower | fold, rotate, dump, follow | `OutputCapture` |
| Adapters: `adapter/`, `crates/ktesio-adapter-api` | the manifest file and its snapshot in the Agent Home | validate, negotiate, snapshot, resolve, apply | `AdapterContract`, `AgentHome` |
| Fleet view: `domain/fleet.rs`, `fleet_entry_for` | none, a projection | compose a row from reads that may fail, total the rows | `Fleet` |
| `kt agent` commands: `crates/kt/src/cli/agent.rs`, `exit_code.rs` | one engine per command | parse, open, one call, map the error, exit code, drop | `Kt` |
| Self update: `crates/kt/src/cli/self_update.rs`, `update_check.rs` | the executable, `update-check.json` | look up, download, verify, replace, notify | `SelfUpdate` |
| Conformance kit: `crates/ktesio-conformance/src/tck.rs` | an engine over a fresh state directory, a report | eight sections of steps with their cleanup | `Conformance` |

How they interact. Every engine method locks the registry mutex and then the
supervisor mutex on a blocking thread and runs to its end. The reaper is a task
that does the same every 250 ms and spawns one sleeping task per planned
restart, which takes the same locks when its backoff is over. Agent processes
run beside all of this, and outlive an engine that is killed. The store is the
only memory two engine sessions share: rows lead, and each is one committed
transaction, so a kill of the engine falls between two of them.

What is hard. The engine may be killed between any two durable writes or
process actions. A process may exit at any moment, a kill may not be confirmed,
a signal, a poll, a write or an event append may fail. A timer may fire long
after the state that planned it has changed. A detached agent must survive the
engine's exit and every adoption; an attached one must not. All of these meet
in one row, one record, one handle and one process per instance, and what
makes the supervisor correct is that the four agree.

`PROJECT.json` lists the components and, under `hazards`, every place found in
the code where this can go wrong.

## 2. Modules

| Module | Contents |
|---|---|
| `Lifecycle` | the transition table, the event-driven edges, the crash-loop rule |
| `Supervisor` | one engine session over a state directory, its kills and reopenings, and the processes |
| `AgentInstance` | what the supervisor promises the operator, with no engine in it |
| `SupervisorClaims` | two sentences of the code's comments that the behaviours of `Supervisor` refute |
| `SupervisorProofs` | theorems about `Supervisor`: types, lifecycle, records; who owns the processes; that it implements `AgentInstance`; the crash loop; the pause |
| `Metering` | one instance's usage on its way to the ledger: both drains, parks, terminal drains |
| `MeteringProofs` | theorems about `Metering`: types, marks, that nothing is counted twice, that every event is accounted for, and in order |
| `PollCorroboration` | the reaper's reading of poll errors |
| `Budget` | one instance's ceilings: arithmetic, latch, record, action, and the nesting of enforcement in the stop it takes |
| `BudgetProofs` | theorems about `Budget` |
| `EventStream` | the committed events of one instance, the bus and the resync, and the Host that uses them |
| `StreamProofs` | theorems about `EventStream` and `Relay` |
| `OutputCapture` | one instance's raw output, its attributed log, and one follower |
| `AgentHome` | the row and the directory of one name: registration, removal, config, memory backing, and what a start delivers |
| `HomeProofs` | theorems about `AgentHome` |
| `AdapterContract` | what a manifest declares, what registration keeps of it, and what a start takes from the file again |
| `DecisionProofs` | theorems about `PollCorroboration`, `AdapterContract` and `Kt` |
| `ProcessHandles` | the Unix backend's handles against a process table that recycles pids |
| `HandleProofs` | theorems about `ProcessHandles` |
| `JobHandles` | the Windows backend's handles and Job Objects |
| `Relay` | the metering listener between an agent and its provider |
| `SelfUpdate` | the executable that replaces itself, and the cached check for a newer one |
| `ServiceProofs` | theorems about `JobHandles` and `SelfUpdate` |
| `Conformance` | the suite of the conformance kit against a sound or defective adapter |
| `Kt` | `kt` commands one after another over one state directory, to their exit codes |
| `Fleet` | what the Fleet view says of instances, whichever of its reads fail |
| `MCSupervisor`, `MCMetering` | instances of one module each for TLC |
| `MCStreams`, `MCDecisions`, `MCServices` | the instances of several modules that share no state, checked side by side |

### Supervisor

State and code:

| Variable | Stands for |
|---|---|
| `row` | `agent_instances.state` in SQLite, `"absent"` without a row |
| `record` | the `agent_runtime` row: fingerprint, policy, count, detach; pid `NoPid` is the policy-only seed with pid 0 |
| `held` | `Supervisor.running`: fingerprint, `detach`, `stop_unconfirmed` |
| `plans` | the sleeping restart tasks, counted per name and attempt |
| `op` | the operation that holds the mutexes and the step it has reached |
| `owner`, `frozen` | the operating system: live processes and those under SIGSTOP |
| `up` | an engine session is open |
| `autos`, `configured` | history: automatic restarts since the operator's start, policy last set |

A `Pids` value is a fingerprint, that is pid and start time together, because
that pair is what `backend.adopt` and the adopted handle's poll compare. A
fingerprint is taken again only when nothing refers to it, so a finite set of
them serves an unbounded history.

An operation is split at its durable writes and process actions. `start` is
`BeginStart` (gate, detach refusal, commit of `starting`), `spawn` or
`launch_fails`, `watch_startup_exit` or `write_spawn_record` (after the
readiness window), `become_running`. `stop` is `BeginStop`, `backend_stop` (or
`backend_stop_unconfirmed`, `backend_stop_fails`), `clear_spawn_record`,
`become_stopped`, and for a removal `delete_stopped`. A crash is `poll_exited`
(the handle goes, `plan_restart` clears or counts), for a terminal crash
`settle_terminal_record`, then `become_failed`. While `op` is not `Idle` no
other operation begins, which is the mutexes; a process may exit and the
engine may be killed (`KillAt` selects the steps).

What a step's failure does follows the code: an error that `?` propagates ends
the operation with whatever was written, an error that `let _ =` drops lets it
go on. `Faults` selects the failures: `append` (the event-log append after a
committed state), `record` (writes to the spawn-record table), `poll`,
`stuck` (a SIGKILL that is not confirmed in time), `control` (a signal that
cannot be delivered), `adopt` (an unreadable start time at open), `prepare` (a
restart that fails before its first state change). The operator's start that
fails before its first state change leaves no trace and is no step at all. A
failed commit of a row leaves its operation where an engine kill would, and is
covered by the kill points.

A crash is polled one handle at a time: `poll_once` handles its names in
sequence and shares nothing between them but the poll corroboration, which is
`PollCorroboration`; here the tenth error of a handle is the step
`poll_unreadable`. Budget enforcement, which can pause or stop an
instance inside a drain, takes the same steps as the operator's pause and stop;
`Metering` has the stop inside the drain.

Two constants describe the platform. `DiesWithEngine` is the Windows Job
Object with `KILL_ON_JOB_CLOSE`, which takes an attached agent down with a
killed engine; on Unix it lives on. `Observed` are the instances metered by the
engine's own listener, for which a detached start is refused.

### Properties

- `NoPhantomRow`: a `running` or `paused` row has a handle in an open session.
- `HandleIsRecorded`: the handle of such a row has a durable record of the same
  process and detach flag, so that a later session holds it again as it was.
- `OpMatchesRow`, a lemma of the others and a theorem: nothing moves a row under
  the operation that has read it.
- `RowFollowsLifecycle`: whoever moves a row moves it along an edge. (`poll_exited`
  is one step, so it does not show that the reaper must read a row again after the
  drain.)
- `OneProcess`, `NoOrphan`: never two processes for one instance, none under a
  resting row, none out of reach.
- `PauseIsReal`: a guaranteed pause and its process agree, where the signal succeeds
  and the engine is not killed before it; the code gives no more.
- `CrashLoopBounded`: fewer than `MaxFailures` automatic restarts between two
  starts by the operator.
- `CrashIsNoticed`, `UnconfirmedStopHeals`: a dead process does not stay
  claimed, and a stop that could not be confirmed completes by itself.
- `ImplementsPromise`: the whole is an implementation of `AgentInstance`, in
  which a process appears only under `starting` and nothing is left running by
  an edge to `stopped`, `failed` or to no row.

### Metering

| Variable | Stands for |
|---|---|
| `log` | the length of `agent.log`, three pieces to a usage line: first part, rest, newline |
| `completed` | completions the listener has queued; the queue is what lies between `handle.minted` and it |
| `handle` | the `Supervised` entry: `usage_cursor`, `usage_park_attempts` (`parked`), `observed_park` with its attempts, the breach latch, `stop_unconfirmed` |
| `op` | the operation that holds the mutexes; `outer` is a drain that a breach's stop interrupted, `context` the Run context a start has prepared |
| `stopping`, `alive`, `listening`, `run` | the row, the process, its listener, the Run id |
| `ledger` | `usage_events`: how many rows it has of each Run and event |
| `produced`, `skipped`, `lost`, `silent`, `interrupted` | history: events emitted, announced as skipped or lost, dropped without a word, and the Runs stopped inside a drain |

Events are numbered over all Runs, so that the history can tell a second count
of one event from a count of another; the key of a row is its Run and that
number, which stands for the agent's own or the minted `sequence`. A drain is
one step that commits some prefix of what it took, because a failed commit ends
it, and `Finish` then does what the code does with the rest. The exception is a
commit that breaches a budget whose action is `stop`: `enforce_stop` runs the
whole of `stop_inner` inside the drain, so `breach_stop` ends the step there,
the stop takes its own steps, and `resume_drain` carries on with the rest of
the interrupted pass, its old cursor, and possibly no handle.

- `CountedOnce`: no event has two rows.
- `Accounted`: an emitted event is counted, announced as not counted, still
  drainable, or lost at one of the six places where the code is silent.
- `SkipsInOrder`: what precedes a counted event was settled before it
  (`NoLeapfrog`), and a skipped event stays uncounted (`SkipIsFinal`).
- `WaitsEnd`, with a property of `JobHandles`: no park lasts for ever, though every
  commit may fail (`AllSettled`).

`NoLeapfrog` and `SkipIsFinal` except the Runs a Breach Action stopped inside
a drain. There the code breaks both: the nested stop drains the queue that
arrived meanwhile before the interrupted pass commits its rest, and an
interrupted pass may announce as skipped what the nested one has counted.

The six silent places: a drain of a process that still lives (before a stop's
kill, or of a handle that cannot be polled) takes half a line and passes it, so
the line does not parse when its rest arrives; a completion queued, or a line
written, between the last drain and the end of the handle; a retried stop,
which drops the handle with no drain; the rest of an interrupted drain whose
handle is gone and whose commits then fail, though the diagnostic says
"parked"; a launch whose process exits within the readiness window; a killed
engine, which loses what it had not drained, as the code documents at adoption.

### PollCorroboration

`holding`, `poll_error_streaks` and `consecutive_environmental_ticks` are the
supervisor's fields; `watch` is history. A tick reads every held handle at
once: any set may err, any other may have exited. Two errors in one tick are an
outage, which neither adds to a streak nor clears it, until it has lasted
`MAX_CONSECUTIVE_ENVIRONMENTAL_TICKS`.

- `BrokenIsNoticed`: a handle that errs at every tick is given up within a
  bound, `(10 - 1) * (40 + 1) + 40` ticks at the code's thresholds, however its
  peers flap. (An adversarial peer can err and recover so that the immunity
  begins anew each time: that is where the product comes from.)
- `OutageIsNoCrash`: a handle is given up only for errors it made alone or in an
  outage that had outlasted its immunity.

### Budget

| Variable | Stands for |
|---|---|
| `effective`, `changes` | the effective `budget.*` and `cost.*` leaves, read live at each commit, and how often they changed or a read of the store failed |
| `ledger` | `usage_events`: clamped tokens and the Rate each row was committed with |
| `run`, `held`, `latch` | the `Supervised` entry: Run id, its presence, `breached_scopes` |
| `op` | the stack of frames: a dimension being evaluated, an action about to be taken, a stop that drains |
| `breaches` | `breaches.log` |
| `past` | history: what was really reported, records that could not be written, actions taken and refused |

A commit pushes both evaluations on `op`; an evaluation that fires latches,
records, and pushes its action; an enforced stop drains, so commits happen on
top of it. The engine may be killed between any two frames, and the next one
adopts the process under a new Run and evaluates at once, or finds it gone.

The reads of an enforcement may fail. A configuration that cannot be read ends it
without an evaluation, a Rate that cannot be read prices the row at nothing, and a
total that cannot be read counts as none (`Observed`), each for one enforcement.
`past.evaluated` is lost with them until a later one reads all it needs.

Integers keep their width: `U64MAX` and `I64MAX` are 15 and 7, a micro-dollar
price is per 4 tokens, and one reported usage is over every width.

A total is one recursive function, `Sum`, of the numbers its rows give, exact or
saturating at a bound.

The run's `GuardrailHolds` is the conjunction of four:

- `RecordedOnceAndFirst`: one record per dimension, scope and Run, and no action
  before its record or the announcement that it could not be written.
- `CrossingIsLatched`: after every row and every adoption whose configuration and
  totals could be read, a dimension whose *real*
  consumption has reached a ceiling has fired in this Run.
- `NobodyRunsOn`: an instance that still runs has breached in this Run only under
  `warn`, or its action was refused aloud, or the operator resumed it.
- `CostIsClose`: the total is within one micro-dollar per row of the exact cost
  at the historic Rates, or saturated.

### EventStream

A log file is its terminated lines and what stands behind the last newline. An
append writes the record and then the newline, so a full disk or a kill leaves
part of a record, or a record without its newline, and the next append *fuses*
with either into a line no reader takes. The ledger family is transactional and
never torn. `committing` is what a commit point has appended and not yet
published; `host` is a Host that subscribes and resyncs in either order, and is
killed with the engine it embeds, keeping its cursor and view.

The first two are the run's `StreamIsTrue`.

- `CommittedTruth`: the bus carries only events whose append succeeded, and such
  an event is found by every reader for good, or every reader of that log fails.
- `NoSilentGap`: a Host that subscribed first and then resynced lacks no
  committed event that is not on its way.
- `TearIsTold`: after a resync the Host has every event ever begun, or was told
  of a skipped tail, or its read failed.
- `Converges`: a lagging or restarted Host comes to know every committed event,
  or is told that it cannot.

### OutputCapture

A raw file is a sequence of bytes, some of them newlines; an attributed line
names the bytes it stands for, so its length is theirs. `captures` has one
`LogCapture` per Run with its cursors, its tailer thread and its lock; a pass is
two steps, one per stream, under that lock, and `engine line` adds the mirrored
transition. `starts` are the first lines of the three generations. The follower
dumps them oldest first, one step per file, and then polls, checks the state,
and drains.

The run's `LogIsExact` is `AttributedExactly` and `FollowIsExact`; its
`LogMovesOn` is the other two.

- `AttributedExactly`: each attributed line is one whole line of its stream,
  none is skipped within a Run, and none stands twice or out of order when the
  tailers of earlier Runs were gone by its start.
- `EverythingAppears`: while its capture lives, every whole line gets in, however
  far behind the tailer is.
- `FollowIsExact`: until a rotation, a follower has printed each line from the
  oldest retained one to its cursor exactly once.
- `FollowEnds`: once the instance has left `running` for good, a follower ends.

### AgentHome

`row` is the instance and its memory backing, `home` the directory:
`config.toml` as a tree of leaves, the adapter snapshot, the memory directory,
the effective-config snapshot and the native file. `command` is where the
operation of each process stands; there are up to two, because one engine's
operations exclude each other and two engines' do not. `write_atomically` is one
step, its rename; `adapter.json` is truncated and then written, which are two.

- `RegisteredMeansUsable`: an instance whose registration was not cut short has a
  home that can be read and started.
- `LaunchIsHonest`: an agent is never given a mask, a bare reference or a memory
  directory that the engine did not choose; the snapshot shows this start with
  every secret masked.
- `NothingIsLost`: a config write changes its key and what stood under it, no
  sibling; what the agent remembered survives everything but a deletion the
  operator asked for or a failed registration's rollback.

The first two, and the sibling half of the third, are for one process: with two,
writes of whole files from stale reads really do overwrite each other.

### ProcessHandles

`table` is the operating system's: a leader with its start time, whether its
group has members, whether it is suspended or stuck in the kernel with a signal
pending. A pid is free once its leader is reaped and its group empty, and may
then become a stranger's between any two calls. `handle` and `record` are the
backend's handle and the spawn record; `step` is the place of the call that
holds the lock. `reap_if_exited` differs for a spawned handle, which reaps its
own child, and an adopted one, which looks at a pid and a start time that may
be unreadable.

- `GoneIsGone`: nothing called exited or stopped still runs.
- `DeathIsNoticed`: every death is found out about, also under a recycled pid.
- `ExitSparesDetachedOnly`: a clean exit of the engine kills what it holds except
  detached agents, through any number of adoptions.
- `NoTornInput`: an agent reads whole payloads, all but the last.

### JobHandles

Windows has no groups to signal. A child is created first and assigned to its
Job Object afterwards (`step` `created`, `assigned`), so what it starts in
between is in no job, and a kill of the engine between the two leaves an agent
no job will end. `slots` are pids with their creation times, `kin` what the
agents started, inside their job or not. An attached agent's job kills on close,
a detached agent's does not and is only there to be terminated by a stop that
escalates. A later engine opens the process again, never the job; it checks the
creation time. A pid is not reused while somebody holds a handle to its process.

An adoption that cannot open the recorded process, or cannot read its creation
time, answers as for one that is gone (`cannot_read`): `reconcile` fails the row
and clears the record, and the agent is in `missed`, not in `gone`. An attached
agent has died with its engine by then; a detached one runs on and is nobody's,
which `GoneIsGone` and `DetachedIsFound` except by that name. A wait or a
termination of a stop can fail too (`call_fails`): the handle and the row stay as
they are.

- `JobIsExact`: who is called exited or stopped is gone (`GoneIsGone`); however the
  engine ends, the job takes an attached agent and what is inside with it, except
  one stuck in the kernel (`AttachedDiesWithEngine`); a recorded detached agent is
  found by the next engine, unless an adoption could not read it (`DetachedIsFound`), no other process is taken for it
  (`NoStrangerHarmed`), and an escalation reaches all that is in the job
  (`EscalationReachesAll`).
- `WaitsEnd`: a stop under way ends (`StopEnds`).

### AdapterContract

`disk` is `adapter.toml`, which its author may edit, break or delete between any
two reads; `snapshot` is `adapter.json`. Registration validates, negotiates the
contract version and snapshots; a start takes the launch from the snapshot and
the config mapping from the file as it then is. A manifest is a record of what
the checks tell apart. The model leaves out snapshots taken with a launch before
there was a version check.

- `StartIsHonest`: an agent only runs a launch of the engine's own contract
  major, no file is rendered outside its home (`OnlyTheContractRuns`), and a
  start says aloud when a secret goes on a command line, a launch variable is
  replaced or an attached memory directory is not delivered
  (`NothingIsDoneSilently`).

The last clause has an exception that the proof brought up (`Displaced`): the
validation accepts a manifest that maps `memory.dir` and another key to one
variable (`ConfigMapping::validate`, `config.rs:230`), the key that comes later
is the one delivered, and `memory_delivery_notice` (`supervisor.rs:4495`) asks
only whether the manifest declares a target. Such an agent gets neither the
directory nor a notice; one of the run's manifests is of this kind.

### Relay

`call` is where each request of the agent stands, `queue` the listener's
`ObservedQueue`, `taken` what the reaper has drained. A response is one object or
a sequence of SSE frames, and is read whole; its usage is queued before it is
written to the agent, so that an agent that acts on the answer is already charged.

- `RelayIsHonest`: an answer given is charged once with the total its stream
  ended on, nothing is charged but what a provider counted
  (`ChargedForWhatItGot`), and no call fails or changes because it is metered
  (`MeteringIsHarmless`).

### SelfUpdate

Several `kt` commands at once look up the latest release, download archive and
checksum (two uploads, which may be replaced between), write a replacement
beside the executable and rename it. `cache` is `update-check.json`, `clock` the
system's, which may be set back.

- `UpdateIsSafe`: there is always a whole executable that was released; a notice
  names a released, newer version and, while fetches work and the clock is
  right, lags less than an interval.

A downgrade is possible: of two updates that overlap, the one that looked up the
older release may rename last. A clock that is set back makes a cache fresh for
as long as it was ahead.

### Conformance

The eight sections as sequences of steps over seven instances of one engine.
`defects` is what is wrong with the adapter or the engine under it; a step fails
for a defect it catches, for the state of its instance, or because the machine
was too slow (`troubles`). A section stops at its first failure but still
cleans up; a failed registration fails every section; a panic is caught and
reported as a failure of every section.

- `VerdictIsHonest`: a pass means none of the defects the section is there to
  find (`PassIsEarned`), a sound adapter on an undisturbed machine fails no
  section (`SoundIsConformant`), a skip means that there was nothing to show
  (`SkipIsDeclared`), and the report is complete and nothing started is left
  (`NothingIsLeft`).

`PassIsEarned` excepts two: the config section accepts a dump left by an earlier
run at an absolute path, and a watch may see an agent the machine starved. The
stops of the suite's own cleanup are taken to succeed.

### Kt

A command opens an engine, which adopts or reconciles what the last one left
(`world`), makes one call, maps its error and drops the engine. A call runs under
both mutexes and is one step here, with every outcome it can leave; kills fall
between the steps. Two faults inside one call, and failures of the adoption, are
`Supervisor`'s. A command ends before a backoff does, so a crash it notices is
not restarted.

- `CommandIsHonest`: the exit code says what happened (`CodeIsHonest`); nothing
  is left running that was not started detached, unless a command was killed
  (`NothingIsLeftRunning`); and what runs has the record by which the next
  command finds it (`AgentIsFindable`).

What follows from one engine per command, and a reader may not expect: `send`
never succeeds, because an adopted handle has no stdin; any command, `list`
included, adopts the attached survivor of a killed one and kills it on its exit.

### Fleet

The view changes nothing, so it is an operator, `View(bad)`, over the state and
the set of reads that fail, and the invariant looks at it in every state that
metering, configuration, starts, failures and adoption reach.

- `FleetIsHonest`: the totals are the ledger's and say when they are a lower
  bound (`TotalsAreTrue`); a read that fails for one instance leaves the other
  rows as they are, and the shared one leaves all (`RowsAreIndependent`); a
  ceiling has nothing left exactly when enforcement counts it as reached, and a
  failed read accuses nobody (`HeadroomIsTrue`); the cause shown is that of the
  failure the row is in (`CauseIsTrue`); a current Run is one that is held
  (`RunIsHeld`).

When a read fails, `TotalsAreTrue` claims only that the totals shown are at most the
ledger's: `engine.rs:685-691` documents the fall back to zero;
`docs/commands.md:48` and `:77` promise the ledger's totals without that case.

## 3. Runs

All runs of `MCSupervisor` use three fingerprints: one instance can hold one,
launch another and still find a leaked third. Fingerprints are interchangeable,
so they are symmetric except in `supervisor_lifetimes`, which checks liveness.
`CHECK_DEADLOCK FALSE` is set everywhere because the fault-free system may rest
in a state no configured command leaves, and because the agent of `Metering`
emits a bounded number of events in a bounded number of Runs.

| Run | Question | Bounds |
|---|---|---|
| `supervisor_lifetimes` | do row, record and handle agree over attached and detached starts, engine kills, unreadable handles, failed adoptions, unconfirmed stops; is a crash noticed, does an unconfirmed stop heal? | one instance, crash loop at 3, one plan of each attempt, agents that die with the engine, fair schedule |
| `supervisor_faults` | does a process escape when a write, an append, a signal or a confirmation fails, or the engine dies there? | attached starts, crash loop at 3, two plans of each attempt |
| `supervisor_remove` | is the whole an implementation of `AgentInstance` with removal and re-registration, is a guaranteed pause real, is the crash loop bounded? | two instances, one observed, one plan of each attempt |
| `streams` | do events, output, process handles on Unix and model traffic lose, double or misattribute anything? | `EventStream`, `ProcessHandles`, `Relay`, `OutputCapture`; see below |
| `decisions` | are crashes, breaches and launches decided rightly, and do verdicts, exit codes and the Fleet view say what is so? | `PollCorroboration`, `AgentHome`, `AdapterContract`, `Budget`, `Conformance`, `Kt`, `Fleet`; see below |
| `services` | is usage counted once, in order, announced when lost, and never stuck; are Windows jobs exact; is an update safe? | `Metering`, `JobHandles`, `SelfUpdate`; see below |

`streams`, `decisions` and `services` each check several modules that share no
variable: a behaviour is one of a single part, and the others' variables keep
their initial values, so a run explores the sum of the state spaces. The `MC`
modules extend the modules whose properties are proved as well, so that theorem
and run share one definition, and instantiate the others, whose properties they
then state for the behaviours of that part. Every part's fairness is the one its
module states.
A property of such a run may be the conjunction of several of its module, which
section 2 names.

`EventStream`: a ring of one, three events and one kill: one event lags the
ring, one is torn and one fuses with it. `OutputCapture`: a pass of two bytes
and one line, rotation at two bytes, lines of at most two bytes, and four
instances within which TLC varies everything: two Runs of two bytes; two Runs
with a kill and an adoption; three bytes in one Run, which is a backlog of two
passes and a rotation; a pause with a follower. `ProcessHandles`: two pids and
four instances: two reopenings, a kill, a stuck agent, an unreadable start time
and a recycled pid; a pause, a stop and a member of the group; two agents with
two writes to stdin; a stop with members, a stuck agent and an unreadable start
time. `PollCorroboration`: three handles, streaks of three and an immunity of
two ticks, so that a pair can err while a third flaps. `Budget`: two rows, two
Runs and one change, or one failed read, among three configurations, one of each action, with both
dimensions armed, one half-configured and one with a ceiling at `I64MAX`.
`AgentHome`: five histories with at most two registrations, two config writes
of eight keys that collide in every way, two failures and a kill, over three
adapters; one history has two processes. `JobHandles`: two pids and five
histories of at most two agents, with a kill, a reopening, a stuck process, a
recycled pid, processes started before and after the assignment, and an adoption
or a call of a stop that fails.
`AdapterContract`: six manifests (sound, unparsable, of another major, of none,
without a launch, rendering outside the home) and two native kinds, two edits,
one setting, one registration after a removal and one failure. `Conformance`:
nine subjects, each with no defect or one of fifteen, and two troubles, so that
one step can be slow after an agent has exited. `Kt`: four adapters, every
command with every argument and with a malformed name, one after another as
often as one likes, one fault and one kill (`CommandsAreHonest` is for any number). `Fleet`: two instances, one of which
meters twice, changes its configuration once and fails twice, which is what a
launch failure after a crash needs; with and without a Rate; sums saturate at 3;
seven sets of failing reads, of one instance as the two are alike. `Relay`: two
calls, five kinds of request and every kind of answer. `SelfUpdate`: two commands
and three releases, an interval of two ticks in three, and five histories that
each combine what can meet: an overlap with a failure and a kill, a release
republished during a download, a clock set back, two checks with a failure or a
kill between them.

Kill points. `watch`, `seed` and `settled` are left out of the passing runs:
killed there, the engine really breaks `NoOrphan` and `NoPhantomRow`, which are
findings 2 and 3 below. All other points are in.

Faults are combined as far as the code survives them. With `append`, a stop can
end after its row is `stopping` and before its process is killed, and the row
stays there; detached handles then survive their session under a row that no
command accepts but `remove`, so `NoOrphan` is checked with `append` for
attached agents, whose handles kill on drop. With a stuck or failed stop,
`remove` deletes the `stopping` row and leaves the process, so removal is
checked without those faults.

`MaxPlans` bounds how many backoffs of one attempt are in flight when the
operator starts an instance. With one, fewer than `MaxFailures` automatic
restarts follow a start. With two, a stale timer restarts with its own smaller
attempt, `start_inner` writes that attempt to the record, and the streak begins
again: TLC finds `MaxFailures` and more. `supervisor_faults` and
`claim_stale_restart` use two.

`Metering` has three events because a park of two then overflows, a block can
hold a committed, a failed and an unattempted event, and a skipped front has
two behind it; two Runs, because what one leaves behind can only meet the
next. The cap is 2 in place of 1024, the attempts are the source's 3.

Fairness (`FairSpec` of `Supervisor`): an operation that holds the mutexes runs
to its end; a session that ended is followed by another; the reaper and the
timers wait on mutexes that are released again and again, hence strong fairness.
No process is obliged to exit, and no operator to act. In `Metering` the reaper
ticks and operations end, by weak fairness of the engine's steps taken together;
commits need never succeed. In `EventStream` a commit point that has appended
goes on to publish, and the Host keeps calling. In `OutputCapture` each tailer
thread, the mirroring of a transition and the follower go on when they can: the
lock is held for a bounded pass only. In `ProcessHandles` the reaper ticks and
every call that has begun returns, as its waits are bounded, except the `wait`
in `Drop`, which goes on only once the child is a zombie. In `JobHandles` a stop
under way moves on, its waits being bounded. Nothing is assumed to be fair in
the parts that have no liveness property.

### Where the code and its documentation part

| Run | What the run shows |
|---|---|
| `claim_stale_restart` | `Supervisor::restart` and `spawn_reaper` call a restart of an instance "stopped meanwhile" a harmless no-op. The transition table accepts `start` from `stopped`, and no timer is cancelled: crash, start by the operator, stop by the operator, and the backoff starts it again. |
| `claim_no_phantom` | An engine killed after `settle_terminal_record` and before the commit of `failed` leaves a `running` row beside a pid-0 seed, which `adopt_orphans` skips in every later session (`docs/architecture.md:138`: "never left as a phantom `running` row"). |
| `claim_no_orphan` | An engine killed within the readiness window, between `spawn` and the commit of the spawn record, leaves a live process that no record names (`docs/architecture.md:138`: "no spawn without its record committed first"). |
| `claim_policy_kept` | `set_restart_policy` "persists the policy so a subsequent `start` reads it", in the spawn record; `stop` deletes the record and the policy with it. |
| `claim_completions_land` | A completion the proxy parses after the observed drain of a stop, while the process is given its graceful window, is dropped with the listener's queue (`stop_inner`: "must land, not be lost"). |
| `claim_registration_freezes` | `docs/manifest.md:91`: an edited manifest "has no effect on an already-registered instance". The launch is snapshotted, the config mapping is read from the file at every start. |

In `Metering`, besides the silent places above: a skip announces as "not
counted" every event of the block behind the last failure, among them events
an earlier pass has counted; a terminal drain before a kill announces as lost
what the rescue drain may still count; and after an observed skip the next
front starts with one attempt it has not made.

The other modules keep, as definitions no run checks, ten sentences of the
documentation that their behaviours refute. Adding one to the invariants or
properties of a configuration of its module shows the counterexample.

| Definition | What is said, and what happens |
|---|---|
| `AgentHome!ReservedIsEngineDelivered` | `docs/commands.md:359`: `metering.base_url` and `memory.dir` "can only ever be delivered by the engine itself". A start strips a hand-set `memory.dir` (`domain/supervisor.rs:1102`, `:1203`) and never a hand-set `metering.base_url`, which reaches a self-reporting agent. |
| `AgentHome!SetNeverClobbers` | `domain/registry.rs`, at `set_dotted`: a write "must never clobber its own existing value". `set agent.a` drops the table `agent.a.*`. |
| `AgentHome!RetainedIsKept` | `docs/commands.md:215`: `--retain` keeps the Agent Home. A failed registration of the same name later removes it, memory and all. |
| `AgentHome!DetachedIsNotDelivered` | A native file that no leaf goes into any more is not rewritten, and still names the detached directory. |
| `Budget!CostIsUpperBound` | `store/sqlite.rs:524-530`: the sum of rounded rows never under-counts. Rows are rounded to the nearest micro-dollar, half upwards, and so may each fall short. |
| `Budget!BreachAlwaysRecorded` | `domain/supervisor.rs:4217`: a breach is always recorded. Evaluation answers per-run first, so the cumulative ceiling reached in the same Run has no record. |
| `JobHandles!UnrecordedIsGone` | `domain/supervisor.rs:3273`, in `reconcile_orphan_failed`: the stale record is cleared "either way (its process is gone)". An adoption that cannot read the process ends there too, and a detached agent runs on without a record. |
| `OutputCapture!FoldedBeforeStopped` | `domain/supervisor.rs:1747`: the terminal line stands behind all of the agent's output. A pass is bounded, and a backlog of more than one is folded after it, by the tailer. |
| `OutputCapture!NeverErrorsDueToRotation` | `docs/commands.md:193`: `logs` never errors due to rotation. A cursor into the old generation may fall inside a line of the new one, and the read fails. |
| `ProcessHandles!OnlyOwnGroupSignalled` | `backends/unix/mod.rs:411-414`: the window in which a sweep hits a recycled group "is fully closed by the pid + start-time fingerprint". No fingerprint is read between the reaping of the leader and the signal. |

Smaller ones, seen in the models: `domain/bus.rs:52` says the durable logs stay
complete whatever the bus drops, which a torn append makes untrue; raising a
ceiling after a breach fires nothing more in that Run; an adopted handle has no
tailer, though `docs/commands.md:195` says that following works; the final drain
of a follower stops at the first poll that brings anything; a line longer than
`MAX_TAIL_BYTES_PER_PASS` stalls its stream; the last pass of an old tailer may
overlap a new capture and attribute lines twice; the documentation of
`reap_if_exited` says an unreadable start time means exited, and the code takes
it for alive; SIGTERM does not reach a suspended group, so a stop after a pause
always ends in SIGKILL; and `wait` in `Drop` has no bound for a stuck child.

In the other modules: `engine.rs:838` and `domain/supervisor.rs:1570` say that no
process of the instance survives a stop, and a graceful Windows stop of a
detached agent, or any of an adopted one, leaves what the agent started.
`engine.rs:916-926` gives a launch error as what the event log's fallback is for,
and after a crash whose restart fails to launch the Fleet view still shows the
crash's cause, from its record. `domain/fleet.rs:441-500`: dollars are not called
partial for usage committed before its instance had a Rate, which costs nothing.
`fleet_entry_for` reads the configuration twice, so a row whose first read fails
shows the default action and no cap beside its real token ceilings; a failed
token read shows a full ceiling. After `StopUnconfirmed`, `kt` says that the stop
will succeed once the process has exited (`crates/kt/src/cli/agent.rs`, near
2490): the next command adopts the process without the flag and refuses the stop,
and the row stays `stopping`. `docs/commands.md:365` lists the exit codes of
every command; on a closed stdout all but `logs` panic with 101. A failed
registration deletes a home that `remove --retain` kept.
`crates/ktesio-conformance/src/uj3.rs:420-432`: the persistent
failure of one stop "is noted to stderr and the loop CONTINUES";
`stop_resilient`, which it calls, panics.

Behaviours of `Supervisor` of the same kind that TLC shows and no run keeps: a
planned restart that fails is never planned again, so an instance may rest in
`failed` below the threshold (`engine.rs:309`, `let _ =`); a failed append or
signal leaves a row `stopping` that `stop` refuses; `remove` deletes a
`starting` or `stopping` row without stopping its process; an engine killed
between the spawn record and `running` leaves a row `starting` whose adopted
process no command but `remove` reaches; "a clean run resets the count" is true
of an operator's start only; and a plan survives a removal, so a new instance of
the same name can be started by it.

## 4. Theorems

### Supervisor

`SupervisorProofs` proves, for every set of instances, fingerprints, commands,
faults and kill points (from the assumptions stated beside the constants):

| Theorem | Property | Beyond the constants' assumptions |
|---|---|---|
| `TypeCorrect` | `TypeOK` | none |
| `OperationOwnsRow` | `OpMatchesRow`, which no run lists | none |
| `LifecycleFollowed` | `RowFollowsLifecycle` | none |
| `HandlesRecorded` | `HandleIsRecorded` | event appends succeed |
| `NoPhantom` | `NoPhantomRow` | event appends succeed, no kill at `seed` or `settled` |
| `Supervision` | `NoOrphan` | `Supervisable`, below |
| `AtMostOneProcess` | `OneProcess` | `Supervisable` |
| `CrashLoopStops` | `CrashLoopBounded` | the operator starts no instance whose backoff is in flight |
| `CrashLoopStopsInRuns` | `CrashLoopBounded` | `MaxPlans <= 1`, the bound of a run |
| `PausesAreReal` | `PauseIsReal` | appends and signals succeed, no kill at `signal` |
| `PromiseKept` | `ImplementsPromise` | `Supervisable`, appends and record writes succeed |

Every hypothesis excludes a behaviour the code does have, and a theorem without
it would be false. The runs that check these properties satisfy the hypotheses,
so each theorem says of every size what its run says of one.

The first part argues in three layers. `ControlOK` (`LaunchKnowsPid`, `OpMatchesRow`,
and that an ended session has no operation) is inductive on its own: the
mutexes let only the operation in flight move its row, and an engine kill drops
the operation. Every edge of the lifecycle then follows action by action,
because each row-moving action knows from `ControlOK` which state it leaves.
`RecordOK` adds the record: a handle under a live row is recorded
(`HandleIsRecorded`); a launch at `ready` has written the record
`become_running` relies on (`ReadyIsRecorded`); and while a crash is being
settled, when the record is already gone, the handle is gone as well
(`LostHandleIsGone`). It needs appends to succeed: a failed append at a start
leaves the old handle in the table under a row that a later start takes back to
`running`. `RowOK` adds what survives without a handle: between sessions a live
row still has a record (`LiveRowIsRecorded`), which is exactly what a kill at
`seed` or `settled` breaks, and within a session it has a handle unless an
operation has just taken it (`LiveRowIsHeld`). Finding 2 is thus the one
exception the proof needs.

The second part reasons from the processes. Its invariant `Owns` says of each
live process that the table or the launch in flight has it while a session is
up (`LiveIsLocated`), that its instance's record names it unless its launch is
still inside the readiness window (`LiveIsRecorded`), that its row is not one
that rests (`RestingRowIsDead`), and that an operation on its instance is one
that is about to use or kill that very process (`OpIsAlone`). `NoOrphan` is the
first two, `OneProcess` follows because two live processes would both be the one
the record names, but neither is inductive: a crash drops the handle, and only
the third and fourth parts say that its process is dead by then or was just
killed. `Supervisable` names what the code does not survive:

- `ReadableProcesses`: the tenth unreadable poll gives a handle up and an
  adoption that cannot read a start time skips the row, each time with a process
  that may be alive;
- `DetachedLaunchesLand`: a launch whose append or record write fails tears its
  process down, but the drop of a detached handle kills nothing, so if the stop
  cannot be confirmed either, or the append fails, the process stays;
- `NoKillBeforeRecord`: finding 3, a kill inside the readiness window, which
  only a Job Object and attached agents survive;
- `RemovesSettledRows`: `remove` deletes a `starting` or `stopping` row without
  stopping its process, so nothing may leave such a row with one.

The crash loop follows the attempt number. The count goes from the record to the
plan, from the plan to the launch and from the launch into the record again, and
`LoopOK` says at each of these stations how the number relates to `autos`, the
restarts there really were: below a planned attempt (`PlanIsAhead`), at most the
attempt of a launch or the count of a live row's record (`LaunchIsCounted`,
`ReadyIsCounted`, `RecordIsCounted`). A plan is only made below `MaxFailures`, so
`autos` stays below it. It holds with every fault and every kill point, because a
lost count loses the plan with it. The one thing it needs is that there is a
single plan (`OnePlan`): `start` does not look at the timers, and with a second
timer in flight the bound is false, as the paragraph on `MaxPlans` tells.

The part on the pause shows why it stays real over a crash, a restart or an
adoption: whatever refers to a live process is of its own instance
(`ReferencesAreOwn`, which needs that a fingerprint in use is not taken again), a
launch's process is not stopped (`LaunchRuns`), and the process a live row's
record names is stopped exactly if the row is `paused`, save while the signal is
under way (`PausedIsFrozen`). The row is committed before the signal, so a failed
append, a refused signal and a kill between the two are excluded.

The refinement maps the row and the presence of a live process to
`AgentInstance` and shows, action by action, that each instance sees one of five
moves or nothing. It rests on `Owns`, which says that a row that comes to rest
has no process left, and on the freshness of a launch's fingerprint
(`LaunchIsFresh`), without which dropping the old handle could kill the new
process. A failed append or record write is excluded because it ends a launch by
killing its process and moving its row in one step of the model, which are two
of the promise.

### Metering

`MeteringProofs` proves, for every number of events and Runs, every cap and number of attempts, every combination of faults, and with or
without breaches that stop:

| Theorem | Property | Beyond the constants' assumptions |
|---|---|---|
| `Metered` | `TypeOK`, and the marks' invariant | none |
| `NothingCountedTwice` | `CountedOnce` | none |
| `EveryEventAccounted` | `Accounted` | none |
| `SkipsStayInOrder` | `SkipsInOrder` | none |

The assumptions ask only that a commit is tried more than once before it is
given up (`USAGE_PARK_MAX_ATTEMPTS` is 3) and that the caps are numbers.

The first part follows the marks: the cursor into the log, the number of
completions taken off the queue, the park, and the same of a launch under way and
of a drain that a stop has interrupted. The unique key makes a second row of one
Run impossible whatever is drained again; what it cannot prevent is a row of the
*next* Run for an event of the last. `LedgerOK` says why there is none: what a
mark leaves open (`Open`, `OpenPass`) is disjoint from all that earlier Runs have
counted (`HandleFits`, `PassFits`), because a Run begins with its marks at the
end of what was emitted, and only what was emitted is ever counted
(`CountedIsEmitted`). A drain moves every mark forward; an interrupted drain
whose older cursor is written back is still one of the same Run.

The account shows first where the events are that no row has. `AccountOK`
adds to `Accounted` what each way of dropping a handle needs: that a stop's
drains, once the process is gone, have settled all that was emitted before them
(`SeenIsSettled`); that a cursor inside a line belongs to a line already lost
(`MarksAreClean`), so that the second half of a line is never mistaken for a
new one; and, for the interrupted drain, that all it jumps over when it writes its
cursor back is settled by then, by itself or by the nested stop
(`OuterIsCovered`). For the order, `OrderOK` says that a park is ascending and
lies below the queue's mark (`ParkIsAscending`) and that what was given up lies
behind every mark (`SkippedIsPassed`). A pass then commits a prefix of an
ascending sequence that starts at the oldest open event, and by the account
whatever precedes it is settled. Both parts except a Run that was interrupted,
as the properties do: while a pass is interrupted (`OuterIsInterrupted`), the
nested stop drains newer events than those the pass still holds, and the pass
writes its older marks back over what was given up meanwhile.

### PollCorroboration and AdapterContract

`DecisionProofs` proves, for every finite set of handles and all thresholds, and
for every set of manifests and bounds:

| Theorem | Property | Beyond the constants' assumptions |
|---|---|---|
| `BrokenNoticed` | `BrokenIsNoticed` | none |
| `OutageSpares` | `OutageIsNoCrash` | none |
| `StartsAreHonest` | `StartIsHonest` | `ContractConstants`: the contract major is a version |

The bound on a broken handle is a potential argument: the invariant says that
its consecutive errors are at most its streak times (immunity + 1) plus the
environmental ticks under way. An environmental tick pays from the second term,
any other from the first, and the second is at most the immunity. For the
outage, each step of a streak is backed by one error that was earned, alone or
beyond the immunity.

That an agent runs only the engine's own contract major rests on where the
check is made: at registration, not at a start. `ContractInv` therefore says of
the snapshot that if it carries a launch it passed the check
(`SnapshotIsNegotiated`), while one from before launches were kept falls back to
the file, which is checked then. That nothing is silent is a property of one
start, but its parts are computed at different steps from a file that may be
edited between them; the invariant (`StartTells`) says that a start that has
reached its spawn has told what *it* took, whatever the file says by now. The
lemmas below it are about the delivery: what `Overlay` (one table laid over another)
keeps, and that the managed directory reaches the agent unless it is displaced.

### Budget

`BudgetProofs` proves, for any ceilings, Rates and reported counts up to `U64MAX`,
and any number of rows, Runs, changes and kills:

| Theorem | Property | Beyond the constants' assumptions |
|---|---|---|
| `GuardrailsHold` | `GuardrailHolds` | none (`BudgetConstants`: widths, bounds, ceilings and prices are numbers, the column for a row is narrower than a reported count, an action is one of three) |

The theorem is about totals of ledgers of any length, and what a sum is takes an
induction. The library's induction theorem takes a predicate as its parameter,
which these provers cannot instantiate; its theorem on well-founded orders takes
sets, and the numbers are well-founded under `<`. From it follows `Induction`
(a set that has zero and with a number its successor has all numbers), then that
the function `Sum` chooses exists (`AddsExist`), and then what a total
becomes by one more row, for any bound (`TotalGrows`) and without one (`TotalsGrow`),
which is all that the invariant needs.

`BooksOK` is about the totals. A count goes into its row clamped at `I64MAX`, and
the sum saturates at `U64MAX`, so a total may fall short of what was really
consumed. `TokensCovered` says that it never does below `I64MAX`, the highest
ceiling a crossing is claimed for: a row that was clamped is alone at that
height. `CostIsClose` is inductive because a row's two directions are each
rounded by at most half a micro-dollar (`DirectionIsClose`), and a clamped or
saturated cost leaves the total at `I64MAX` for good (`CostStep`).

`LatchOK` and `ReactionOK` are about the stack of frames. What is noted of this Run
is latched (`NotedIsLatched`), which is why nothing is recorded twice although the
drains of an enforced stop breach the same ceiling again. What is about to act was
noted (`CauseIsNoted`): the record is written before the action's frame is
pushed. And at any moment, inside a nested stop too, a dimension at a ceiling is
latched or its evaluation is still on the stack, unless a read of the last
enforcement failed (`CrossingIsSeen`), and a noted
breach of an agent that runs has its action still on the stack (`ActionComes`);
the properties are what is left of these once the stack is empty. A kill drops
the stack, and it is the new Run of an adoption that makes this sound: its
latch is empty, and both evaluations are pushed with it or the configuration could
not be read, which `evaluated` says.

### EventStream and Relay

`StreamProofs` proves, for any capacity of the bus and any number of events and
of kills, and for any number of calls, requests and counts:

| Theorem | Property | Beyond the constants' assumptions |
|---|---|---|
| `StreamIsCommitted` | `StreamIsTrue` | none (`EventStreamConstants`: numbers, a bus that holds something) |
| `TearsAreTold` | `TearIsTold` | none |
| `RelayingIsHonest` | `RelayIsHonest` | none (`RelayConstants`: requests are records of what is told apart, a count is not zero) |

That the Host lacks nothing is about events it will never be sent again, so
`StreamInv` has to say what its cursors mean: whatever record stands before a
cursor is in its view (`CursorCovers`). A cursor may be one past the terminated
lines, while a record without its newline stands there, and the delicate
case is that this record becomes a fragment and the next append fuses with it:
the cursor then stands past a line no reader takes, never past a record the Host
has not seen. `EveryEventLeftATrace` says that each event ever begun is a record,
a torn tail or a ruined line of some file, from which it follows that a resync
that says nothing has found everything. `NoGapYet` is stronger than
`NoSilentGap`: it also holds for a Host that lags, of all that is behind its
receiver.

For the listener, `EntriesAreOfCalls` says which call an entry of the queue, or
of what was taken from it, is of and which response it was read off, and
`SkimmedIsCharged` the converse: from the skim on, a call with a count has its
entry. A call moves through its stages in one lemma (`CallMoves`) but for the
skim, which makes an entry. What is counted, the last usable frame, is what the
property asks for, the frame no usable one comes after (`UsageIsFinal`). That no
provider refuses an option the agent did not set follows from where the option is
injected: into chat completions only, which is where providers take it.

### AgentHome

`HomeProofs` proves, for any keys, adapters and bounds, and any number of engine
processes where the property does not say otherwise:

| Theorem | Property | Beyond the constants' assumptions |
|---|---|---|
| `HomesAreInOrder` | `HomeInv`, which no run lists | none (`HomeConstants`: keys are sequences of segments) |
| `RegisteredIsUsable` | `RegisteredMeansUsable` | none |
| `LaunchesAreHonest` | `LaunchIsHonest` | none |
| `NothingGetsLost` | `NothingIsLost` | none |

Half of `HomeInv` holds with any number of processes: the layer on disk has only
plain values and references, the snapshot only plain values and masks, and the
reserved key has, in all that is delivered, the engine's value or none
(`HomeOK`, `CommandOK`, `AgentOK`). It follows the values from the file into a
process's own variables and into the agent. The other half is for one process
(`Alone`): what an operation has read and not yet written back still agrees
with the disk. `WriteAlone` is the one that two processes break, and the reason
why `NothingIsLost` claims siblings for one. `UsableAlone` says what each step of
a registration and of its rollback has and has not done yet, so that a home that
cannot be read never stands under a row, unless a kill or a failed rollback
(`spoiled`) left it so.

### ProcessHandles and JobHandles

`HandleProofs` and `ServiceProofs` prove, for any set of pids, any number of engines,
strangers and faults:

| Theorem | Property | Beyond the constants' assumptions |
|---|---|---|
| `HandlesNameTheirAgent` | `HandleInv`, which no run lists | none |
| `GoneAgentsAreGone` | `GoneIsGone`, on Unix | none |
| `InputIsNeverTorn` | `NoTornInput` | none |
| `EndSparesTheDetached` | `ExitSparesDetachedOnly`, on Unix | none |
| `JobsAreKept` | `JobInv`, which no run lists | none |
| `JobsAreExact` | `JobIsExact` | none |

On Unix nothing protects a pid. `HandleInv` says that the pair of pid and start
time of a handle, and of a record, names at most one agent, which is at that pid
(`HandleNamesAgent`, `RecordNamesAgent`), because start times are never
given twice (`StartTimesAreCounted`); a pid alone names anybody. A stop is
several calls with other processes' steps between them, and `StepsRelyOnLooks`
says what the next may rely on: that the last look still holds of *this* agent
even if the pid is a stranger's by now. For the pipe, `HeldPipeIsWhole` says that as
long as the engine would still write to it nothing was cut off, which is why a
timed-out writer has to close it for good.

On Windows an open handle does protect the pid (`HandleHolds`), so the same
conclusion has another reason, and the invariant is about the job instead: an
attached agent's job is held by the engine alone (`KillJobIsHeld`), a detached
agent that was recorded is still the one of the record unless an adoption could
not read it (`DetachedIsRecorded`), and after a terminated job nothing is left that could
start more in it (`TerminatedIsOver`). The proof found an ambiguity in the model:
the arms of a `CASE` of the termination overlapped, and TLC took the first. They
are an `IF` now, in the order of the code.

### SelfUpdate

`ServiceProofs` also proves, for any number of commands, releases and failures:

| Theorem | Property | Beyond the constants' assumptions |
|---|---|---|
| `UpdatesAreSafe` | `UpdateIsSafe` | none (`SelfUpdateConstants`: releases are numbered from 1, an interval is not empty) |

`ExeIsWhole` needs that the file a command renames is complete and its own
(`TempIsItsOwn`): each command writes under a name no other uses, and the
checksum compared it with the archive of the release it looked up, which is at
most the latest (`TagsAreReleased`). That a notice lags less than an interval is a
chain of inequalities over the history of releases (`since`): an answer is as
new as the time it bears, a cache bears the time of its check, and a command
told from a fresh cache is told of a time less than an interval ago (`Horizon`).
All of it holds while the clock is not set back.

### Kt

`DecisionProofs` also proves, for any adapters, any number of commands one after
another, of faults and of kills:

| Theorem | Property | Beyond the constants' assumptions |
|---|---|---|
| `CommandsAreHonest` | `CommandIsHonest` | none (`KtConstants`: bounds are numbers, adapters declare the two levels and the two flags) |

A refusal is a list of checks, and its code is that of the first one that holds
(`FirstHit`). So each command has one lemma about its list: each entry's error
has the code its condition deserves, the name comes first and the instance next
(`NamedRefusal`); and if no entry holds, the call is made in a state that
`InOrder` describes. From there each outcome of the call is `Fine`: what it
leaves is sound, an answer without an error has achieved what was asked, and an
error has a code of its own failure. That a call is made in such a state at all
is the invariant's part. `ProcessIsKnown` says that a live process has its record
and a row that can have one, and that only a removal in `starting` or `stopping`
takes them from under it. `SessionHolds` says that an open session holds
what lives as its record says, which is why a drop kills every attached agent:
its own or adopted from one that was killed. `SuspendedByGuarantee` is what makes a `resume` true: a
best-effort pause never stopped the process, so nothing has to be continued.

### Model-checked only

- Liveness (`CrashIsNoticed`, `UnconfirmedStopHeals`, `Converges`, `LogMovesOn`,
  `DeathIsNoticed`, `WaitsEnd`): fairness and `ENABLED` are out of the
  prover's reach.
- `FleetIsHonest` of `Fleet`: it sums over sets of rows with the library's folds,
  which take an operator, and no prover here can instantiate what is known of
  those. `Budget` shows the way around: sums that are recursive functions.
- `LogIsExact` of `OutputCapture`: an output is cut into lines with an operator on
  sequences that is defined by recursion (`SetToSortSeq`).
- `VerdictIsHonest` of `Conformance`: a case table over a fixed suite and a
  fixed set of subjects, which TLC covers whole.
- `TypesOK` of the runs of several modules: the parts of `EventStream`, `Relay`,
  `ProcessHandles`, `JobHandles` and `SelfUpdate` are proved with the invariants above, the others
  are checked.

## 5. What is left

1. Proofs: `VerdictIsHonest` of `Conformance`, for any subject that keeps the
   port's contract rather than the nine of the run.
2. Compositions: `Metering` with `Budget`, so that a breach's stop inside a
   drain and the latch are one model; `Supervisor` over `ProcessHandles` and
   `JobHandles`, which would replace its atomic backend calls; `Kt` over
   `Supervisor`.
3. Two engine processes that supervise over one state directory. `AgentHome` has
   two for files and rows; for processes, each would adopt the other's agents.
   Two `kt` commands at once are the same case.
4. The backoff arithmetic and the parsing of dollar amounts against reference
   definitions.

## 6. Not modelled, and why

- Formatting, logging and rendering; the parsing of manifests, configuration
  values and the JSON of usage objects, of which the models keep the verdict.
- The wire level of the proxy: headers and connection reuse.
- The benchmarks, the fake agent and the test support of the conformance crate.
- Time itself: windows, intervals and backoffs elapse at any moment, which
  includes every real schedule.
- A reboot that loses the last transaction of SQLite; corruption of the
  database; an agent log that shrinks or cannot be read; a disk that fills up
  under `output.log`, whose appends are best effort.
- An engine-observed agent that also prints usage lines, whose numbers would
  share the ledger's key with the minted ones.
