------------------------------- MODULE Metering -------------------------------
(***************************************************************************)
(* How the usage of one Agent Instance reaches the Usage Ledger: from the  *)
(* lines a self-reported agent appends to its log, or from the completions *)
(* the loopback listener of an engine-observed one queues, through the     *)
(* drains of the reaper, of a stop and of a crash, to the one writer of    *)
(* usage_events.                                                           *)
(*                                                                         *)
(* Events are numbered in the order the agent emits them, over all Runs.   *)
(* The log is a number of pieces, three for a usage line: its first part,  *)
(* the rest, and the newline.  A piece stands for any bytes that do not    *)
(* end a line, so that a drain may find a line half written, and a line    *)
(* parses only if the drained block holds both of its parts.               *)
(***************************************************************************)
EXTENDS Integers, Sequences, FiniteSets, Functions

CONSTANTS
    Sources,       \* the metering sources this configuration considers
    MaxUsage,      \* bound: usage events the agent emits
    MaxRuns,       \* bound: Runs
    USAGE_PARK_MAX_ATTEMPTS,
    OBSERVED_PARK_MAX_EVENTS,
    Faults,        \* the failures of the host this configuration has
    BreachStops,   \* a committed event may breach a budget whose action is stop
    None           \* no handle; no interrupted drain

(***************************************************************************)
(* store: a commit to the ledger fails.  stuck: a SIGKILL is not confirmed *)
(* in time.  control: the backend cannot stop the process.  poll: it can   *)
(* no longer be polled.  crash: the engine is killed and opened again.     *)
(***************************************************************************)
FaultKinds == {"store", "stuck", "control", "poll", "crash"}

ASSUME MeteringAssumption ==
    /\ Sources \subseteq {"self-reported", "engine-observed"}
    /\ MaxUsage \in Nat /\ MaxRuns \in Nat
    /\ USAGE_PARK_MAX_ATTEMPTS \in Nat \ {0, 1}
    /\ OBSERVED_PARK_MAX_EVENTS \in Nat
    /\ Faults \subseteq FaultKinds
    /\ BreachStops \in BOOLEAN

VARIABLES
    source,       \* the metering source of the instance
    run,          \* the current Run; 0 before the first
    alive,        \* the agent process lives
    listening,    \* its model traffic passes a listener of this engine
    log,          \* pieces in agent.log
    completed,    \* completions the listener has ever queued
    stopping,     \* the row says stopping
    handle,       \* the entry in Supervisor.running, with its Run context
    op,           \* the operation that holds the locks
    ledger,       \* usage_events: how many rows it has of a Run and an event
    produced,     \* history: the events the agent finished emitting
    skipped,      \* history: announced as not counted, in mid-run
    lost,         \* history: announced as lost, by a terminal drain
    silent,       \* history: dropped with no announcement
    interrupted   \* history: the Runs a Breach Action stopped inside a drain

agent   == <<alive, listening, log, completed, produced>>
told    == <<skipped, lost>>
history == <<told, silent, interrupted>>
vars    == <<source, run, agent, stopping, handle, op, ledger, history>>

-----------------------------------------------------------------------------
Events == 0 .. MaxUsage - 1
Runs   == 1 .. MaxRuns
Modes  == {"MidRun", "Terminal"}

Observed == source = "engine-observed"

\* The numbers a, ..., b - 1 in order.
Upto(a, b) == [i \in 1 .. b - a |-> a + i - 1]

Skip(s, n) == SubSeq(s, n + 1, Len(s))

\* The lines of the first n pieces that hold both of their parts.
WholeLines(n) == (n + 1) \div 3

\* The first line that begins at piece n or later.
LineFrom(n) == (n + 2) \div 3

\* One drain: the events it tries to commit, its mode, the cursor it read
\* the log from and the one it would leave behind.
Pass == [events : Seq(Events), mode : Modes, from : Nat, to : Nat]

Supervised ==
    [usage_cursor : Nat,
     parked : [at : Nat, attempts : Nat],       \* usage_park_attempts
     observed_park : Seq(Events), park_attempts : Nat,
     minted : Nat,                               \* completions taken off the queue
     breached : BOOLEAN, stop_unconfirmed : BOOLEAN,
     seen : Nat]      \* history: events emitted when a stop last drained

ASSUME NoneAssumption == None \notin Supervised /\ None \notin Pass

NoPark == [at |-> 0, attempts |-> 0]

NewHandle(cursor, minted) ==
    [usage_cursor |-> cursor, parked |-> NoPark, observed_park |-> <<>>,
     park_attempts |-> 0, minted |-> minted, breached |-> FALSE,
     stop_unconfirmed |-> FALSE, seen |-> MaxUsage]

Steps == {"idle", "watch", "poll", "reap", "stop", "kill", "rescue",
          "release", "abandon", "resume"}

Idle == [at |-> "idle", outer |-> None, next |-> "idle", context |-> None]
At(step) == [Idle EXCEPT !.at = step]

Goto(step) == [op EXCEPT !.at = step]

\* An enforcement stop returns into the drain that was interrupted.
Return == IF op.outer = None THEN Idle ELSE Goto("resume")

Counted == {e \in Events : \E r \in Runs : ledger[r][e] > 0}

Settled == Counted \cup skipped \cup lost \cup silent

-----------------------------------------------------------------------------
(* The agent.                                                              *)

write ==
    /\ alive /\ ~Observed /\ log < 3 * MaxUsage
    /\ log' = log + 1
    /\ produced' = IF log % 3 = 1 THEN produced \cup {log \div 3} ELSE produced
    /\ UNCHANGED <<source, run, alive, listening, completed, stopping, handle, op,
                   ledger, history>>

\* forward relays a completion and queues its two counts.
complete ==
    /\ alive /\ listening /\ completed < MaxUsage
    /\ completed' = completed + 1
    /\ produced' = produced \cup {completed}
    /\ UNCHANGED <<source, run, alive, listening, log, stopping, handle, op, ledger,
                   history>>

exit ==
    /\ alive
    /\ alive' = FALSE
    /\ UNCHANGED <<source, run, listening, log, completed, produced, stopping, handle,
                   op, ledger, history>>

-----------------------------------------------------------------------------
(* The ledger.                                                             *)

\* UNIQUE(instance_id, run_id, sequence): a repeated event is a replay.
IsFresh(e) == ledger[run][e] = 0

\* Mutant: the index is not unique.
RecordAlways(events) ==
    [ledger EXCEPT ![run] = [e \in Events |->
        ledger[run][e] + Cardinality({i \in DOMAIN events : events[i] = e})]]

Record(events) ==
    [ledger EXCEPT ![run] = [e \in Events |->
        IF e \in Range(events) /\ IsFresh(e) THEN 1 ELSE ledger[run][e]]]

(***************************************************************************)
(* A drain commits event by event and stops at the first failure: n were   *)
(* committed.                                                              *)
(***************************************************************************)
Commit(events, n) ==
    /\ n < Len(events) => "store" \in Faults
    /\ ledger' = Record(SubSeq(events, 1, n))

-----------------------------------------------------------------------------
(* Both drains: what a pass takes, and what it leaves when it is over.     *)

\* Mutant: a drain in mid-run takes a line that is not finished.
PlanEager(cursor, mode) == log

\* Where a pass over the log ends: a live agent's last line may be partial.
plan_drain(cursor, mode) ==
    LET newline == 3 * (log \div 3)
    IN  IF mode = "Terminal" \/ newline < cursor
          THEN IF mode = "Terminal" THEN log ELSE cursor
          ELSE newline

\* Mutant: the new completions go before the parked events.
CollectNewFirst(h, mode) ==
    LET to == plan_drain(h.usage_cursor, mode)
    IN  [mode |-> mode, from |-> h.usage_cursor, to |-> to,
         events |-> IF Observed
                      THEN Upto(h.minted, completed) \o h.observed_park
                      ELSE Upto(LineFrom(h.usage_cursor), WholeLines(to))]

\* drain_observed_for retries the parked events before it mints new ones.
Collect(h, mode) ==
    LET to == plan_drain(h.usage_cursor, mode)
    IN  [mode |-> mode, from |-> h.usage_cursor, to |-> to,
         events |-> IF Observed
                      THEN h.observed_park \o Upto(h.minted, completed)
                      ELSE Upto(LineFrom(h.usage_cursor), WholeLines(to))]

Collected(h, mode) ==
    [h EXCEPT !.minted = IF Observed THEN completed ELSE @,
              !.seen = IF mode = "MidRun" THEN @
                       ELSE IF Observed THEN completed ELSE WholeLines(log)]

AllCommitted(h, p) ==
    IF Observed THEN [h EXCEPT !.observed_park = <<>>, !.park_attempts = 0]
                ELSE [h EXCEPT !.usage_cursor = p.to, !.parked = NoPark]

\* A terminal pass may cut a line in two, which matters if its rest comes.
CutLine(p) ==
    {e \in {p.to \div 3} : ~Observed /\ p.mode = "Terminal" /\ p.to % 3 = 1}

pass_lands(h, p) ==
    /\ handle' = IF h = None THEN None ELSE AllCommitted(h, p)
    /\ silent' = IF h = None THEN silent ELSE silent \cup CutLine(p)
    /\ UNCHANGED told

\* Nothing is retried after a terminal drain, and the loss is announced.
pass_loses(h, rest) ==
    /\ lost' = lost \cup Range(rest)
    /\ handle' = IF h # None /\ Observed
                   THEN [h EXCEPT !.observed_park = <<>>, !.park_attempts = 0]
                   ELSE h
    /\ UNCHANGED <<skipped, silent>>

\* Mutant: the skip is announced and the cursor stays.
SkipInPlace(h, p, rest) ==
    /\ handle' = [h EXCEPT !.parked = NoPark]
    /\ skipped' = skipped \cup Range(rest)

\* The block failed too often at this cursor: it is skipped, and announced.
SkipBlock(h, p, rest) ==
    /\ handle' = AllCommitted(h, p)
    /\ skipped' = skipped \cup Range(rest)

\* Mutant: the park is never given up.
NoSkipYet(h, p) == 1

LogAttempts(h, p) == IF h.parked.at = p.from THEN h.parked.attempts + 1 ELSE 1

park_log(h, p, rest) ==
    LET attempts == LogAttempts(h, p)
    IN  \/ attempts >= USAGE_PARK_MAX_ATTEMPTS /\ SkipBlock(h, p, rest)
        \/ /\ attempts < USAGE_PARK_MAX_ATTEMPTS
           /\ handle' = [h EXCEPT !.parked = [at |-> p.from, attempts |-> attempts]]
           /\ UNCHANGED skipped

\* Mutant: the park is not capped.
Uncapped(rest) == rest

\* The oldest parked events are dropped, and announced, beyond the cap.
cap_observed_park_buffer(rest) ==
    IF Len(rest) <= OBSERVED_PARK_MAX_EVENTS THEN rest
    ELSE Skip(rest, Len(rest) - OBSERVED_PARK_MAX_EVENTS)

\* The queue's counterpart: only the front is skipped, the rest stays parked.
park_observed(h, rest) ==
    LET kept     == cap_observed_park_buffer(rest)
        dropped  == Range(rest) \ Range(kept)
        same     == h.observed_park # <<>> /\ Head(h.observed_park) = Head(kept)
        attempts == IF same THEN h.park_attempts + 1 ELSE 1
        Park(s, n) == [h EXCEPT !.observed_park = s,
                                !.park_attempts = IF s = <<>> THEN 0 ELSE n]
    IN  \/ /\ kept = <<>>
           /\ handle' = Park(<<>>, 0) /\ skipped' = skipped \cup dropped
        \/ /\ kept # <<>> /\ attempts >= USAGE_PARK_MAX_ATTEMPTS
           /\ handle' = Park(Tail(kept), 1)
           /\ skipped' = skipped \cup dropped \cup {Head(kept)}
        \/ /\ kept # <<>> /\ attempts < USAGE_PARK_MAX_ATTEMPTS
           /\ handle' = Park(kept, attempts) /\ skipped' = skipped \cup dropped

\* With the handle gone there is nothing to park in.
pass_parks(h, p, rest) ==
    \/ /\ h = None
       /\ silent' = silent \cup Range(rest)
       /\ UNCHANGED <<handle, told>>
    \/ /\ h # None
       /\ IF Observed THEN park_observed(h, rest) ELSE park_log(h, p, rest)
       /\ UNCHANGED <<lost, silent>>

Finish(h, p, n) ==
    LET rest == Skip(p.events, n)
    IN  \/ rest = <<>> /\ pass_lands(h, p)
        \/ rest # <<>> /\ p.mode = "Terminal" /\ pass_loses(h, rest)
        \/ rest # <<>> /\ p.mode = "MidRun" /\ pass_parks(h, p, rest)

-----------------------------------------------------------------------------
(* The drains, and the stop that a breach takes inside one.                *)

(***************************************************************************)
(* The first j events are committed, the last of them for the first time,  *)
(* and it breaches a budget whose action is stop.  apply_breach fires once *)
(* in a Run; the stop begins inside the drain, refused if one is under way *)
(* except to finish an unconfirmed one.  The drain goes on when it ends.   *)
(***************************************************************************)
breach_stop(h, p, next) ==
    /\ BreachStops /\ ~h.breached
    /\ stopping => h.stop_unconfirmed /\ ~alive
    /\ \E j \in DOMAIN p.events :
         /\ IsFresh(p.events[j])
         /\ ledger' = Record(SubSeq(p.events, 1, j))
         /\ op' = [At(IF stopping THEN "abandon" ELSE "stop") EXCEPT
                      !.next = next, !.outer = [p EXCEPT !.events = Skip(@, j)]]
    /\ handle' = [h EXCEPT !.breached = TRUE]
    /\ stopping' = TRUE
    /\ interrupted' = interrupted \cup {run}
    /\ UNCHANGED <<told, silent>>

drain_for(mode, next) ==
    LET h == Collected(handle, mode)
        p == Collect(handle, mode)
    IN  \/ /\ \E n \in 0 .. Len(p.events) :
                Commit(p.events, n) /\ Finish(h, p, n)
           /\ op' = Goto(next)
           /\ UNCHANGED <<stopping, interrupted>>
        \/ breach_stop(h, p, next)

\* The rest of a drain that was interrupted.
resume_drain ==
    /\ op.at = "resume"
    /\ \E n \in 0 .. Len(op.outer.events) :
         Commit(op.outer.events, n) /\ Finish(handle, op.outer, n)
    /\ op' = At(op.next)
    /\ UNCHANGED <<source, run, agent, stopping, interrupted>>

-----------------------------------------------------------------------------
(* A Run: start, the reaper's ticks, stop, crash.                          *)

\* A part of a line no process will finish is rounded up to a line.
Rounded == 3 * ((log + 2) \div 3)

\* The events from the cursor, in the park or in the queue.
Undrained(h) ==
    {e \in produced : IF Observed THEN e >= h.minted \/ e \in Range(h.observed_park)
                                  ELSE 3 * e >= h.usage_cursor}

\* The cursor is anchored before the process is spawned, the queue is new.
spawn ==
    /\ op = Idle /\ handle = None /\ ~stopping /\ ~alive /\ run < MaxRuns
    /\ run' = run + 1
    /\ alive' = TRUE /\ listening' = Observed
    /\ log' = Rounded
    /\ op' = [At("watch") EXCEPT !.context = NewHandle(Rounded, completed)]
    /\ UNCHANGED <<source, completed, produced, stopping, handle, ledger, history>>

become_running ==
    /\ op.at = "watch" /\ alive
    /\ handle' = op.context
    /\ op' = Idle
    /\ UNCHANGED <<source, run, agent, stopping, ledger, history>>

\* A process that is gone within the readiness window is not drained.
launch_exits ==
    /\ op.at = "watch" /\ ~alive
    /\ silent' = silent \cup Undrained(op.context)
    /\ op' = Idle
    /\ UNCHANGED <<source, run, agent, stopping, handle, ledger, told, interrupted>>

tick ==
    /\ op = Idle /\ handle # None
    /\ drain_for("MidRun", "poll")
    /\ UNCHANGED <<source, run, agent>>

poll_alive ==
    /\ op.at = "poll" /\ (handle = None \/ alive)
    /\ op' = Idle
    /\ UNCHANGED <<source, run, agent, stopping, handle, ledger, history>>

\* An exit, or the last tolerated error of a handle that cannot be polled.
poll_exited ==
    /\ op.at = "poll" /\ handle # None
    /\ ~alive \/ "poll" \in Faults
    /\ drain_for("Terminal", "reap")
    /\ UNCHANGED <<source, run, agent>>

\* What came after the last drain goes with the handle.
Missed == {e \in Undrained(handle) : e >= handle.seen}

\* The crash reaper drops the handle, and finishes an unconfirmed stop.
reap ==
    /\ op.at = "reap"
    /\ IF handle = None THEN UNCHANGED <<handle, alive, stopping, silent>>
       ELSE /\ handle' = None /\ alive' = FALSE
            /\ stopping' = (stopping /\ ~handle.stop_unconfirmed)
            /\ silent' = silent \cup Missed
    /\ op' = Idle
    /\ UNCHANGED <<source, run, listening, log, completed, produced, ledger, told,
                   interrupted>>

begin_stop ==
    /\ op = Idle /\ handle # None /\ ~stopping
    /\ stopping' = TRUE
    /\ op' = At("stop")
    /\ UNCHANGED <<source, run, agent, handle, ledger, history>>

\* The last drains while the process is still there.
drain_before_kill ==
    /\ op.at = "stop"
    /\ drain_for("Terminal", "kill")
    /\ UNCHANGED <<source, run, agent>>

backend_stop ==
    /\ op.at = "kill"
    /\ alive' = FALSE
    /\ op' = Goto("rescue")
    /\ UNCHANGED <<source, run, listening, log, completed, produced, stopping, handle,
                   ledger, history>>

backend_stop_unconfirmed ==
    /\ op.at = "kill" /\ alive /\ "stuck" \in Faults
    /\ handle' = [handle EXCEPT !.stop_unconfirmed = TRUE]
    /\ op' = Return
    /\ UNCHANGED <<source, run, agent, stopping, ledger, history>>

backend_stop_fails ==
    /\ op.at = "kill" /\ "control" \in Faults
    /\ op' = Return
    /\ UNCHANGED <<source, run, agent, stopping, handle, ledger, history>>

\* After the kill the log is drained once more; the queue is not.
rescue_drain ==
    /\ op.at = "rescue"
    /\ IF Observed
         THEN op' = Goto("release") /\ UNCHANGED <<stopping, handle, ledger, history>>
         ELSE drain_for("Terminal", "release")
    /\ UNCHANGED <<source, run, agent>>

Release(missed) ==
    /\ handle' = None
    /\ stopping' = FALSE
    /\ silent' = silent \cup missed
    /\ op' = Return
    /\ UNCHANGED <<source, run, agent, ledger, told, interrupted>>

release == op.at = "release" /\ Release(IF Observed THEN Missed ELSE {})

\* A retried stop of a process that has died since.
stop_retry ==
    /\ op = Idle /\ handle # None
    /\ stopping /\ handle.stop_unconfirmed /\ ~alive
    /\ op' = At("abandon")
    /\ UNCHANGED <<source, run, agent, stopping, handle, ledger, history>>

\* It drops the handle without a drain.
abandon == op.at = "abandon" /\ Release(Undrained(handle))

-----------------------------------------------------------------------------
(* The engine is killed and opened again.                                  *)

Unfinished == {e \in {log \div 3} : ~Observed /\ log % 3 = 1}

(***************************************************************************)
(* What was not drained is skipped: an adopted process has a new Run whose *)
(* cursor is the end of its log, and no listener.  Adoption evaluates the  *)
(* budget of the new Run, which may stop it at once.                       *)
(***************************************************************************)
adopt ==
    /\ "crash" \in Faults /\ op.at # "watch" /\ alive /\ run < MaxRuns
    /\ run' = run + 1
    /\ listening' = FALSE
    /\ silent' = silent \cup (produced \ Settled) \cup Unfinished
    /\ \/ /\ handle' = NewHandle(log, completed) /\ op' = Idle
          /\ UNCHANGED stopping
       \/ /\ BreachStops /\ ~stopping
          /\ handle' = [NewHandle(log, completed) EXCEPT !.breached = TRUE]
          /\ op' = At("stop") /\ stopping' = TRUE
    /\ UNCHANGED <<source, alive, log, completed, produced, ledger, told, interrupted>>

\* No process to adopt: its row, if it said running, says failed.
reopen ==
    /\ "crash" \in Faults /\ op.at # "watch" /\ ~alive
    /\ silent' = silent \cup (produced \ Settled)
    /\ handle' = None /\ op' = Idle
    /\ UNCHANGED <<source, run, agent, stopping, ledger, told, interrupted>>

-----------------------------------------------------------------------------
Init ==
    /\ source \in Sources
    /\ run = 0 /\ log = 0 /\ completed = 0
    /\ alive = FALSE /\ listening = FALSE /\ stopping = FALSE
    /\ handle = None /\ op = Idle
    /\ ledger = [r \in Runs |-> [e \in Events |-> 0]]
    /\ produced = {} /\ skipped = {} /\ lost = {} /\ silent = {}
    /\ interrupted = {}

\* What the engine carries on by itself.
Engine ==
    \/ become_running \/ launch_exits
    \/ tick \/ poll_alive \/ poll_exited \/ reap
    \/ drain_before_kill \/ backend_stop \/ backend_stop_unconfirmed
    \/ backend_stop_fails \/ rescue_drain \/ release \/ abandon \/ resume_drain

Next ==
    \/ write \/ complete \/ exit
    \/ spawn \/ begin_stop \/ stop_retry
    \/ Engine
    \/ adopt \/ reopen

Spec == Init /\ [][Next]_vars

(***************************************************************************)
(* The reaper ticks for as long as the engine is open, and an operation    *)
(* that holds the locks runs to its end.                                   *)
(***************************************************************************)
FairSpec == Spec /\ WF_vars(Engine)

-----------------------------------------------------------------------------
(* Properties.                                                             *)

(***************************************************************************)
(* Types, with the park of the observed channel within its cap.            *)
(***************************************************************************)
TypeOK ==
    /\ source \in {"self-reported", "engine-observed"}
    /\ run \in 0 .. MaxRuns
    /\ {alive, listening, stopping} \subseteq BOOLEAN
    /\ log \in 0 .. 3 * MaxUsage /\ completed \in 0 .. MaxUsage
    /\ handle \in Supervised \cup {None}
    /\ handle # None => Len(handle.observed_park) <= OBSERVED_PARK_MAX_EVENTS
    /\ op \in [at : Steps, outer : Pass \cup {None}, next : Steps,
               context : Supervised \cup {None}]
    /\ ledger \in [Runs -> [Events -> Nat]]
    /\ {produced, skipped, lost, silent} \subseteq SUBSET Events
    /\ interrupted \subseteq Runs

(***************************************************************************)
(* "A re-delivered batch is a no-op": no event has two rows, whatever is   *)
(* retried, re-read after an interrupted drain, or left in the log by the  *)
(* Run or the engine before.                                               *)
(***************************************************************************)
CountedOnce ==
    \A e \in Events, r \in Runs :
        /\ ledger[r][e] <= 1
        /\ \A s \in Runs \ {r} : ledger[r][e] = 0 \/ ledger[s][e] = 0

Pending ==
    UNION {IF handle = None THEN {} ELSE Undrained(handle),
           IF op.context = None THEN {} ELSE Undrained(op.context),
           IF op.outer = None THEN {} ELSE Range(op.outer.events)}

(***************************************************************************)
(* An event the agent has emitted is in the ledger, is announced as not    *)
(* counted, or can still be drained.  The code loses one silently in six   *)
(* places only, which add to silent: the line a drain of a live process    *)
(* cuts; what follows the last drain of an observed instance, or of a      *)
(* handle that cannot be polled; a retried stop; the rest of an            *)
(* interrupted drain whose handle is gone; a launch that fails; and an     *)
(* engine that is killed.                                                  *)
(***************************************************************************)
Accounted == produced \subseteq Settled \cup Pending

(***************************************************************************)
(* "Later events cannot leapfrog the failed one": what precedes a row was  *)
(* counted, given up or lost before it, unless a Breach Action stopped the *)
(* Run inside one of its drains.                                           *)
(***************************************************************************)
NoLeapfrog ==
    \A r \in Runs \ interrupted, c \in Events, e \in produced :
        ledger[r][c] > 0 /\ e < c => e \in Settled

(***************************************************************************)
(* "SKIPPED (not counted)": an uncounted event that a bounded park gave up *)
(* never reaches the ledger, neither by the next pass, a terminal drain,   *)
(* nor a later Run, so that its announcement stays true; again unless a    *)
(* Breach Action stopped the Run inside the drain.                         *)
(***************************************************************************)
SkipIsFinal == run \notin interrupted' => skipped \cap Counted' \subseteq Counted

(***************************************************************************)
(* The order of the ledger as a whole: nothing is counted past an event    *)
(* that failed, and what was given up stays uncounted.                     *)
(***************************************************************************)
SkipsInOrder ==
    /\ []NoLeapfrog
    /\ [][SkipIsFinal]_vars

(***************************************************************************)
(* The park never wedges: a line that has its newline, and any completion, *)
(* is eventually counted or given up, even if no commit ever succeeds.     *)
(* (What is delivered or settled stays so, and the events are finitely     *)
(* many: []<>AllSettled is that each one delivered is settled in the end.) *)
(***************************************************************************)
Delivered(e) == e \in produced /\ (Observed \/ 3 * e + 3 <= log)
AllSettled == \A e \in Events : Delivered(e) => e \in Settled

(***************************************************************************)
(* A claim of stop_inner, refuted: "a completion the proxy parsed just     *)
(* before the stop must land, not be lost when the Supervised (and its     *)
(* listener) is dropped".  One that is parsed after that last drain, while *)
(* the backend waits for the process to go, is still in the queue when the *)
(* handle is dropped with it, and no diagnostic says so.                   *)
(***************************************************************************)
CompletionsLand == [][release => Undrained(handle) = {}]_vars
=============================================================================
