---------------------------- MODULE OutputCapture ----------------------------
(***************************************************************************)
(* What an agent writes and what `kt agent logs` shows of it.  The process *)
(* writes to two raw files the engine never touches; per Run a capture     *)
(* folds whole lines of both into one attributed log, in passes of bounded *)
(* size made by a tailer thread and by every lifecycle transition; the     *)
(* attributed log rotates through three generations, and a reader in       *)
(* another process dumps them and follows the current one by byte cursor.  *)
(*                                                                         *)
(* A raw file is a sequence of bytes, TRUE for a newline.  An attributed   *)
(* line names the bytes it stands for and is as long as they are many.     *)
(***************************************************************************)
EXTENDS Naturals, Sequences, FiniteSets, SequencesExt

CONSTANTS
    MAX_TAIL_BYTES_PER_PASS,
    MAX_TAIL_LINES_PER_PASS,
    LOG_ROTATE_MAX_BYTES,
    MaxLine,     \* bound: bytes of one line
    Bounds       \* bounds: each instance is within one of them

\* bytes: what the agents write over both streams; notes: transitions within
\* a Run; crashes: kills of the engine; readers: whether the log is followed.
OutputBounds == [runs : Nat, bytes : Nat, notes : Nat, crashes : Nat, readers : 0 .. 1]

VARIABLES
    raw,         \* agent.log and agent-stderr.log
    output,      \* every attributed line ever appended
    starts,      \* where each retained generation begins in output
    captures,    \* one LogCapture per Run of this engine process
    run,         \* the Run under way or the last one: an index of captures
    agent,       \* whether a process of the instance is alive
    handle,      \* what Supervisor.running holds of it
    state,       \* the persisted lifecycle state
    mirror,      \* the capture a committed transition has yet to be told to
    follower,    \* one `kt agent logs --follow`
    notes, crashes,
    bound        \* the bounds of this instance

outputVars == <<raw, output, starts, captures, run, agent, handle, state,
                mirror, follower, notes, crashes, bound>>

captureVars == <<raw, run, agent, handle, state, notes, crashes, bound>>

-----------------------------------------------------------------------------
Streams == {"agent-out", "agent-err"}

Nothing == 0

LogLine == [stream : Streams \cup {"engine"}, from : Nat, to : Nat]

\* lock: who is in a pass, and what is next there; from: where in the raw
\* files its Run begins; alone: no tailer of another Run was left then.
LogCapture ==
    [cursors : [Streams -> Nat],
     stop : BOOLEAN,
     tailer : {"sleeping", "looking", "last look", "gone"},
     lock : {"free", "tailer", "engine", "engine line"},
     from : [Streams -> Nat], alone : BOOLEAN]

\* epoch: where the current generation began when the dump did; told: a
\* rotation notice was printed.
Follower ==
    [phase : {"off", "dump .2", "dump .1", "dump", "follow", "check", "drain",
              "done", "failed"},
     cursor : Nat, printed : Seq(Nat), epoch : Nat, told : BOOLEAN]

Generations == 0 .. 2     \* LOG_ROTATE_GENERATIONS: current, .1 and .2

-----------------------------------------------------------------------------
(* The attributed log.                                                     *)

Bytes(first, last) ==
    Cardinality(UNION {{i} \X (output[i].from .. output[i].to) : i \in first .. last})

GenerationEnd(g) == IF g = 0 THEN Len(output) ELSE starts[g - 1] - 1

Current == starts[0] .. Len(output)

should_rotate == Bytes(starts[0], Len(output)) >= LOG_ROTATE_MAX_BYTES

rotate_generations ==
    [g \in Generations |-> IF g = 0 THEN Len(output) + 1 ELSE starts[g - 1]]

append_attributed_lines(lines) ==
    /\ output' = output \o lines
    /\ starts' = IF lines # <<>> /\ should_rotate THEN rotate_generations ELSE starts

-----------------------------------------------------------------------------
(* One pass of a capture.  The lock is held from catch_up to unlock.       *)

Min2(a, b) == IF a < b THEN a ELSE b

\* Mutant: a window that ends inside a line is left for later.
Newlines_whole_window(s, cursor) ==
    LET window == cursor + 1 .. Min2(Len(raw[s]), cursor + MAX_TAIL_BYTES_PER_PASS)
    IN  {i \in window : raw[s][i] /\ \E j \in window : raw[s][j] /\ j + 1 \notin window}

\* The newlines of a window of the raw file, those over the cap left out.
Newlines(s, cursor) ==
    LET window == cursor + 1 .. Min2(Len(raw[s]), cursor + MAX_TAIL_BYTES_PER_PASS)
        ends   == {i \in window : raw[s][i]}
    IN  {i \in ends : Cardinality({j \in ends : j <= i}) <= MAX_TAIL_LINES_PER_PASS}

\* Mutant: the whole window counts as read.
consumable_window(s, cursor) ==
    IF Newlines(s, cursor) = {} THEN cursor
    ELSE Min2(Len(raw[s]), cursor + MAX_TAIL_BYTES_PER_PASS)

\* Mutant: a window that the end of the file cuts short counts in full.
consumable_past_end(s, cursor) ==
    IF Newlines(s, cursor) = {} THEN cursor ELSE cursor + MAX_TAIL_BYTES_PER_PASS

\* The cursor after the pass.
consumable(s, cursor) ==
    IF Newlines(s, cursor) = {} THEN cursor
    ELSE CHOOSE i \in Newlines(s, cursor) : \A j \in Newlines(s, cursor) : j <= i

LinesOf(s, cursor) ==
    LET ends == SetToSortSeq(Newlines(s, cursor), <)
    IN  [i \in DOMAIN ends |->
            [stream |-> s, from |-> (IF i = 1 THEN cursor ELSE ends[i - 1]) + 1,
             to |-> ends[i]]]

\* One stream of a pass.
tail_new_lines(c, s, then) ==
    /\ append_attributed_lines(LinesOf(s, captures[c].cursors[s]))
    /\ captures' = [captures EXCEPT ![c] =
            [then EXCEPT !.cursors[s] = consumable(s, captures[c].cursors[s])]]
    /\ UNCHANGED <<mirror, follower>> /\ UNCHANGED captureVars

Free(c) == captures[c].lock = "free"

-----------------------------------------------------------------------------
(* The tailer thread, which reads stop before it takes the lock.           *)

tailer_wakes(c) ==
    /\ captures[c].tailer = "sleeping"
    /\ captures' = [captures EXCEPT
            ![c].tailer = IF captures[c].stop THEN "last look" ELSE "looking"]
    /\ UNCHANGED <<output, starts, mirror, follower>> /\ UNCHANGED captureVars

tailer_out(c) ==
    /\ captures[c].tailer \in {"looking", "last look"} /\ Free(c)
    /\ tail_new_lines(c, "agent-out", [captures[c] EXCEPT !.lock = "tailer"])

tailer_err(c) ==
    /\ captures[c].lock = "tailer"
    /\ tail_new_lines(c, "agent-err",
            [captures[c] EXCEPT !.lock = "free",
                !.tailer = IF @ = "last look" THEN "gone" ELSE "sleeping"])

-----------------------------------------------------------------------------
(* The engine: every transition persists the state first and mirrors it to *)
(* the log of the capture it holds, if it holds one: a catch-up and the    *)
(* line, under one lock.                                                   *)

Up   == handle # "down"
Idle == Up /\ mirror = Nothing

Held == IF handle = "captured" THEN run ELSE Nothing

engine_out ==
    /\ mirror # Nothing /\ Free(mirror)
    /\ tail_new_lines(mirror, "agent-out", [captures[mirror] EXCEPT !.lock = "engine"])

engine_err ==
    /\ mirror # Nothing /\ captures[mirror].lock = "engine"
    /\ tail_new_lines(mirror, "agent-err", [captures[mirror] EXCEPT !.lock = "engine line"])

engine_line ==
    /\ mirror # Nothing /\ captures[mirror].lock = "engine line"
    /\ append_attributed_lines(<<[stream |-> "engine", from |-> mirror, to |-> mirror]>>)
    /\ captures' = [captures EXCEPT ![mirror].lock = "free"]
    /\ mirror' = Nothing
    /\ UNCHANGED follower /\ UNCHANGED captureVars

send_engine_line == engine_out \/ engine_err \/ engine_line

\* Mutant: a capture that begins at the start of the raw files.
spawn_output_capture_from_start ==
    [cursors |-> [s \in Streams |-> 0],
     stop |-> FALSE, tailer |-> "sleeping", lock |-> "free",
     from |-> [s \in Streams |-> Len(raw[s])],
     alone |-> \A c \in DOMAIN captures : captures[c].tailer = "gone"]

spawn_output_capture ==
    [cursors |-> [s \in Streams |-> Len(raw[s])],
     stop |-> FALSE, tailer |-> "sleeping", lock |-> "free",
     from |-> [s \in Streams |-> Len(raw[s])],
     alone |-> \A c \in DOMAIN captures : captures[c].tailer = "gone"]

start ==
    /\ Idle /\ handle = "none" /\ Len(captures) < bound.runs
    /\ captures' = Append(captures, spawn_output_capture)
    /\ run' = Len(captures) + 1
    /\ agent' = TRUE /\ handle' = "captured" /\ state' = "running"
    /\ mirror' = Len(captures) + 1
    /\ notes' = 0
    /\ UNCHANGED <<raw, output, starts, follower, crashes, bound>>

\* Pause and resume.
transition ==
    /\ Idle /\ handle # "none" /\ agent /\ notes < bound.notes
    /\ state' = IF state = "running" THEN "paused" ELSE "running"
    /\ mirror' = Held
    /\ notes' = notes + 1
    /\ UNCHANGED <<raw, output, starts, captures, run, agent, handle, follower, crashes, bound>>

\* Supervisor.stop, or the reaper that finds the process gone: the capture is
\* cloned, the handle dropped, the state persisted.
stop_or_reap ==
    /\ Idle /\ handle # "none"
    /\ agent' = FALSE /\ handle' = "none" /\ state' = "stopped"
    /\ mirror' = Held
    /\ captures' = [c \in DOMAIN captures |->
            IF c = Held THEN [captures[c] EXCEPT !.stop = TRUE] ELSE captures[c]]
    /\ UNCHANGED <<raw, output, starts, run, follower, notes, crashes, bound>>

\* The engine is killed, and its threads with it.
crash ==
    /\ Up /\ crashes < bound.crashes
    /\ captures' = [c \in DOMAIN captures |->
            [captures[c] EXCEPT !.stop = TRUE, !.tailer = "gone", !.lock = "free"]]
    /\ handle' = "down" /\ mirror' = Nothing
    /\ crashes' = crashes + 1
    /\ UNCHANGED <<raw, output, starts, run, agent, state, follower, notes, bound>>

\* Adoption makes a handle without a capture.
reopen ==
    /\ ~Up
    /\ IF agent THEN handle' = "adopted" /\ state' = "running"
                ELSE handle' = "none" /\ state' = "stopped"
    /\ UNCHANGED <<raw, output, starts, captures, run, agent, mirror, follower, notes, crashes, bound>>

-----------------------------------------------------------------------------
(* The agent.                                                              *)

\* The bytes behind the last newline.
Unfinished(s) ==
    LET ends == {i \in DOMAIN raw[s] : raw[s][i]}
    IN  Cardinality({i \in DOMAIN raw[s] : \A j \in ends : j < i})

write(s) ==
    /\ agent
    /\ Len(raw["agent-out"]) + Len(raw["agent-err"]) < bound.bytes
    /\ \E newline \in BOOLEAN :
        /\ Unfinished(s) + 1 >= MaxLine => newline
        /\ raw' = [raw EXCEPT ![s] = Append(@, newline)]
    /\ UNCHANGED <<output, starts, captures, run, agent, handle, state, mirror,
                   follower, notes, crashes, bound>>

exit ==
    /\ agent /\ agent' = FALSE
    /\ UNCHANGED <<raw, output, starts, captures, run, handle, state, mirror,
                   follower, notes, crashes, bound>>

-----------------------------------------------------------------------------
(* `kt agent logs --follow`: a dump of every generation, oldest first, and *)
(* then polls of the current one.                                          *)

readerVars == <<raw, output, starts, captures, run, agent, handle, state, mirror,
                notes, crashes, bound>>

Interval(first, last) == [i \in 1 .. last + 1 - first |-> first + i - 1]

logs ==
    /\ follower.phase = "off" /\ bound.readers = 1
    /\ follower' = [follower EXCEPT !.phase = "dump .2", !.epoch = starts[0]]
    /\ UNCHANGED readerVars

\* read_agent_log: one file after the other.
read_agent_log(g, phase, then) ==
    /\ follower.phase = phase
    /\ follower' = [follower EXCEPT
            !.printed = @ \o Interval(starts[g], GenerationEnd(g)), !.phase = then]
    /\ UNCHANGED readerVars

\* The cursor is the length of what was read last.
read_agent_log_current ==
    /\ follower.phase = "dump"
    /\ follower' = [follower EXCEPT
            !.printed = @ \o Interval(starts[0], Len(output)),
            !.cursor = Bytes(starts[0], Len(output)), !.phase = "follow"]
    /\ UNCHANGED readerVars

\* The lines of the current generation behind a byte offset; the offset may
\* be inside a line, if it is an offset into another generation.
Behind(cursor) == {i \in Current : Bytes(starts[0], i) > cursor}

Aligned(cursor) ==
    \/ cursor = 0
    \/ \E i \in Current : Bytes(starts[0], i) = cursor

\* Mutant: the cursor falls behind what was printed.
plan_follow_again ==
    LET length == Bytes(starts[0], Len(output)) IN
    IF follower.cursor > length
    THEN [cursor |-> length, lines |-> {}, corrupt |-> FALSE]
    ELSE [cursor |-> follower.cursor, lines |-> Behind(follower.cursor),
          corrupt |-> ~Aligned(follower.cursor)]

\* What read_agent_log_since answers.
plan_follow ==
    LET length == Bytes(starts[0], Len(output)) IN
    IF follower.cursor > length
    THEN [cursor |-> length, lines |-> {}, corrupt |-> FALSE]
    ELSE [cursor |-> length, lines |-> Behind(follower.cursor),
          corrupt |-> ~Aligned(follower.cursor)]

\* Each poll prints what is new, and a notice when the cursor went back.
poll(phase, more, none) ==
    LET answer == plan_follow IN
    /\ follower.phase = phase
    /\ follower' =
        IF answer.corrupt THEN [follower EXCEPT !.phase = "failed"]
        ELSE [follower EXCEPT
                !.cursor = answer.cursor,
                !.printed = @ \o SetToSortSeq(answer.lines, <),
                !.told = @ \/ answer.cursor < follower.cursor,
                !.phase = IF answer.lines # {} THEN more ELSE none]
    /\ UNCHANGED readerVars

read_agent_log_since == poll("follow", "check", "check")

\* Mutant: a paused agent is waited for.
instance_status_until_stopped ==
    /\ follower.phase = "check"
    /\ follower' = [follower EXCEPT
            !.phase = IF state # "stopped" THEN "follow" ELSE "drain"]
    /\ UNCHANGED readerVars

instance_status ==
    /\ follower.phase = "check"
    /\ follower' = [follower EXCEPT
            !.phase = IF state = "running" THEN "follow" ELSE "drain"]
    /\ UNCHANGED readerVars

\* The final drain ends with the first poll that brings anything, or in time.
final_drain == poll("drain", "done", "drain")

final_deadline ==
    /\ follower.phase = "drain"
    /\ follower' = [follower EXCEPT !.phase = "done"]
    /\ UNCHANGED readerVars

-----------------------------------------------------------------------------
OutputInit ==
    /\ raw = [s \in Streams |-> <<>>]
    /\ output = <<>> /\ starts = [g \in Generations |-> 1]
    /\ captures = <<>> /\ run = 0
    /\ agent = FALSE /\ handle = "none" /\ state = "stopped" /\ mirror = Nothing
    /\ follower = [phase |-> "off", cursor |-> 0, printed |-> <<>>, epoch |-> 0,
                   told |-> FALSE]
    /\ notes = 0 /\ crashes = 0
    /\ bound \in Bounds

tailer(c) == tailer_wakes(c) \/ tailer_out(c) \/ tailer_err(c)

following ==
    \/ read_agent_log(2, "dump .2", "dump .1")
    \/ read_agent_log(1, "dump .1", "dump")
    \/ read_agent_log_current
    \/ read_agent_log_since
    \/ instance_status
    \/ final_drain

OutputNext ==
    \/ \E c \in DOMAIN captures : tailer(c)
    \/ send_engine_line
    \/ start \/ transition \/ stop_or_reap \/ crash \/ reopen
    \/ \E s \in Streams : write(s)
    \/ exit
    \/ logs \/ following \/ final_deadline

\* Threads and the reader go on when they can; transitions, kills and the
\* agent's writes need not happen.
OutputFairness ==
    /\ \A c \in {1, 2} : WF_outputVars(c \in DOMAIN captures /\ tailer(c))
    /\ WF_outputVars(send_engine_line)
    /\ WF_outputVars(following) /\ WF_outputVars(final_deadline)

OutputSpec == OutputInit /\ [][OutputNext]_outputVars /\ OutputFairness

-----------------------------------------------------------------------------
OutputTypeOK ==
    /\ raw \in [Streams -> Seq(BOOLEAN)]
    /\ output \in Seq(LogLine) /\ starts \in [Generations -> Nat \ {0}]
    /\ captures \in Seq(LogCapture)
    /\ \A c \in DOMAIN captures : \A s \in Streams :
          captures[c].cursors[s] \in captures[c].from[s] .. Len(raw[s])
    /\ run \in 0 .. Len(captures)
    /\ agent \in BOOLEAN /\ state \in {"running", "paused", "stopped"}
    /\ handle \in {"none", "captured", "adopted", "down"}
    /\ mirror \in 0 .. Len(captures)
    /\ follower \in Follower /\ notes \in Nat /\ crashes \in Nat
    /\ bound \in Bounds

\* The Run that wrote a byte.
RunOf(s, byte) ==
    CHOOSE r \in DOMAIN captures :
        /\ captures[r].from[s] < byte
        /\ \A q \in DOMAIN captures : captures[q].from[s] < byte => q <= r

Attributed(s, byte) ==
    \E i \in DOMAIN output :
        output[i].stream = s /\ byte \in output[i].from .. output[i].to

\* What stands in the attributed log is what the agent wrote: each line is one
\* whole line of its stream, none is skipped within a Run and, in a Run that
\* began when the tailers of the earlier ones were gone, none stands there
\* twice or out of order.
AttributedExactly ==
    \A i \in DOMAIN output :
        LET line == output[i]
            r == RunOf(line.stream, line.to)
        IN  line.stream \in Streams /\ captures[r].alone =>
                /\ {b \in line.from .. line.to : raw[line.stream][b]} = {line.to}
                /\ \/ line.from = captures[r].from[line.stream] + 1
                   \/ \E j \in 1 .. i - 1 :
                        /\ output[j].stream = line.stream
                        /\ output[j].to = line.from - 1
                /\ \A j \in 1 .. i - 1 :
                        output[j].stream = line.stream /\ RunOf(line.stream, output[j].to) = r
                            => output[j].to < line.from

\* A whole line of the Run under way that is not in the attributed log.
Backlog ==
    \E s \in Streams : \E byte \in captures[run].from[s] + 1 .. Len(raw[s]) :
        raw[s][byte] /\ ~Attributed(s, byte)

\* As long as its capture lives, every whole line an agent writes gets into
\* the attributed log, however far behind the tailer is, if a line fits into
\* one pass.
BacklogOwed == handle = "captured" /\ Backlog
EverythingAppears == BacklogOwed ~> ~BacklogOwed

\* Until a rotation, a follower has printed every line from the oldest one
\* retained when it began up to its cursor, each of them once: nothing falls
\* between the dump and the first poll, between two polls, or between the
\* last poll and the drain.
FollowIsExact ==
    follower.phase \in {"follow", "check", "drain", "done"} /\ starts[0] = follower.epoch =>
        \E last \in starts[0] - 1 .. Len(output) :
            /\ follower.printed = Interval(starts[2], last)
            /\ follower.cursor = Bytes(starts[0], last)

\* Once the instance has left running for good, a follower ends.
LeftRunning  == state # "running"
FollowerRuns == follower.phase \notin {"off", "done", "failed"}
FollowEnds == <>[]LeftRunning => (FollowerRuns ~> ~FollowerRuns)

\* What supervisor.rs:1747 says of a stop: the terminal line stands behind
\* every byte of the agent's output.
FoldedBeforeStopped ==
    crashes = 0 /\ run > 0 /\ handle = "none" /\ mirror = Nothing => ~Backlog

\* What docs/commands.md:193 says of `kt agent logs`: it never errors due to
\* rotation.
NeverErrorsDueToRotation == follower.phase # "failed"
=============================================================================
