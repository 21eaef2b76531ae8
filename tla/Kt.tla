--------------------------------- MODULE Kt ---------------------------------
(***************************************************************************)
(* The kt command line.  A `kt agent' command is a process with an engine  *)
(* of its own: it opens the state directory, which adopts or reconciles    *)
(* what earlier commands left, makes one call, answers with an exit code   *)
(* and drops the engine, which kills an agent held attached.               *)
(*                                                                         *)
(* One Agent Instance, one command at a time.  A call runs under both      *)
(* mutexes and is one step here, with every outcome it can leave behind;   *)
(* its inside, two faults in one call included, is Supervisor's and        *)
(* AgentHome's.  A command is over before a backoff is: a crash it notices *)
(* fails the row and restarts nothing.                                     *)
(***************************************************************************)
EXTENDS Lifecycle, Sequences

CONSTANTS
    Declarations,  \* what an adapter declares: [observed, resolves, pause, interaction]
    MaxMishaps,    \* reads and writes that fail, signals and stops too, pipes that close
    MaxKills       \* commands that are killed

VARIABLES
    adapter,    \* the adapter of the instance
    world,      \* what outlives a command: the row and its satellites, the process
    session,    \* how this engine would drop the process: no, attached, detached
    asked,      \* the command under way
    luck        \* the faults and kills still to come

ktVars == <<adapter, world, session, asked, luck>>

KtConstants ==
    /\ MaxMishaps \in Nat /\ MaxKills \in Nat
    /\ Declarations \subseteq
         [observed : BOOLEAN, resolves : BOOLEAN,
          pause : {"unsupported", "best-effort", "guaranteed"},
          interaction : {"unsupported", "best-effort", "guaranteed"}]

World == [row : States \cup {"absent"}, record : {"none", "attached", "detached"},
          backing : {"none", "filesystem", "native"}, setting : BOOLEAN,
          home : {"none", "bare", "whole"},
          process : {"none", "runs", "suspended"}, stray : BOOLEAN]

Nothing == [row |-> "absent", record |-> "none", backing |-> "none", setting |-> FALSE,
            home |-> "none", process |-> "none", stray |-> FALSE]

\* The command lines, by what their arguments turn out to be; all but list take
\* a name.  An adapter or a key that is not sound stands as its error.
Given == {"sound", "malformed"}

CommandLines ==
    [do : {"register"}, name : Given,
     adapter : {"sound", "UnknownAdapterKind", "ManifestNotFound", "ManifestUnreadable",
                "ManifestInvalid", "ContractIncompatible", "NoMeteringSource",
                "NoCapabilities"}]
    \cup [do : {"remove"}, name : Given, force : BOOLEAN, delete : BOOLEAN]
    \cup [do : {"start"}, name : Given, detach : BOOLEAN]
    \cup [do : {"stop", "pause", "resume", "send", "logs", "usage", "detach"}, name : Given]
    \cup [do : {"attach"}, name : Given, kind : {"filesystem", "native", "bogus"},
          json : BOOLEAN]
    \cup [do : {"config_set"}, name : Given,
          key : {"sound", "UnknownKey", "WriteShapeConflict", "InvalidValue"}]
    \cup [do : {"config_get"}, name : Given, key : {"one", "all"}, reveal : {"no", "fails"}]
    \cup [do : {"show"}, name : Given, json : BOOLEAN]
    \cup [do : {"list"}, name : {"sound"}]

-----------------------------------------------------------------------------
(* Errors, the diagnostics kt makes of them and the exit codes of those.   *)

map_error ==
    [DuplicateName |-> "AgentDuplicateName", InvalidName |-> "AgentInvalidName",
     NotFound |-> "AgentNotFound", RunningRequiresForce |-> "AgentRunningRequiresForce",
     Io |-> "AgentIo", RemoveLeftoverHome |-> "AgentIo", RegisterOrphanRow |-> "AgentIo",
     UnknownAdapterKind |-> "AgentUnknownKind", ManifestNotFound |-> "AgentManifestNotFound",
     ManifestUnreadable |-> "AgentManifestUnreadable",
     ManifestInvalid |-> "AgentManifestInvalid",
     ContractIncompatible |-> "AgentContractIncompatible",
     NoMeteringSource |-> "AgentNoMeteringSource", NoCapabilities |-> "AgentNoCapabilities",
     MemoryBackingHotSwap |-> "AgentMemoryHotSwap",
     MemoryBackingKindConflict |-> "AgentMemoryKindConflict", Store |-> "AgentStore"]

map_engine_error ==
    [NotFound |-> "AgentNotFound", InvalidName |-> "AgentInvalidName",
     InvalidTransition |-> "AgentInvalidTransition", LaunchFailed |-> "AgentLaunchFailed",
     CapabilityUnsupported |-> "AgentCapabilityUnsupported",
     ResumeUnsupported |-> "AgentResumeUnsupported", AdapterUnresolved |-> "AgentLaunchFailed",
     Log |-> "AgentIo", Snapshot |-> "AgentIo", Secret |-> "AgentConfig",
     ObservedMetering |-> "AgentConfig", DetachRefused |-> "AgentDetachRefused",
     Backend |-> "AgentIo", NotRunning |-> "AgentNotRunning",
     InteractionUnavailable |-> "AgentInteractionUnavailable",
     InteractionTimedOut |-> "AgentInteractionTimedOut",
     StopUnconfirmed |-> "AgentStopUnconfirmed", Store |-> "AgentStore"]

map_config_error ==
    [UnknownKey |-> "AgentUnknownConfigKey", WriteShapeConflict |-> "AgentConfig",
     InvalidName |-> "AgentInvalidName", NotFound |-> "AgentNotFound",
     MalformedLayer |-> "AgentConfig", Store |-> "AgentStore",
     SecretReveal |-> "AgentConfig", InvalidValue |-> "AgentConfig"]

\* Which table a command's errors go through; opening the engine has map_error.
Mapper(do) ==
    CASE do \in LifecycleCommand \cup {"send", "logs"} -> map_engine_error
      [] do \in {"config_set", "config_get"} -> map_config_error
      [] OTHER -> map_error

diagnostic(do, e) == IF e \in DOMAIN Mapper(do) THEN Mapper(do)[e] ELSE map_error[e]

\* Mutant: three diagnostics without an arm fall to the catch-all.
classify_catch_all(d) ==
    CASE d \in {"AgentNotFound", "AgentManifestNotFound"} -> 3
      [] d \in {"AgentInvalidName", "AgentUnknownKind", "AgentUnknownConfigKey",
                "AgentDuplicateName"} -> 2
      [] d \in {"AgentNotRunning", "AgentRunningRequiresForce", "AgentInvalidTransition"} -> 4
      [] d \in {"AgentCapabilityUnsupported", "AgentResumeUnsupported",
                "AgentInteractionUnavailable", "AgentDetachRefused"} -> 5
      [] d = "AgentInteractionTimedOut" -> 6
      [] OTHER -> 1

classify(d) ==
    CASE d \in {"AgentNotFound", "AgentManifestNotFound"} -> 3
      [] d \in {"AgentInvalidName", "AgentUnknownKind", "AgentUnknownConfigKey",
                "AgentDuplicateName"} -> 2
      [] d \in {"AgentNotRunning", "AgentRunningRequiresForce", "AgentInvalidTransition",
                "AgentStopUnconfirmed", "AgentMemoryHotSwap", "AgentMemoryKindConflict"} -> 4
      [] d \in {"AgentCapabilityUnsupported", "AgentResumeUnsupported",
                "AgentInteractionUnavailable", "AgentDetachRefused"} -> 5
      [] d = "AgentInteractionTimedOut" -> 6
      [] OTHER -> 1

exit_code(do, e) == IF e = "none" THEN 0 ELSE classify(diagnostic(do, e))

-----------------------------------------------------------------------------
(* What refuses a command, in the order of its handler: the first check    *)
(* that holds names the error.                                             *)

Refusal(checks) ==
    LET hits == {i \in DOMAIN checks : checks[i][1]}
    IN  IF hits = {} THEN "none"
        ELSE checks[CHOOSE i \in hits : \A j \in hits : i <= j][2]

Malformed(r) == <<r.name = "malformed", "InvalidName">>
Unknown      == <<world.row = "absent", "NotFound">>
Named(r)     == <<Malformed(r), Unknown>>

\* A bare home has no adapter snapshot to read.
Homeless     == <<world.home # "whole", "Log">>
Gate(c)      == <<~Accepts(world.row, c), "InvalidTransition">>

\* The two memory commands look at their arguments before the engine opens.
validate_instance_name(r) ==
    IF r.do = "attach"
    THEN <<Malformed(r), <<r.kind \notin {"filesystem", "native"}, "UnknownAdapterKind">>>>
    ELSE IF r.do = "detach" THEN <<Malformed(r)>> ELSE <<>>

ensure_terminal_for_memory_backing ==
    <<world.row \notin {"registered", "stopped", "failed"}, "MemoryBackingHotSwap">>

start_checks(r) ==
    Named(r) \o <<Gate("start"), Homeless, <<~adapter.resolves, "AdapterUnresolved">>,
                  <<r.detach /\ adapter.observed, "DetachRefused">>>>

pause_checks(r) ==
    Named(r) \o <<Gate(r.do), Homeless,
                  <<adapter.pause = "unsupported",
                    IF r.do = "resume" THEN "ResumeUnsupported"
                                       ELSE "CapabilityUnsupported">>>>

\* Whatever is held was adopted when the session opened: its stdin is out of reach.
send_checks(r) ==
    Named(r) \o <<<<world.row # "running", "NotRunning">>, Homeless,
                  <<adapter.interaction = "unsupported", "CapabilityUnsupported">>,
                  <<TRUE, "InteractionUnavailable">>>>

\* config get reports a key without a value as it does an unknown one.
config_get_checks(r) ==
    Named(r) \o <<<<r.reveal = "fails", "SecretReveal">>,
                  <<r.key = "one" /\ ~world.setting, "UnknownKey">>>>

checks(r) ==
    CASE r.do = "register" ->
           <<Malformed(r), <<r.adapter # "sound", r.adapter>>,
             <<world.row # "absent", "DuplicateName">>>>
      [] r.do = "remove" ->
           Named(r) \o <<<<~r.force /\ ~is_removable_without_force(world.row),
                           "RunningRequiresForce">>>>
      [] r.do = "start" -> start_checks(r)
      [] r.do = "stop" -> Named(r) \o <<Gate("stop")>>
      [] r.do \in {"pause", "resume"} -> pause_checks(r)
      [] r.do = "send" -> send_checks(r)
      [] r.do = "attach" ->
           Named(r) \o <<ensure_terminal_for_memory_backing,
                         <<world.backing \notin {"none", r.kind},
                           "MemoryBackingKindConflict">>>>
      [] r.do = "detach" -> Named(r) \o <<ensure_terminal_for_memory_backing>>
      [] r.do = "config_set" -> Named(r) \o <<<<r.key # "sound", r.key>>,
                                            <<world.home = "none", "MalformedLayer">>>>
      [] r.do = "config_get" -> config_get_checks(r)
      [] r.do = "show" -> Named(r) \o <<<<~r.json /\ world.home # "whole", "Io">>>>
      [] r.do = "list" -> <<>>
      [] OTHER -> Named(r)

-----------------------------------------------------------------------------
(* What a call that is not refused can leave behind.                       *)

Answer(e, w, s) == {[error |-> e, world |-> w, session |-> s, fault |-> FALSE]}
Fault(e, w, s)  == {[error |-> e, world |-> w, session |-> s, fault |-> TRUE]}
Failing(errors) == UNION {Fault(e, world, session) : e \in errors}

Moved(s) == [world EXCEPT !.row = s]

register_effects ==
    LET bare == [world EXCEPT !.home = "none", !.setting = FALSE]
        made == [Moved("registered") EXCEPT !.home = "whole", !.setting = FALSE]
    IN  Answer("none", made, session) \cup Fault("Io", bare, session)
        \cup Fault("RegisterOrphanRow", [bare EXCEPT !.row = "registered"], session)

\* The snapshot, the secrets and the listener precede `starting'.  An attached
\* agent goes with its handle when the event of `running' cannot be appended.
start_effects(r) ==
    LET kept == IF r.detach THEN "detached" ELSE "attached"
        up   == [Moved("running") EXCEPT !.process = "runs", !.record = kept]
        dead == [up EXCEPT !.process = IF r.detach THEN @ ELSE "none"]
    IN  Answer("none", up, kept) \cup Answer("LaunchFailed", Moved("failed"), session)
        \cup Failing({"Snapshot", "Secret", "ObservedMetering", "Log"})
        \cup Fault("Log", Moved("starting"), session) \cup Fault("Store", Moved("failed"), session)
        \cup Fault("Log", dead, "no")

stop_effects ==
    LET stopping == Moved("stopping")
        gone     == [stopping EXCEPT !.process = "none"]
        stopped  == [gone EXCEPT !.row = "stopped", !.record = "none"]
    IN  Answer("none", stopped, "no") \cup Failing({"Log"})
        \cup Fault("Log", stopping, session) \cup Fault("Store", gone, "no")
        \cup Fault("Log", stopped, "no")
        \cup IF world.process = "none" THEN {}
             ELSE Fault("StopUnconfirmed", stopping, session)
                  \cup Fault("Backend", stopping, session)

stop_error_to_registry(e) == IF e \in {"Store", "InvalidName", "NotFound"} THEN e ELSE "Io"

\* The row goes with its backing and its record; the home only if asked to.
Delete(w, r) ==
    [w EXCEPT !.row = "absent", !.record = "none", !.backing = "none",
              !.home = IF r.delete THEN "none" ELSE @, !.setting = @ /\ ~r.delete]

remove_row(o, r) ==
    LET gone == Delete(o.world, r)
    IN  IF o.error # "none"
        THEN Fault(stop_error_to_registry(o.error), o.world, o.session)
        ELSE Answer("none", gone, o.session) \cup Fault("Store", o.world, o.session)
             \cup IF ~r.delete THEN {}
                  ELSE Fault("RemoveLeftoverHome", [gone EXCEPT !.home = "bare"], o.session)

\* Mutant: a paused instance is not live.
Running(s) == s = "running"

Live(s) == s \in LiveStates

\* A live instance is stopped first; if that fails the row stays.
remove_effects(r) ==
    UNION {remove_row(o, r) : o \in IF Live(world.row) THEN stop_effects
                                     ELSE Answer("none", world, session)}

\* The row is committed first; only a guaranteed level is then signalled.
suspend_or_resume_effects(r) ==
    LET moved    == Moved(next_state(world.row, r.do))
        reached  == adapter.pause = "guaranteed" /\ session # "no" /\ world.process # "none"
        signalled == [moved EXCEPT !.process = IF r.do = "pause" THEN "suspended" ELSE "runs"]
    IN  Answer("none", IF reached THEN signalled ELSE moved, session)
        \cup Failing({"Log"}) \cup Fault("Log", moved, session)
        \cup IF reached THEN Fault("Backend", moved, session) ELSE {}

\* Only a directory the engine manages is made.
attach_effects(r) ==
    LET made == IF r.kind = "filesystem" /\ world.home = "none" THEN "bare" ELSE world.home
    IN  Answer("none", [world EXCEPT !.backing = r.kind, !.home = made], session)
        \cup Failing({"Io"}) \cup Fault("Store", [world EXCEPT !.home = made], session)

effects(r) ==
    CASE r.do = "register" -> register_effects
      [] r.do = "remove" -> remove_effects(r)
      [] r.do = "start" -> start_effects(r)
      [] r.do = "stop" -> stop_effects
      [] r.do \in {"pause", "resume"} -> suspend_or_resume_effects(r)
      [] r.do = "attach" -> attach_effects(r)
      [] r.do = "detach" -> Answer("none", [world EXCEPT !.backing = "none"], session)
      [] r.do = "config_set" ->
           Answer("none", [world EXCEPT !.setting = TRUE], session)
           \cup Failing({"MalformedLayer"})
      [] r.do = "config_get" -> Answer("none", world, session) \cup Failing({"MalformedLayer"})
      [] r.do = "logs" -> Answer("none", world, session) \cup Failing({"Log", "Store"})
      [] OTHER -> Answer("none", world, session)

-----------------------------------------------------------------------------
(* One command, from its arguments to its exit.                            *)

\* Between two commands.
NoCommand == [at |-> "idle", do |-> [do |-> "list"], error |-> "none", code |-> 0,
              fault |-> FALSE, before |-> Nothing, opened |-> FALSE]

Mishap(fault) == IF fault THEN luck.faults > 0 /\ luck' = [luck EXCEPT !.faults = @ - 1]
                 ELSE UNCHANGED luck

Answered(e, fault) ==
    asked' = [asked EXCEPT !.at = "answered", !.error = e, !.before = world,
                           !.code = exit_code(asked.do.do, e), !.fault = @ \/ fault]

\* Clap has parsed the arguments, and found them where its own rules want them.
invoke(r) ==
    LET e == Refusal(validate_instance_name(r)) IN
    /\ asked.at = "idle"
    /\ asked' = [at |-> IF e = "none" THEN "open" ELSE "answered", do |-> r, error |-> e,
                 code |-> exit_code(r.do, e), fault |-> FALSE, before |-> world,
                 opened |-> FALSE]
    /\ UNCHANGED <<adapter, world, session, luck>>

\* A surviving process is held again as it was started; a row without one fails.
adopt_orphans ==
    IF world.process # "none" /\ world.record # "none"
    THEN session' = world.record /\ UNCHANGED world
    ELSE /\ session' = "no"
         /\ world' = [world EXCEPT !.record = "none",
                                   !.row = IF @ \in LiveStates THEN "failed" ELSE @]

open_engine ==
    /\ asked.at = "open"
    /\ adopt_orphans
    /\ asked' = [asked EXCEPT !.at = "call", !.opened = TRUE]
    /\ UNCHANGED <<adapter, luck>>

open_engine_fails ==
    /\ asked.at = "open"
    /\ Mishap(TRUE) /\ \E e \in {"Store", "Io"} : Answered(e, TRUE)
    /\ UNCHANGED <<adapter, world, session>>

\* The reaper notices a crash before the call is made.
reaper_tick ==
    /\ asked.at = "call" /\ session # "no" /\ world.process = "none"
    /\ world' = [world EXCEPT !.row = IF @ \in LiveStates THEN "failed" ELSE @]
    /\ session' = "no"
    /\ UNCHANGED <<adapter, asked, luck>>

call_refused ==
    LET e == Refusal(checks(asked.do)) IN
    /\ asked.at = "call" /\ e # "none"
    /\ Answered(e, FALSE)
    /\ UNCHANGED <<adapter, world, session, luck>>

\* The lookup fails: after the name was checked, but for usage, which reads the
\* Fleet before it looks at the name.
call_unreadable ==
    /\ asked.at = "call"
    /\ asked.do.name # "malformed" \/ asked.do.do = "usage"
    /\ Mishap(TRUE) /\ Answered("Store", TRUE)
    /\ UNCHANGED <<adapter, world, session>>

\* attach --json reads back what it attached.
ReadsBack(r) == r.do = "attach" /\ r.json

engine_call ==
    /\ asked.at = "call" /\ Refusal(checks(asked.do)) = "none"
    /\ \E o \in effects(asked.do) :
         /\ Mishap(o.fault)
         /\ world' = o.world /\ session' = o.session
         /\ IF o.error = "none" /\ ReadsBack(asked.do)
            THEN asked' = [asked EXCEPT !.at = "read_back", !.before = world]
            ELSE Answered(o.error, o.fault)
    /\ UNCHANGED adapter

read_back ==
    /\ asked.at = "read_back"
    /\ \E e \in {"none", "Io"} :
         /\ Mishap(e # "none")
         /\ asked' = [asked EXCEPT !.at = "answered", !.error = e, !.fault = e # "none",
                                   !.code = exit_code("attach", e)]
    /\ UNCHANGED <<adapter, world, session>>

\* The reader of stdout has gone: println! panics, and the panic is a code of
\* its own.  Only logs writes for a pipe that may close.
stdout_closed ==
    /\ asked.at = "answered" /\ asked.code = 0 /\ asked.do.do # "logs"
    /\ Mishap(TRUE) /\ asked' = [asked EXCEPT !.code = 101, !.fault = TRUE]
    /\ UNCHANGED <<adapter, world, session>>

\* A process whose record has gone is out of every later session's sight.
OutOfSight(w) ==
    IF w.process # "none" /\ w.record = "none"
    THEN [w EXCEPT !.process = "none", !.stray = TRUE] ELSE w

\* Mutant: the session's processes are left as they are.
drop_nothing(w) == w

drop_engine(w) == IF session = "attached" THEN [w EXCEPT !.process = "none"] ELSE w

exit ==
    /\ asked.at = "answered"
    /\ world' = OutOfSight(drop_engine(world))
    /\ session' = "no"
    /\ asked' = [NoCommand EXCEPT !.opened = asked.opened]
    /\ UNCHANGED <<adapter, luck>>

\* A signal ends kt, and nothing is dropped.
kt_killed ==
    /\ asked.at # "idle" /\ luck.kills > 0
    /\ luck' = [luck EXCEPT !.kills = @ - 1]
    /\ world' = OutOfSight(world)
    /\ session' = "no"
    /\ asked' = [NoCommand EXCEPT !.error = "killed"]
    /\ UNCHANGED adapter

\* External: the agent exits.
agent_exits ==
    /\ world.process # "none"
    /\ world' = [world EXCEPT !.process = "none"]
    /\ UNCHANGED <<adapter, session, asked, luck>>

KtInit ==
    /\ adapter \in Declarations
    /\ world = Nothing /\ session = "no"
    /\ asked = NoCommand
    /\ luck = [faults |-> MaxMishaps, kills |-> MaxKills]

KtNext ==
    \/ \E r \in CommandLines : invoke(r)
    \/ open_engine \/ open_engine_fails \/ reaper_tick
    \/ call_refused \/ call_unreadable \/ engine_call \/ read_back
    \/ stdout_closed \/ exit \/ kt_killed \/ agent_exits

KtSpec == KtInit /\ [][KtNext]_ktVars

-----------------------------------------------------------------------------
KtTypeOK ==
    /\ adapter \in Declarations /\ world \in World
    /\ session \in {"no", "attached", "detached"}
    /\ luck.faults \in 0 .. MaxMishaps /\ luck.kills \in 0 .. MaxKills
    /\ asked.at \in {"idle", "open", "call", "read_back", "answered"}
    /\ asked.code \in 0 .. 6 \cup {101} /\ asked.before \in World

\* Nothing that outlives the command differs, but for a process that has ended.
Unchanged(b, w) == w \in {b, [b EXCEPT !.process = "none"]}

(***************************************************************************)
(* What a command that says it succeeded has done.  An instance removed    *)
(* while starting or stopping is not stopped first: a process may be left. *)
(***************************************************************************)
Achieved(r, b, w, s) ==
    CASE r.do = "register" -> w.row = "registered" /\ w.home = "whole" /\ w.backing = "none"
      [] r.do = "start" -> /\ w.row = "running"
                           /\ w.record = IF r.detach THEN "detached" ELSE "attached"
                           /\ s = w.record
      [] r.do = "stop" -> w.row = "stopped" /\ w.process = "none" /\ w.record = "none"
      [] r.do = "remove" ->
           /\ w.row = "absent" /\ w.record = "none" /\ w.backing = "none"
           /\ w.process = "none" \/ b.row \in {"starting", "stopping"}
           /\ r.delete => w.home = "none"
      [] r.do = "pause" ->
           /\ w.row = "paused" /\ adapter.pause # "unsupported"
           /\ adapter.pause = "guaranteed" => w.process # "runs"
      [] r.do = "resume" -> w.row = "running" /\ w.process # "suspended"
      [] r.do = "send" -> FALSE
      [] r.do = "attach" -> w.backing = r.kind /\ (r.kind = "filesystem" => w.home # "none")
      [] r.do = "detach" -> w.backing = "none"
      [] r.do = "config_set" -> w.setting
      [] OTHER -> Unchanged(b, w)

\* A failure the command line or the adapter explains, nothing having failed.
Explained(r, b, e) ==
    \/ e = "LaunchFailed" \/ ~adapter.resolves \/ b.home # "whole"
    \/ r.do = "register" /\ r.adapter # "sound"
    \/ r.do = "config_set" /\ r.key # "sound"
    \/ r.do = "config_get" /\ r.reveal = "fails"

(***************************************************************************)
(* The exit code tells a script what happened (docs/commands.md): 0, and   *)
(* the 101 of a closed pipe, that the thing is done; 2, 3 and 5, that      *)
(* nothing was touched; 3, that there is no such instance; 4, that its     *)
(* state forbids, and nothing was touched unless a stop is under way; 1,   *)
(* that something failed or was refused for good.  A malformed name is 2   *)
(* whatever the command, unless something failed.                          *)
(***************************************************************************)
CodeIsHonest ==
    asked.at = "answered" =>
        LET r == asked.do  b == asked.before  n == asked.code  e == asked.error IN
        /\ n \in {0, 101} => Achieved(r, b, world, session)
        /\ n \in {2, 3, 5} => Unchanged(b, world)
        /\ n = 3 => b.row = "absent" \/ (r.do = "register" /\ e = "ManifestNotFound")
        /\ n = 4 => /\ b.row # "absent"
                    /\ Unchanged(b, world) \/ (e = "StopUnconfirmed" /\ world.row = "stopping")
        /\ n = 1 => asked.fault \/ Explained(r, b, e)
        /\ r.name = "malformed" /\ ~asked.fault => n = 2

\* What is left running was started to be: a command that opened the engine took
\* an attached agent with it, its own or a killed command's, unless it was killed.
NothingIsLeftRunning ==
    asked.at = "idle" /\ asked.opened /\ asked.error # "killed" =>
        world.process = "none" \/ world.record = "detached"

\* A live process has the record by which the next command finds it, unless its
\* instance was removed in between the states that are stopped first.
AgentIsFindable ==
    asked.at = "answered" /\ world.process # "none" /\ world.record = "none" =>
        asked.do.do = "remove" /\ asked.before.row \in {"starting", "stopping"}

\* kt tells the truth: in its code, and about what it leaves behind.
CommandIsHonest == CodeIsHonest /\ NothingIsLeftRunning /\ AgentIsFindable

=============================================================================
