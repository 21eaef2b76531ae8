---------------------------- MODULE Conformance ----------------------------
(***************************************************************************)
(* The conformance kit: one engine over a fresh state directory, the       *)
(* adapter under test registered as its subject, and eight sections that   *)
(* start it, or a probe the kit wrote itself, and look at what was         *)
(* committed.  A section ends at its first failing step, except for what   *)
(* it has to put back, and the suite goes on with the next one.            *)
(*                                                                         *)
(* A section is a sequence of steps.  What the kit is there to find is a   *)
(* set of defects of the adapter or of the engine under it; a step fails   *)
(* for the defects it catches, for the state its instance is in, or        *)
(* because the machine was too slow.                                       *)
(***************************************************************************)
EXTENDS Naturals, Sequences, SequencesExt

CONSTANTS
    Subjects,     \* the adapters under test
    DefectSets,   \* what may be wrong
    MaxTroubles   \* bound: agents that exit by themselves and steps that are slow

VARIABLES
    subject,   \* the adapter: what it declares and how it behaves
    defects,   \* what is wrong
    inst,      \* the instances in the engine of the kit
    runs,      \* how often the subject was started
    kit,       \* where the suite is
    report,    \* SectionReport, one per section
    troubles,  \* how often the machine has interfered
    starved    \* history: the sections whose watch saw a starved agent

kitVars == <<subject, defects, inst, runs, kit, report, troubles, starved>>

section_ids ==
    <<"capability_edges", "lifecycle", "pause", "config_mapping",
      "metering_self_reported", "metering_engine_observed", "memory", "interaction">>

Names == {"subject", "crash", "pause", "meter", "obs", "memory", "interaction"}
Live  == {"running", "paused"}

-----------------------------------------------------------------------------
(***************************************************************************)
(* The steps of a section.  after: a failure at or past that step does not *)
(* skip this one.                                                          *)
(***************************************************************************)
Never == 99
Step(do, who)          == [do |-> do, who |-> who, catches |-> {}, after |-> Never]
Check(who, catches)    == [Step("check", who) EXCEPT !.catches = catches]
Rows(who, catches)     == [Step("rows", who) EXCEPT !.catches = catches]
Finally(do, who, from) == [Step(do, who) EXCEPT !.after = from]

\* A probe is registered from a manifest of the kit's own and started.
Probe(who) == <<Step("register", who), Step("start", who)>>

capability_edges == <<Check("subject", {"projection"})>>

crash_leg == Probe("crash") \o <<Step("fails", "crash"), Check("crash", {"exit code"})>>

lifecycle ==
    <<Step("start", "subject"), Step("wait", "subject"), Step("stop", "subject"),
      Check("subject", {"sequence"})>> \o crash_leg

heartbeat_freeze(from) ==
    <<Step("pause", "pause"),
      [Step("watch", "pause") EXCEPT !.catches = {"no suspension"}],
      Step("resume", "pause"), Finally("quiet stop", "pause", from)>>

pause_guaranteed ==
    <<Step("pause", "subject"), Step("resume", "subject"), Step("wait", "subject")>>
        \o Probe("pause") \o <<Step("wait", "pause")>> \o heartbeat_freeze(9)
        \o <<Check("subject", {"qualifier"})>>

pause_best_effort ==
    <<Step("pause", "subject"), Step("resume", "subject"),
      Check("subject", {"qualifier"})>>

\* Broken: each arm is trusted to stop the subject.
pause_unstopped(level) ==
    <<Step("start", "subject"), Step("wait", "subject")>>
        \o (IF level = "guaranteed" THEN pause_guaranteed ELSE pause_best_effort)

\* Exactly one stop, whatever the arm has found.
pause_applicable(level) ==
    <<Step("start", "subject"), Step("wait", "subject")>>
        \o (IF level = "guaranteed" THEN pause_guaranteed ELSE pause_best_effort)
        \o <<Finally("stop", "subject", 3)>>

config_mapping ==
    <<Step("has dump", "subject"), Step("start", "subject"), Step("wait", "subject"),
      [Step("dump", "subject") EXCEPT !.catches = {"env", "pass-through"}],
      Step("stop", "subject")>>

\* Broken: enough rows are enough.
self_reported_floor ==
    Probe("meter") \o <<Rows("meter", {"totals"}), Step("quiet stop", "meter")>>

\* Exactly three rows, also after the replayed batch has been drained.
self_reported_metering ==
    Probe("meter")
        \o <<Rows("meter", {"replay", "totals"}), Step("quiet stop", "meter")>>

\* The provider is a stub of the kit, which has counted its requests.
served_sufficient == Check("obs", {"bypass"})

engine_observed_metering ==
    Probe("obs") \o <<Rows("obs", {"observed", "totals"}), served_sufficient,
                      Step("quiet stop", "obs")>>

memory_backing ==
    <<Step("register", "memory"), Check("memory", {"attachment"}),
      Step("start", "memory"),
      [Step("dump", "memory") EXCEPT !.catches = {"memory env"}],
      Finally("quiet stop", "memory", 4), Check("memory", {"detachment"})>>

interaction_section ==
    Probe("interaction")
        \o <<[Step("input", "interaction") EXCEPT !.catches = {"stdin"}],
             Step("quiet stop", "interaction")>>

-----------------------------------------------------------------------------
(***************************************************************************)
(* What applies: a section is a program, or it is not applicable, or it    *)
(* fails because the declaration cannot be read.                           *)
(***************************************************************************)
NotApplicable == <<>>
Unreadable    == <<Step("unreadable", "subject")>>

pause_demo(level) ==
    IF level \in {"none", "unsupported"} \/ (level = "guaranteed" /\ subject.windows)
    THEN NotApplicable ELSE pause_applicable(level)

config_probe_scope ==
    CASE subject.native            -> NotApplicable
      [] subject.file = "unreadable" -> Unreadable
      [] subject.env               -> config_mapping
      [] OTHER                     -> NotApplicable

\* Broken: a file that cannot be read declares nothing.
declares_memory_dir_collapsed ==
    IF subject.file # "unreadable" /\ subject.memory THEN memory_backing
    ELSE NotApplicable

\* The table of a native adapter cannot fail to be read.
declares_memory_dir ==
    CASE ~subject.native /\ subject.file = "unreadable" -> Unreadable
      [] subject.launch /\ subject.memory               -> memory_backing
      [] OTHER                                          -> NotApplicable

metering_section(source, program) ==
    IF subject.source = source THEN program ELSE NotApplicable

interaction_applies ==
    IF subject.interaction = "none" THEN NotApplicable ELSE interaction_section

Program(s) ==
    CASE s = "capability_edges" -> capability_edges
      [] s = "memory"           -> declares_memory_dir
      [] s \notin {"capability_edges", "memory"} /\ ~subject.launch -> NotApplicable
      [] OTHER ->
           CASE s = "lifecycle"      -> lifecycle
             [] s = "pause"          -> pause_demo(subject.pause)
             [] s = "config_mapping" -> config_probe_scope
             [] s = "metering_self_reported" ->
                    metering_section("self-reported", self_reported_metering)
             [] s = "metering_engine_observed" ->
                    metering_section("engine-observed", engine_observed_metering)
             [] s = "interaction"    -> interaction_applies

Section == section_ids[kit.section]
Now     == Program(Section)[kit.step]

-----------------------------------------------------------------------------
(***************************************************************************)
(* How a step ends.                                                        *)
(***************************************************************************)
\* The lines a step looks for in a dump: written by this run, or found at an
\* absolute path where an earlier run left the same ones.
dump_contains_env(step) ==
    \/ defects \cap step.catches = {}
    \/ step.who = "subject" /\ subject.dump = "stale"

\* The state of the instance a step needs, and the one it leaves.
Needs(do) ==
    CASE do = "register" -> {"absent"}
      [] do = "start"    -> {"resting", "failed"}
      [] do \in {"wait", "pause", "input"} -> {"running"}
      [] do \in {"fails", "rows"} -> {"running", "failed"}
      [] do \in {"watch", "resume"} -> {"paused"}
      [] do = "stop"     -> Live
      [] OTHER           -> {"absent", "resting", "running", "paused", "failed"}

Leaves(do, now) ==
    CASE do = "register"          -> "resting"
      [] do \in {"start", "resume"} -> "running"
      [] do = "pause"             -> "paused"
      [] do = "fails"             -> "failed"
      [] do \in {"stop", "quiet stop"} -> IF now \in Live THEN "resting" ELSE now
      [] OTHER                    -> now

Succeeds(step) ==
    /\ inst[step.who] \in Needs(step.do)
    /\ step.do # "unreadable"
    /\ step.do = "start" /\ step.who = "subject" => subject.starts
    /\ step.do = "has dump" => subject.dump # "none"
    /\ "sequence" \in step.catches => runs = 1
    /\ IF step.do = "dump" THEN dump_contains_env(step)
       ELSE defects \cap step.catches = {}

\* The next step of the section: after a failure, one that still runs.
Next_step(failed_at) ==
    LET rest == {i \in DOMAIN Program(Section) :
                    i > kit.step /\ (failed_at = 0
                        \/ failed_at >= Program(Section)[i].after)}
    IN  IF rest = {} THEN 0 ELSE CHOOSE i \in rest : \A j \in rest : i <= j

\* into_section_result: the first failure is the section's.
into_section_result(failed_at) ==
    IF Next_step(failed_at) # 0
    THEN /\ kit' = [kit EXCEPT !.step = Next_step(failed_at), !.failed = failed_at]
         /\ UNCHANGED report
    ELSE /\ report' = Append(report, IF failed_at = 0 THEN "pass" ELSE "fail")
         /\ kit' = [kit EXCEPT !.section = @ + 1, !.step = 1, !.failed = 0]

Running == kit.at = "sections" /\ kit.section \in DOMAIN section_ids

step_succeeds ==
    /\ Running /\ Program(Section) # NotApplicable /\ Succeeds(Now)
    /\ inst' = [inst EXCEPT ![Now.who] = Leaves(Now.do, @)]
    /\ into_section_result(kit.failed)
    /\ runs' = IF Now = Step("start", "subject") THEN runs + 1 ELSE runs
    /\ UNCHANGED <<subject, defects, troubles, starved>>

FailedAt == IF kit.failed = 0 THEN kit.step ELSE kit.failed

step_fails ==
    /\ Running /\ Program(Section) # NotApplicable /\ ~Succeeds(Now)
    /\ into_section_result(FailedAt)
    /\ UNCHANGED <<subject, defects, runs, inst, troubles, starved>>

not_applicable ==
    /\ Running /\ Program(Section) = NotApplicable
    /\ report' = Append(report, "not_applicable")
    /\ kit' = [kit EXCEPT !.section = @ + 1]
    /\ UNCHANGED <<subject, defects, runs, inst, troubles, starved>>

-----------------------------------------------------------------------------
(* The machine, and the agents by themselves.                              *)

Trouble == troubles < MaxTroubles /\ troubles' = troubles + 1

\* A bounded wait expires.
times_out ==
    /\ Running /\ Program(Section) # NotApplicable /\ Trouble
    /\ Now.do \in {"wait", "fails", "dump", "watch", "input", "rows", "stop"}
    /\ into_section_result(FailedAt)
    /\ UNCHANGED <<subject, defects, runs, inst, starved>>

\* An agent that is not suspended gets no time during the second of the watch,
\* or the replayed batch is not drained during the settling time.
starves ==
    /\ Running /\ Program(Section) # NotApplicable /\ Trouble
    /\ \/ Now.do = "watch" /\ inst[Now.who] = "paused"
       \/ Now.do = "rows" /\ defects \cap Now.catches = {"replay"}
          /\ inst[Now.who] \in Needs("rows")
    /\ starved' = starved \cup {Section}
    /\ into_section_result(kit.failed)
    /\ UNCHANGED <<subject, defects, runs, inst>>

\* The reaper finds an agent dead; the subject has the default Restart Policy
\* and is started again.
exits(who) ==
    /\ kit.at = "sections" /\ inst[who] = "running" /\ Trouble
    /\ inst' = [inst EXCEPT ![who] = "failed"]
    /\ UNCHANGED <<subject, defects, runs, kit, report, starved>>

restarts ==
    /\ kit.at = "sections" /\ inst["subject"] = "failed" /\ troubles > 0
    /\ subject.starts
    /\ inst' = [inst EXCEPT !["subject"] = "running"] /\ runs' = runs + 1
    /\ UNCHANGED <<subject, defects, kit, report, troubles, starved>>

-----------------------------------------------------------------------------
\* Every section fails, for the same reason.
registration_failure_report == report' = [i \in DOMAIN section_ids |-> "fail"]

conformance_inner ==
    /\ kit.at = "register" /\ subject.registers
    /\ inst' = [inst EXCEPT !["subject"] = "resting"]
    /\ kit' = [kit EXCEPT !.at = "sections"]
    /\ UNCHANGED <<subject, defects, runs, report, troubles, starved>>

register_fails ==
    /\ kit.at = "register" /\ ~subject.registers
    /\ registration_failure_report /\ kit' = [kit EXCEPT !.at = "reported"]
    /\ UNCHANGED <<subject, defects, runs, inst, troubles, starved>>

\* A panic drops what has been reported, and sweeps nothing.
catch_report ==
    /\ kit.at = "sections" /\ Trouble
    /\ registration_failure_report /\ kit' = [kit EXCEPT !.at = "panicked"]
    /\ UNCHANGED <<subject, defects, runs, inst, starved>>

stop_leftovers ==
    /\ kit.at = "sections" /\ kit.section > Len(section_ids)
    /\ inst' = [n \in Names |-> IF inst[n] \in Live THEN "resting" ELSE inst[n]]
    /\ kit' = [kit EXCEPT !.at = "reported"]
    /\ UNCHANGED <<subject, defects, runs, report, troubles, starved>>

ConformanceInit ==
    /\ subject \in Subjects /\ defects \in DefectSets
    /\ inst = [n \in Names |-> "absent"] /\ runs = 0
    /\ kit = [at |-> "register", section |-> 1, step |-> 1, failed |-> 0]
    /\ report = <<>> /\ troubles = 0 /\ starved = {}

ConformanceNext ==
    \/ conformance_inner \/ register_fails \/ catch_report
    \/ step_succeeds \/ step_fails \/ not_applicable
    \/ times_out \/ starves \/ restarts
    \/ \E who \in Names : exits(who)
    \/ stop_leftovers

\* No section has failed; a skipped one counts as conformant.
is_conformant == \A i \in DOMAIN report : report[i] # "fail"

-----------------------------------------------------------------------------
(* Properties.                                                             *)

Results == {"pass", "fail", "not_applicable"}

ConformanceTypeOK ==
    /\ subject \in Subjects /\ defects \in DefectSets
    /\ inst \in [Names -> {"absent", "resting", "running", "paused", "failed"}]
    /\ kit.at \in {"register", "sections", "reported", "panicked"}
    /\ kit.section \in 1 .. Len(section_ids) + 1
    /\ kit.step \in 1 .. 20 /\ kit.failed \in 0 .. 20
    /\ runs \in 0 .. 3 + MaxTroubles
    /\ report \in Seq(Results) /\ Len(report) <= Len(section_ids)
    /\ troubles \in 0 .. MaxTroubles
    /\ starved \subseteq Range(section_ids)

\* What the manual of the kit says a section proves.
Proves(s) ==
    CASE s = "capability_edges"         -> {"projection"}
      [] s = "lifecycle"                -> {"sequence", "exit code"}
      [] s = "pause"                    -> {"qualifier"} \cup
            (IF subject.pause = "guaranteed" THEN {"no suspension"} ELSE {})
      [] s = "config_mapping"           -> {"env", "pass-through"}
      [] s = "metering_self_reported"   -> {"replay", "totals"}
      [] s = "metering_engine_observed" -> {"observed", "totals", "bypass"}
      [] s = "memory"                   -> {"memory env", "attachment", "detachment"}
      [] s = "interaction"              -> {"stdin"}

\* A pass is earned: the adapter and the engine have none of the defects the
\* section is to find, whatever has failed, exited or been left running
\* before; except by a dump of an earlier run that is found at an absolute
\* path, and by a starved watch.
PassIsEarned ==
    \A i \in DOMAIN report :
        report[i] = "pass" =>
            \/ defects \cap Proves(section_ids[i]) = {}
            \/ section_ids[i] = "config_mapping" /\ subject.dump = "stale"
            \/ section_ids[i] \in starved

\* A sound adapter is told so: with nothing wrong and on a machine that does
\* not interfere, no section fails, so none leaves behind what another trips
\* over, and the checks agree with what the sections before have committed.
SoundIsConformant ==
    (/\ defects = {} /\ troubles = 0 /\ subject.registers /\ subject.starts
     /\ subject.file = "readable" /\ (subject.env => subject.dump # "none"))
        => is_conformant

\* What the declaration offers is not passed over: a section is skipped only
\* for an adapter that has nothing to show there, never because what it
\* declares could not be read.
SkipIsDeclared ==
    \A i \in DOMAIN report :
        report[i] = "not_applicable" =>
            /\ section_ids[i] # "capability_edges"
            /\ subject.launch =>
                CASE section_ids[i] = "lifecycle" -> FALSE
                  [] section_ids[i] = "pause" ->
                        subject.pause \in {"best-effort", "guaranteed"} =>
                            subject.windows /\ subject.pause = "guaranteed"
                  [] section_ids[i] = "config_mapping" -> subject.native \/ ~subject.env
                  [] section_ids[i] = "metering_self_reported" ->
                        subject.source # "self-reported"
                  [] section_ids[i] = "metering_engine_observed" ->
                        subject.source # "engine-observed"
                  [] section_ids[i] = "memory" ->
                        ~subject.memory /\ (subject.native \/ subject.file = "readable")
                  [] section_ids[i] = "interaction" -> subject.interaction = "none"

\* The report is complete, and nothing the kit has started outlives it but a
\* panic of the kit itself.
NothingIsLeft ==
    /\ kit.at \in {"reported", "panicked"} => Len(report) = Len(section_ids)
    /\ kit.at = "reported" => \A n \in Names : inst[n] \notin Live
=============================================================================
