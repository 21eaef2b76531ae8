----------------------------- MODULE MCDecisions -----------------------------
(***************************************************************************)
(* What the engine decides by itself, on small instances: which poll       *)
(* errors are a crash (PollCorroboration), what an agent is given when it  *)
(* starts (AgentHome), what is taken for that from the adapter             *)
(* (AdapterContract) and which usage is a breach (Budget); what a kt       *)
(* command (Kt) and the conformance kit (Conformance) say of what they     *)
(* did and saw, and the Fleet view of the instances (Fleet).  They share   *)
(* no variable and are checked side by side: a behaviour is one of a       *)
(* single part, chosen in its first state, and the others stay initial     *)
(* (those of the modules extended here) or unused.                         *)
(***************************************************************************)
EXTENDS PollCorroboration, AgentHome, AdapterContract, Budget, Kt, TLC

VARIABLES
    part,
    \* Conformance
    subject, defects, inst, runs, kit, report, troubles, starved,
    \* Fleet
    fleet, spent

kitVars    == <<subject, defects, inst, runs, kit, report, troubles, starved>>
fleetVars  == <<fleet, spent>>
mcVars     == <<part, pollVars, homeVars, contractVars, budgetVars, kitVars, ktVars,
                fleetVars>>

-----------------------------------------------------------------------------
(* Instances and their bounds.                                             *)

\* A budget and a cap for each scope: the empty set is no ceiling.
Ceiling(per_run, cumulative) ==
    [s \in {"per-run", "cumulative"} |-> IF s = "per-run" THEN per_run ELSE cumulative]
Conf(budget, in, out, cap, action) ==
    [budget |-> budget, input_rate |-> in, output_rate |-> out, cap |-> cap,
     action |-> action]
MCConfigs ==
    {Conf(Ceiling({2}, {3}), {3}, {1}, Ceiling({1}, {2}), "stop"),
     Conf(Ceiling({}, {7}), {1}, {3}, Ceiling({}, {2}), "pause"),
     Conf(Ceiling({}, {}), {2}, {}, Ceiling({1}, {}), "warn")}

\* A small row, and one at the top of the range.
MCUsages == {<<2, 1>>, <<15, 15>>}

Adapter(o, e, f) == [observed |-> o, env |-> e, file |-> f]
MCAdapters ==
    {Adapter(FALSE, {<<"memory", "dir">>, <<"metering", "base_url">>}, {}),
     Adapter(TRUE, {<<"memory", "dir">>}, {}),
     Adapter(FALSE, {}, {<<"memory", "dir">>, <<"model">>})}
MCKeys ==
    {<<"agent", "a">>, <<"agent", "a", "b">>, <<"agent", "">>, <<"model">>,
     <<"memory", "dir">>, <<"metering", "base_url">>,
     <<"metering", "upstream_base_url">>, <<"bogus">>}
History(p, r, s, f, c, e, x) ==
    [processes |-> p, rows |-> r, sets |-> s, faults |-> f, crashes |-> c, env |-> e,
     secrets |-> x]
MCHistories ==
    {History(1, 1, 2, 0, 0, FALSE, "holds"), History(1, 1, 1, 0, 0, TRUE, "loose"),
     History(1, 1, 1, 0, 0, FALSE, "loose"), History(1, 2, 1, 2, 1, TRUE, "absent"),
     History(2, 1, 1, 0, 0, FALSE, "absent")}

Env(n) == [to |-> "env", name |-> n]
Flag == [to |-> "flag", flag |-> "--model"]
File(p) == [to |-> "file", path |-> p]
Levels(this, other) ==
    [pause |-> [this |-> "unsupported", other |-> "best-effort"],
     interaction |-> [this |-> this, other |-> other]]
Unsupported == [interaction |-> [this |-> "unsupported", other |-> "unsupported"]]
Launch(x) == [exec |-> x, env |-> ("A" :> "base")]
Declares(version, exec, levels, source, rules) ==
    [parses |-> TRUE, version |-> version, kind |-> "ok", start |-> exec,
     levels |-> levels, source |-> source, rules |-> rules]
Good ==
    Declares("1", Launch("a"), Levels("guaranteed", "guaranteed"), "self-reported",
             ("model" :> Env("A")) @@ ("memory.dir" :> Env("MEM")))
MCManifests ==
    {Good, [Good EXCEPT !.parses = FALSE],
     [Good EXCEPT !.rules = ("model" :> Env("A")) @@ ("memory.dir" :> Env("A"))],
     Declares("1", Launch("b"), Levels("unsupported", "guaranteed"), "engine-observed",
              "model" :> Flag),
     Declares("2", Launch("c"), Levels("guaranteed", "guaranteed"), "self-reported",
              "model" :> File("home")),
     Declares("1", [exec |-> "none"], Unsupported, "absent", "model" :> File("outside")),
     Declares("absent", Launch("d"), Unsupported, "self-reported", <<>>)}
MCBuiltins ==
    [mock |-> [start |-> [exec |-> "none"], levels |-> Levels("guaranteed", "guaranteed"),
               source |-> "self-reported",
               rules |-> ("model" :> Env("MODEL")) @@ ("memory.dir" :> Env("DIR"))],
     hermes |-> [start |-> [exec |-> "hermes", env |-> <<>>],
                 levels |-> Levels("guaranteed", "guaranteed"), source |-> "self-reported",
                 rules |-> "memory.dir" :> Env("HERMES_HOME")]]

\* n: native, l: launchable, p and i: levels, f: what its file is, e: rules for
\* the environment, m: maps memory.dir, d: where its dump goes.
Tested(n, l, src, p, i, f, e, m, d) ==
    [native |-> n, launch |-> l, source |-> src, pause |-> p, interaction |-> i,
     file |-> f, env |-> e, memory |-> m, dump |-> d, windows |-> FALSE,
     registers |-> TRUE, starts |-> TRUE]
Full == Tested(FALSE, TRUE, "self-reported", "guaranteed", "guaranteed", "readable",
               TRUE, TRUE, "fresh")
MCSubjects ==
    {Full, [Full EXCEPT !.starts = FALSE], [Full EXCEPT !.registers = FALSE],
     [Full EXCEPT !.windows = TRUE, !.dump = "stale", !.source = "engine-observed"],
     [Full EXCEPT !.dump = "none", !.pause = "best-effort", !.interaction = "unsupported"],
     [Full EXCEPT !.file = "unreadable", !.pause = "unsupported"],
     [Full EXCEPT !.env = FALSE, !.memory = FALSE, !.pause = "none", !.interaction = "none"],
     Tested(TRUE, TRUE, "self-reported", "best-effort", "best-effort", "readable", FALSE,
            TRUE, "none"),
     Tested(TRUE, FALSE, "self-reported", "guaranteed", "guaranteed", "readable", FALSE,
            FALSE, "none")}
Defects ==
    {"projection", "sequence", "exit code", "qualifier", "no suspension", "env",
     "pass-through", "replay", "totals", "observed", "bypass", "memory env", "attachment",
     "detachment", "stdin"}

K == INSTANCE Conformance WITH
        Subjects <- MCSubjects, DefectSets <- {{}} \cup {{d} : d \in Defects},
        MaxTroubles <- 2

Declaring(o, r, p, i) ==
    [observed |-> o, resolves |-> r, pause |-> p, interaction |-> i]
MCDeclarations ==
    {Declaring(FALSE, TRUE, "guaranteed", "guaranteed"),
     Declaring(TRUE, TRUE, "best-effort", "unsupported"),
     Declaring(FALSE, FALSE, "unsupported", "guaranteed"),
     Declaring(FALSE, TRUE, "unsupported", "best-effort")}

FleetConf(budget, cap, rate, action) ==
    [budget |-> budget, cap |-> cap, rate |-> rate, action |-> action]
MCFleetConfs ==
    {FleetConf(Ceiling({2}, {3}), Ceiling({}, {4}), {2}, "stop"),
     FleetConf(Ceiling({2}, {}), Ceiling({1}, {}), {}, "warn")}

\* Reads of one instance fail, the batch, or both; which instance is immaterial.
Fail(reads) == {"a"} \X reads
MCBroken ==
    {{}, {<<"all", "records">>}, Fail({"config"}),
     Fail({"config again", "events"}), Fail({"totals", "run cost"}),
     Fail({"run totals", "cost", "record"}),
     {<<"all", "records">>}
        \cup Fail({"record", "events", "totals", "run totals", "config", "cost",
                   "run cost", "config again", "source"})}

F == INSTANCE Fleet WITH
        Names <- {"a", "b"}, Configs <- MCFleetConfs, Broken <- MCBroken, U64MAX <- 3,
        Bounds <- [a |-> [rows |-> 2, edits |-> 1, failures |-> 2],
                   b |-> [rows |-> 1, edits |-> 0, failures |-> 0]]

ASSUME BudgetConstants /\ ContractConstants /\ HomeConstants /\ KtConstants

-----------------------------------------------------------------------------
Unused(v) == v = "unused"

KitUnused ==
    Unused(subject) /\ Unused(defects) /\ Unused(inst) /\ Unused(runs) /\ Unused(kit)
    /\ Unused(report) /\ Unused(troubles) /\ Unused(starved)
FleetUnused == Unused(fleet) /\ Unused(spent)

MCInit ==
    /\ part \in {"poll", "home", "adapter", "budget", "kit", "kt", "fleet"}
    /\ PollInit
    /\ HomeInit /\ (part # "home" => limits = CHOOSE b \in HomeBounds : TRUE)
    /\ ContractInit
    /\ part # "adapter" => disk = (CHOOSE m \in Manifests : TRUE) /\ snapshot = NoSnapshot
    /\ KtInit /\ (part # "kt" => adapter = CHOOSE a \in Declarations : TRUE)
    /\ BudgetInit /\ (part # "budget" => effective = CHOOSE c \in Configs : TRUE)
    /\ IF part = "kit" THEN K!ConformanceInit ELSE KitUnused
    /\ IF part = "fleet" THEN F!FleetInit ELSE FleetUnused

MCNext ==
    \/ part = "poll" /\ PollNext
       /\ UNCHANGED <<part, homeVars, contractVars, budgetVars, kitVars, ktVars, fleetVars>>
    \/ part = "home" /\ HomeNext
       /\ UNCHANGED <<part, pollVars, contractVars, budgetVars, kitVars, ktVars, fleetVars>>
    \/ part = "adapter" /\ ContractNext
       /\ UNCHANGED <<part, pollVars, homeVars, budgetVars, kitVars, ktVars, fleetVars>>
    \/ part = "budget" /\ BudgetNext
       /\ UNCHANGED <<part, pollVars, homeVars, contractVars, kitVars, ktVars, fleetVars>>
    \/ part = "kit" /\ K!ConformanceNext
       /\ UNCHANGED <<part, pollVars, homeVars, contractVars, budgetVars, ktVars, fleetVars>>
    \/ part = "kt" /\ KtNext
       /\ UNCHANGED <<part, pollVars, homeVars, contractVars, budgetVars, kitVars, fleetVars>>
    \/ part = "fleet" /\ F!FleetNext
       /\ UNCHANGED <<part, pollVars, homeVars, contractVars, budgetVars, kitVars, ktVars>>

MCSpec == MCInit /\ [][MCNext]_mcVars

-----------------------------------------------------------------------------
(* Checked besides: BrokenIsNoticed and OutageIsNoCrash                    *)
(* (PollCorroboration), RegisteredMeansUsable, LaunchIsHonest and          *)
(* NothingIsLost (AgentHome), StartIsHonest (AdapterContract),             *)
(* GuardrailHolds (Budget), CommandIsHonest (Kt).                          *)

\* Every variable of the part that is under way has its type.
TypesOK ==
    /\ part = "poll" => PollTypeOK
    /\ part = "home" => HomeTypeOK
    /\ part = "adapter" => ContractTypeOK
    /\ part = "budget" => BudgetTypeOK
    /\ part = "kt" => KtTypeOK
    /\ part = "kit" => K!ConformanceTypeOK
    /\ part = "fleet" => F!FleetTypeOK

\* Conformance: what a verdict of the kit means, and that one is always given.
VerdictIsHonest ==
    part = "kit" => K!PassIsEarned /\ K!SoundIsConformant /\ K!SkipIsDeclared
                       /\ K!NothingIsLeft

\* Fleet: the view agrees with the ledger, the configuration and the failures it
\* shows, and a read that fails takes nothing else with it.
FleetIsHonest == part = "fleet" => F!FleetIsHonest
=============================================================================
