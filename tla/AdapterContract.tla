-------------------------- MODULE AdapterContract --------------------------
(***************************************************************************)
(* What an adapter declares, what the engine keeps of it, and what a start *)
(* makes of both.  A manifest is a file its author may edit, break or      *)
(* delete at any time; registration reads it once and snapshots it in the  *)
(* Agent Home, and a start takes the launch from the snapshot (or, from a  *)
(* snapshot of before there was one, from the file) and the config mapping *)
(* always from the file as it is now.  A builtin adapter is compiled in    *)
(* and cannot drift.                                                       *)
(*                                                                         *)
(* One instance.  A manifest is a record of what the checks tell apart:    *)
(* whether it parses, its contract version (a major, "partial" or          *)
(* "absent"), kind, launch, levels on this operating system and another,   *)
(* metering source, and the native target of each unified key.             *)
(***************************************************************************)
EXTENDS Naturals, FiniteSets, Functions

CONSTANTS
    Manifests,      \* what the author may write
    Builtins,       \* the native kinds: what each declares in code
    CONTRACT_MAJOR, \* the major of CONTRACT_VERSION
    MaxEdits, MaxSets, MaxRegistrations, MaxFaults

\* The engine's own contract version is a version (CONTRACT_VERSION, lib.rs:104).
ContractConstants == CONTRACT_MAJOR \notin {"absent", "partial"}

VARIABLES
    disk,       \* adapter.toml, or NoFile
    snapshot,   \* adapter.json of the instance, or NoSnapshot
    config,     \* the instance layer: unified key -> "plain" or "secret"
    backing,    \* a filesystem Memory Backing is attached
    starting,   \* the start under way, or NoStart
    agent,      \* what the live agent was given, or NotStarted
    escaped,    \* a file outside the Agent Home was written
    left        \* what the bounds leave

contractVars == <<disk, snapshot, config, backing, starting, agent, escaped, left>>

NoFile     == [parses |-> FALSE]
NoSnapshot == [kind |-> "none"]
NoStart    == [at |-> "none"]
NotStarted == [exec |-> "none"]
NoLaunch   == [exec |-> "none"]

Memory      == "memory.dir"
KnownKeys   == {"model", Memory}
PassThrough == {"agent.A"}      \* delivered to the environment variable A
OsIds       == {"this", "other"}

-----------------------------------------------------------------------------
(***************************************************************************)
(* The contract crate: what a manifest must be.                            *)
(***************************************************************************)

\* A declaration that promises a capability nowhere is none.
has_any_support(levels) == \E os \in OsIds, c \in DOMAIN levels : levels[c][os] # "unsupported"

\* What is not declared is unsupported.
support(levels, c, os) == IF c \in DOMAIN levels THEN levels[c][os] ELSE "unsupported"

\* Relative, without `..', `.', an empty segment or a drive.
is_safe_relative_path(path) == path # "outside"

valid_rule(t) == CASE t.to = "env" -> t.name # ""
                   [] t.to = "flag" -> t.flag # ""
                   [] t.to = "file" -> is_safe_relative_path(t.path)

\* ConfigMapping::validate
valid_mapping(rules) == \A k \in DOMAIN rules : valid_rule(rules[k])

is_semver(v) == v \notin {"absent", "partial"}

\* Manifest::validate: the first section that fails is named.
validate(m) ==
    /\ is_semver(m.version)
    /\ m.kind = "ok"
    /\ m.start # NoLaunch
    /\ has_any_support(m.levels)
    /\ m.source # "absent"
    /\ valid_mapping(m.rules)

\* Majors only: a prerelease and any minor of the same major load.
negotiate_contract_version(v) == is_semver(v) /\ v = CONTRACT_MAJOR

\* from_toml_str: an unknown key or enum value fails here.
Readable(m) == m # NoFile /\ m.parses

-----------------------------------------------------------------------------
(***************************************************************************)
(* The engine's resolution of an adapter.                                  *)
(***************************************************************************)

\* resolve_manifest: read, parsed, validated, negotiated.
resolve_manifest(m) == Readable(m) /\ validate(m) /\ negotiate_contract_version(m.version)

\* Both kinds clear the same bar.
enforce_registration_invariants(levels) == has_any_support(levels)

Snapshot(kind, d, manifest) ==
    [kind |-> kind, manifest |-> manifest, start |-> d.start, levels |-> d.levels,
     source |-> d.source, version |-> IF manifest THEN d.version ELSE CONTRACT_MAJOR,
     rules |-> d.rules]

native_launch(kind) == Builtins[kind].start

\* A broken fallback: the file is taken as it is.
resolve_start_launch_ungated(s) ==
    IF ~s.manifest THEN native_launch(s.kind)
    ELSE IF Readable(disk) THEN disk.start ELSE NoLaunch

\* The compiled-in table, or the file when the snapshot carries no launch: the
\* file is parsed and negotiated again, and not validated.
resolve_start_launch(s) ==
    IF ~s.manifest THEN native_launch(s.kind)
    ELSE IF Readable(disk) /\ negotiate_contract_version(disk.version) THEN disk.start
    ELSE NoLaunch

\* A broken re-read: validation is left to registration.
resolve_config_mapping_trusting(s) ==
    IF s.manifest THEN (IF Readable(disk) THEN {disk.rules} ELSE {})
    ELSE {Builtins[s.kind].rules}

\* The set of mappings a start may use: none if the file cannot be read or a
\* rule is malformed.
resolve_config_mapping(s) ==
    LET rules == IF s.manifest THEN (IF Readable(disk) THEN {disk.rules} ELSE {})
                 ELSE {Builtins[s.kind].rules}
    IN  {r \in rules : valid_mapping(r)}

-----------------------------------------------------------------------------
(***************************************************************************)
(* apply_config_mapping: each leaf to its native target.                   *)
(***************************************************************************)

\* A table laid over another.
Overlay(f, g) == [x \in DOMAIN f \cup DOMAIN g |-> IF x \in DOMAIN f THEN f[x] ELSE g[x]]

\* The leaves of a start: the operator's, and the engine's memory directory.
\* Without a backing a hand-set memory.dir is stripped.
effective_mapping(c, b) ==
    IF b THEN Overlay([k \in {Memory} |-> "managed"], c)
    ELSE Restrict(c, DOMAIN c \ {Memory})

Targeted(leaves, rules, to) ==
    {k \in (DOMAIN leaves \cap DOMAIN rules) \ PassThrough : rules[k].to = to}

\* One leaf of the environment, if it is set and delivered there.
Var(leaves, rules, k) ==
    IF k \in PassThrough \cap DOMAIN leaves THEN [v \in {"A"} |-> leaves[k]]
    ELSE IF k \in Targeted(leaves, rules, "env") THEN [v \in {rules[k].name} |-> leaves[k]]
    ELSE [v \in {} |-> ""]

\* The environment: the launch's, then the leaves in the order of their names,
\* each over what came before.
apply_env(base, leaves, rules) ==
    Overlay(Var(leaves, rules, "model"),
         Overlay(Var(leaves, rules, Memory), Overlay(Var(leaves, rules, "agent.A"), base)))

\* A broken report: the mapping of the registration is asked.
secret_flag_keys_registered(leaves, rules) ==
    {k \in Targeted(leaves, snapshot.rules, "flag") : leaves[k] = "secret"}

\* Secrets whose cleartext goes on the command line.
secret_flag_keys(leaves, rules) ==
    {k \in Targeted(leaves, rules, "flag") : leaves[k] = "secret"}

\* Launch variables whose value the mapping replaced.
shadowed_env_keys(before, after) == {v \in DOMAIN before : after[v] # before[v]}

\* An attached directory that the agent is not told of.
memory_delivery_notice(b, rules) == b /\ Memory \notin DOMAIN rules

\* write_config_file joins a path onto the home.
Outside(leaves, rules) ==
    \E k \in Targeted(leaves, rules, "file") : rules[k].path = "outside"

-----------------------------------------------------------------------------
(***************************************************************************)
(* Steps.                                                                  *)
(***************************************************************************)
Spend(what) == left[what] > 0 /\ left' = [left EXCEPT ![what] = @ - 1]

AtRest == starting = NoStart /\ agent = NotStarted

\* The author writes the manifest, or takes it away.
edit ==
    /\ Spend("edits")
    /\ disk' \in Manifests \cup {NoFile}
    /\ UNCHANGED <<snapshot, config, backing, starting, agent, escaped>>

\* A rejected adapter leaves nothing behind: resolution comes before the row.
register_manifest ==
    /\ snapshot = NoSnapshot /\ resolve_manifest(disk)
    /\ enforce_registration_invariants(disk.levels)
    /\ Spend("registrations")
    /\ snapshot' = Snapshot("manifest", disk, TRUE)
    /\ config' = <<>> /\ backing' = FALSE
    /\ UNCHANGED <<disk, starting, agent, escaped>>

register_native(kind) ==
    /\ snapshot = NoSnapshot /\ enforce_registration_invariants(Builtins[kind].levels)
    /\ Spend("registrations")
    /\ snapshot' = Snapshot(kind, Builtins[kind], FALSE)
    /\ config' = <<>> /\ backing' = FALSE
    /\ UNCHANGED <<disk, starting, agent, escaped>>

remove_instance ==
    /\ AtRest /\ snapshot # NoSnapshot
    /\ snapshot' = NoSnapshot
    /\ UNCHANGED <<disk, config, backing, starting, agent, escaped, left>>

\* set_config warns if the key has a flag target now (best effort) and never
\* refuses for it.
set_instance_config(k, v) ==
    /\ snapshot # NoSnapshot /\ Spend("sets")
    /\ config' = Overlay([l \in {k} |-> v], config)
    /\ UNCHANGED <<disk, snapshot, backing, starting, agent, escaped>>

attach_backing ==
    /\ AtRest /\ snapshot # NoSnapshot /\ ~backing
    /\ backing' = TRUE
    /\ UNCHANGED <<disk, snapshot, config, starting, agent, escaped, left>>

\* start, first read: the snapshot, and the file only without a launch in it.
\* A detached start of an engine-observed instance is refused here.
resolve_launch(detach) ==
    /\ AtRest /\ snapshot # NoSnapshot
    /\ ~(detach /\ snapshot.source = "engine-observed")
    /\ LET l == IF snapshot.start # NoLaunch THEN snapshot.start
                ELSE resolve_start_launch(snapshot)
       IN  /\ l # NoLaunch
           /\ starting' = [at |-> "mapping", launch |-> l,
                           version |-> IF snapshot.start # NoLaunch \/ ~snapshot.manifest
                                       THEN snapshot.version ELSE disk.version,
                           stdin |-> support(snapshot.levels, "interaction", "this")
                                        \in {"guaranteed", "best-effort"}]
    /\ UNCHANGED <<disk, snapshot, config, backing, agent, escaped, left>>

\* Second read: the mapping, then the leaves, which are delivered and the
\* notices given.  An unreadable file or a malformed rule refuses the start.
apply_config_mapping ==
    /\ starting.at = "mapping"
    /\ \/ resolve_config_mapping(snapshot) = {} /\ starting' = NoStart
          /\ UNCHANGED escaped
       \/ \E rules \in resolve_config_mapping(snapshot) :
             LET leaves == effective_mapping(config, backing)
                 env    == apply_env(starting.launch.env, leaves, rules)
             IN  /\ starting' =
                        [at |-> "spawn", version |-> starting.version, rules |-> rules,
                         exec |-> starting.launch.exec, env |-> env,
                         base |-> starting.launch.env, stdin |-> starting.stdin,
                         flags |-> [k \in Targeted(leaves, rules, "flag") |-> leaves[k]],
                         memory |-> backing,
                         told |-> [argv |-> secret_flag_keys(leaves, rules),
                                   shadow |-> shadowed_env_keys(starting.launch.env, env),
                                   memory |-> memory_delivery_notice(backing, rules)]]
                 /\ escaped' = (escaped \/ Outside(leaves, rules))
    /\ UNCHANGED <<disk, snapshot, config, backing, agent, left>>

\* A file cannot be rendered, or the snapshot of the configuration written.
start_fails ==
    /\ starting # NoStart /\ Spend("faults")
    /\ starting' = NoStart
    /\ UNCHANGED <<disk, snapshot, config, backing, agent, escaped>>

spawn ==
    /\ starting.at = "spawn"
    /\ agent' = starting /\ starting' = NoStart
    /\ UNCHANGED <<disk, snapshot, config, backing, escaped, left>>

stop_instance ==
    /\ agent # NotStarted /\ agent' = NotStarted
    /\ UNCHANGED <<disk, snapshot, config, backing, starting, escaped, left>>

\* A registration of before launches were snapshotted and versions negotiated:
\* its snapshot carries no launch, and any version.
LegacySnapshots ==
    {[Snapshot("manifest", m, TRUE) EXCEPT !.start = NoLaunch] :
        m \in {n \in Manifests : n.parses /\ validate(n)}}

ContractInit ==
    /\ disk \in Manifests
    /\ snapshot \in {NoSnapshot} \cup LegacySnapshots
    /\ config = <<>> /\ backing = FALSE
    /\ starting = NoStart /\ agent = NotStarted /\ escaped = FALSE
    /\ left = [edits |-> MaxEdits, sets |-> MaxSets, registrations |-> MaxRegistrations,
               faults |-> MaxFaults]

ContractNext ==
    \/ edit \/ register_manifest \/ remove_instance \/ attach_backing
    \/ \E kind \in DOMAIN Builtins : register_native(kind)
    \/ \E k \in KnownKeys \cup PassThrough, v \in {"plain", "secret"} : set_instance_config(k, v)
    \/ \E detach \in BOOLEAN : resolve_launch(detach)
    \/ apply_config_mapping \/ start_fails \/ spawn \/ stop_instance

ContractSpec == ContractInit /\ [][ContractNext]_contractVars

-----------------------------------------------------------------------------
(***************************************************************************)
(* Properties.                                                             *)
(***************************************************************************)
ContractTypeOK ==
    /\ disk \in Manifests \cup {NoFile}
    /\ snapshot # NoSnapshot => snapshot.kind \in {"manifest"} \cup DOMAIN Builtins
    /\ DOMAIN config \subseteq KnownKeys \cup PassThrough
    /\ backing \in BOOLEAN /\ escaped \in BOOLEAN
    /\ starting.at \in {"none", "mapping", "spawn"}
    /\ left \in [{"edits", "sets", "registrations", "faults"} -> Nat]

\* Whatever the author does to the file before, between or after the reads, an
\* agent only ever runs a launch taken from a manifest of the engine's own
\* contract major, and no file is rendered outside its home.
OnlyTheContractRuns ==
    /\ agent # NotStarted => negotiate_contract_version(agent.version)
    /\ ~escaped

\* The mapping sends another key to the variable of the memory directory: the
\* validation accepts that, and the key that comes later is delivered.
Displaced(rules) ==
    \E k \in DOMAIN rules \ {Memory} :
        rules[k].to = "env" /\ rules[k].name = rules[Memory].name

\* What a start does that the operator may not expect it says, of this start: a
\* secret on the command line, a launch variable replaced, an attached memory
\* directory the agent is not given because the manifest declares no target for
\* it.  A manifest edited since the key was set, the backing attached or the
\* instance registered changes none of that.
NothingIsDoneSilently ==
    agent # NotStarted =>
        /\ \A k \in DOMAIN agent.flags : agent.flags[k] = "secret" => k \in agent.told.argv
        /\ \A v \in DOMAIN agent.base : agent.env[v] # agent.base[v] => v \in agent.told.shadow
        /\ agent.memory =>
              \/ agent.told.memory
              \/ \E v \in DOMAIN agent.env : agent.env[v] = "managed"
              \/ Memory \in DOMAIN agent.rules /\ agent.rules[Memory].to # "env"
              \/ Displaced(agent.rules)

\* The gate of the contract and the notices, together.
StartIsHonest == OnlyTheContractRuns /\ NothingIsDoneSilently

\* docs/manifest.md:91: "editing the manifest afterward has no effect on an
\* already-registered instance until it is removed and re-registered".  The
\* mapping of every start is read from the file.
RegistrationFreezes ==
    agent # NotStarted /\ snapshot # NoSnapshot => agent.rules = snapshot.rules
=============================================================================
