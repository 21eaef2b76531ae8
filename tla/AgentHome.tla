----------------------------- MODULE AgentHome -----------------------------
(***************************************************************************)
(* The record and the directory of one Agent Instance: the row in SQLite   *)
(* and the Agent Home on disk, which no transaction spans.  `Processes'    *)
(* are kt commands or hosts with an engine of their own on the same state  *)
(* directory: each engine serializes its operations behind the registry    *)
(* mutex, so one process runs one operation at a time, and nothing         *)
(* serializes two processes.  An operation is split where it touches the   *)
(* row or the disk again; the process can be killed between two steps.     *)
(*                                                                         *)
(* A config tree is the function from the paths of its leaves (sequences   *)
(* of segments) to their values; no leaf is above another.                 *)
(***************************************************************************)
EXTENDS Naturals, Sequences, SequencesExt, Functions

CONSTANTS
    Adapters,   \* what a manifest declares: [observed, env, file], the last two sets of keys
    Keys,       \* the keys `config set' is tried with
    HomeBounds  \* one per history explored, see HomeBound

VARIABLES
    row,        \* agent_instance + agent_memory_backing, or NoRow
    home,       \* the directory tree, or NoHome
    command,    \* the operation each process is in the middle of
    launched,   \* what the live agent was given, or NoAgent
    rows,       \* rows ever created (they name a registration)
    spoiled,    \* a kill or a failed rollback has cut a registration short
    limits      \* the bounds of this history

homeVars == <<row, home, command, launched, rows, spoiled, limits>>

NoRow   == [id |-> 0]
NoHome  == [config |-> "no home"]
NoAgent == [config |-> "no agent"]
Absent  == [snapshot |-> "absent"]
Torn    == [snapshot |-> "torn"]
Empty   == [k \in {} |-> ""]
Idle    == [at |-> "idle"]

Identity   == <<"name">>
MemoryDir  == <<"memory", "dir">>
BaseUrl    == <<"metering", "base_url">>
Upstream   == <<"metering", "upstream_base_url">>
KNOWN_KEYS == {<<"model">>, MemoryDir, BaseUrl, Upstream}

Processes == 1..2

HomeBound == [processes : 1..2, rows : Nat, sets : Nat, faults : Nat, crashes : Nat,
              env : BOOLEAN, secrets : {"absent", "holds", "lacks", "loose"}]

\* A key is the path of its segments.
HomeConstants == HomeBounds \subseteq HomeBound /\ Keys \subseteq Seq(STRING)

(***************************************************************************)
(* Config trees.                                                           *)
(***************************************************************************)
is_pass_through(k) == Len(k) > 1 /\ k[1] = "agent"

\* An empty segment is no key; another one is known or passes through.
validate_write(k) == "" \notin Range(k) /\ (k \in KNOWN_KEYS \/ is_pass_through(k))

Without(t, S) == Restrict(t, DOMAIN t \ S)

Leaf(k, v) == [l \in {k} |-> v]

\* A tree laid over another.
Over(f, g) == [l \in DOMAIN f \cup DOMAIN g |-> IF l \in DOMAIN f THEN f[l] ELSE g[l]]

\* A scalar where the key needs a table: the write is refused.
WriteShapeConflict(t, k) == \E l \in DOMAIN t : IsStrictPrefix(l, k)

\* A broken set_dotted: the table on the way is created afresh.
set_dotted_fresh(t, k, v) ==
    Over(Leaf(k, v), Without(t, {l \in DOMAIN t : l[1] = k[1]}))

\* The leaf is inserted; a table that stood there goes with its leaves.
set_dotted(t, k, v) == Over(Leaf(k, v), Without(t, {l \in DOMAIN t : IsPrefix(k, l)}))

\* The stronger layer's shape wins: a leaf of the weaker one survives only
\* beside those of the stronger.  The engine and kind layers are empty.
resolve(weak, strong) ==
    Over(strong, Without(weak, {l \in DOMAIN weak :
                                   \E s \in DOMAIN strong : IsPrefix(s, l) \/ IsPrefix(l, s)}))

effective_config(t, overrides) == Without(resolve(t, overrides), {Identity})

(***************************************************************************)
(* Secrets: a leaf holding a reference is masked wherever it is shown and  *)
(* replaced by the cleartext where it is delivered.  The environment is    *)
(* asked before the file; a file others can read is refused.               *)
(***************************************************************************)
display(v) == IF v = "secret" THEN "mask" ELSE v

secret_resolves == limits.env \/ limits.secrets = "holds"

expose(v) == IF v = "secret" THEN "cleartext" ELSE v

(***************************************************************************)
(* What a start computes from the row and the home.                        *)
(***************************************************************************)
managed(r) == r.backing = "filesystem"

\* The engine's own layer: the loopback URL and the managed directory.
invocation_overrides(observed, r) ==
    [k \in (IF observed THEN {BaseUrl} ELSE {}) \cup (IF managed(r) THEN {MemoryDir} ELSE {})
        |-> "engine"]

\* The fold that is shown and snapshotted never carries the reserved key.
stripped(t) == Without(effective_config(t, Empty), {MemoryDir})

\* A broken fold: the hand-set key is stripped once only.
mapping_effective_unstripped(t, observed, r) ==
    LET o == invocation_overrides(observed, r)
    IN  IF o = Empty THEN stripped(t) ELSE effective_config(t, o)

\* With an engine layer every layer is folded again, and a hand-set key is
\* back: it is stripped a second time unless the engine supplies it.
mapping_effective(t, observed, r) ==
    LET o == invocation_overrides(observed, r)
        e == IF o = Empty THEN stripped(t) ELSE effective_config(t, o)
    IN  IF managed(r) THEN e ELSE Without(e, {MemoryDir})

\* The leaves the adapter declares a target for, as the agent gets them.
delivered(t, targets) ==
    [k \in {l \in DOMAIN t : l \in targets \/ is_pass_through(l)} |-> expose(t[k])]

(***************************************************************************)
(* Steps.                                                                  *)
(***************************************************************************)
At(p, where) == command[p].at = where

Goto(p, next) == command' = [command EXCEPT ![p] = next]

Done(p) == Goto(p, Idle)

Fails == limits.faults > 0 /\ limits' = [limits EXCEPT !.faults = @ - 1]

\* A missing config.toml and an empty one are the same layer.
NewHome == [config |-> Empty, adapter |-> Absent, memory |-> "absent",
            snapshot |-> Empty, native |-> Empty]

\* create_dir_all
ensure_dir == IF home = NoHome THEN NewHome ELSE home

with_memory ==
    LET h == ensure_dir IN
    IF h.memory = "absent" THEN [h EXCEPT !.memory = "empty"] ELSE h

Resting == row # NoRow /\ row.state = "resting"

(***************************************************************************)
(* register: the row, then the home, config and snapshot, and on a failure *)
(* the row and the whole home again, even one retained from an earlier     *)
(* instance of the name.                                                   *)
(***************************************************************************)
register(p) ==
    /\ At(p, "idle") /\ row = NoRow /\ rows < limits.rows
    /\ rows' = rows + 1
    /\ row' = [id |-> rows + 1, state |-> "resting", backing |-> "none"]
    /\ \E a \in Adapters : Goto(p, [at |-> "make home", adapter |-> a])
    /\ UNCHANGED <<home, launched, spoiled, limits>>

make_home(p) ==
    /\ At(p, "make home")
    /\ home' = ensure_dir
    /\ Goto(p, [command[p] EXCEPT !.at = "seed config"])
    /\ UNCHANGED <<row, launched, rows, spoiled, limits>>

\* write_atomically: the bytes appear under the name by one rename.
write_atomically(t) == home' = [home EXCEPT !.config = t]

seed_config(p) ==
    /\ At(p, "seed config") /\ home # NoHome
    /\ write_atomically(Leaf(Identity, "plain"))
    /\ Goto(p, [command[p] EXCEPT !.at = "truncate snapshot"])
    /\ UNCHANGED <<row, launched, rows, spoiled, limits>>

\* std::fs::write truncates before it writes.
truncate_snapshot(p) ==
    /\ At(p, "truncate snapshot") /\ home # NoHome
    /\ home' = [home EXCEPT !.adapter = Torn]
    /\ Goto(p, [command[p] EXCEPT !.at = "write snapshot"])
    /\ UNCHANGED <<row, launched, rows, spoiled, limits>>

write_snapshot(p) ==
    /\ At(p, "write snapshot")
    /\ home' = IF home = NoHome THEN NoHome ELSE [home EXCEPT !.adapter = command[p].adapter]
    /\ Done(p)
    /\ UNCHANGED <<row, launched, rows, spoiled, limits>>

Materializing == {"make home", "seed config", "truncate snapshot", "write snapshot"}

materialize_fails(p) ==
    /\ command[p].at \in Materializing
    /\ Fails \/ (home = NoHome /\ ~At(p, "make home") /\ UNCHANGED limits)
    /\ Goto(p, [at |-> "roll back row"])
    /\ UNCHANGED <<row, home, launched, rows, spoiled>>

\* A broken rollback: the row is left to the next `remove'.
roll_back_row_skipped(p) ==
    /\ At(p, "roll back row")
    /\ Goto(p, [at |-> "roll back home"])
    /\ UNCHANGED <<row, home, launched, rows, spoiled, limits>>

roll_back_row(p) ==
    /\ At(p, "roll back row")
    /\ \/ row' = NoRow /\ UNCHANGED <<limits, spoiled>>
       \/ Fails /\ spoiled' = TRUE /\ UNCHANGED row      \* RegisterOrphanRow
    /\ Goto(p, [at |-> "roll back home"])
    /\ UNCHANGED <<home, launched, rows>>

roll_back_home(p) ==
    /\ At(p, "roll back home")
    /\ \/ home' = NoHome /\ UNCHANGED limits
       \/ Fails /\ UNCHANGED home
    /\ Done(p)
    /\ UNCHANGED <<row, launched, rows, spoiled>>

(***************************************************************************)
(* remove: the row (and with it the backing) first, then the home if it is *)
(* to be deleted.  A live instance was stopped by Engine::remove.          *)
(***************************************************************************)
remove(p) ==
    /\ At(p, "idle") /\ row # NoRow
    /\ row' = NoRow /\ launched' = NoAgent
    /\ Done(p) \/ Goto(p, [at |-> "delete home"])
    /\ UNCHANGED <<home, rows, spoiled, limits>>

delete_home(p) ==
    /\ At(p, "delete home")
    /\ \/ home' = NoHome /\ UNCHANGED limits
       \/ Fails /\ UNCHANGED home                        \* RemoveLeftoverHome
    /\ Done(p)
    /\ UNCHANGED <<row, launched, rows, spoiled>>

(***************************************************************************)
(* set_config: refused before anything is touched, or the layer is read,   *)
(* the key set in it, and the whole layer written back.                    *)
(***************************************************************************)
instance_config_layer ==
    IF home = NoHome THEN Empty ELSE home.config

set_config(p) ==
    /\ At(p, "idle") /\ row # NoRow /\ limits.sets > 0
    /\ \E k \in Keys, v \in {"plain", "secret"} :
          /\ validate_write(k) /\ ~WriteShapeConflict(instance_config_layer, k)
          /\ Goto(p, [at |-> "write config", key |-> k,
                      table |-> set_dotted(instance_config_layer, k, v)])
    /\ limits' = [limits EXCEPT !.sets = @ - 1]
    /\ UNCHANGED <<row, home, launched, rows, spoiled>>

write_config(p) ==
    /\ At(p, "write config")
    /\ \/ home # NoHome /\ write_atomically(command[p].table) /\ UNCHANGED limits
       \/ home = NoHome /\ UNCHANGED <<home, limits>>
       \/ Fails /\ UNCHANGED home
    /\ Done(p)
    /\ UNCHANGED <<row, launched, rows, spoiled>>

(***************************************************************************)
(* attach_memory and detach_memory: the guards, the directory, the row.    *)
(***************************************************************************)
attach_memory(p) ==
    /\ At(p, "idle") /\ Resting
    /\ \E kind \in {"filesystem", "native"} :
          /\ row.backing \in {"none", kind}                \* else KindConflict
          /\ home' = IF kind = "filesystem" THEN with_memory ELSE home
          /\ IF row.backing = "none" THEN Goto(p, [at |-> "attach", kind |-> kind]) ELSE Done(p)
    /\ UNCHANGED <<row, launched, rows, spoiled, limits>>

attach(p) ==
    /\ At(p, "attach")
    /\ \/ row # NoRow /\ row' = [row EXCEPT !.backing = command[p].kind] /\ UNCHANGED limits
       \/ row = NoRow /\ UNCHANGED <<row, limits>>
       \/ Fails /\ UNCHANGED row                         \* the directory stays
    /\ Done(p)
    /\ UNCHANGED <<home, launched, rows, spoiled>>

detach_memory(p) ==
    /\ At(p, "idle") /\ Resting
    /\ Goto(p, [at |-> "detach"])
    /\ UNCHANGED <<row, home, launched, rows, spoiled, limits>>

clear_memory_backing(p) ==
    /\ At(p, "detach")
    /\ row' = IF row = NoRow THEN NoRow ELSE [row EXCEPT !.backing = "none"]
    /\ Done(p)
    /\ UNCHANGED <<home, launched, rows, spoiled, limits>>

(***************************************************************************)
(* start, up to the first transition: everything that can fail comes       *)
(* before the row changes.                                                 *)
(***************************************************************************)
start(p) ==
    /\ At(p, "idle") /\ Resting /\ home # NoHome
    /\ home.adapter \in Adapters
    /\ LET a == home.adapter
           t == instance_config_layer
           e == mapping_effective(t, a.observed, row)
       IN  /\ home' = IF managed(row) THEN with_memory ELSE home
           /\ IF (a.observed => Upstream \in DOMAIN stripped(t))
                 /\ ("secret" \in Range(e) => secret_resolves)
              THEN Goto(p, [at |-> "render", env |-> delivered(e, a.env),
                            file |-> [k \in DOMAIN e \cap a.file |-> expose(e[k])],
                            shown |-> stripped(t), managed |-> managed(row)])
              ELSE Done(p)                              \* refused, nothing launched
    /\ UNCHANGED <<row, launched, rows, spoiled, limits>>

\* write_config_file: a document is written only if some leaf goes into it.
render(p) ==
    /\ At(p, "render")
    /\ \/ /\ home # NoHome
          /\ home' = IF command[p].file = Empty THEN home
                     ELSE [home EXCEPT !.native = command[p].file]
          /\ Goto(p, [command[p] EXCEPT !.at = "show"])
          /\ UNCHANGED limits
       \/ home = NoHome /\ Done(p) /\ UNCHANGED <<home, limits>>
       \/ Fails /\ Done(p) /\ UNCHANGED home
    /\ UNCHANGED <<row, launched, rows, spoiled>>

write_effective_config_snapshot(p) ==
    /\ At(p, "show")
    /\ \/ /\ home # NoHome
          /\ home' = [home EXCEPT !.snapshot =
                         [k \in DOMAIN command[p].shown |-> display(command[p].shown[k])]]
          /\ Goto(p, [command[p] EXCEPT !.at = "launch"])
          /\ UNCHANGED limits
       \/ home = NoHome /\ Done(p) /\ UNCHANGED <<home, limits>>
       \/ Fails /\ Done(p) /\ UNCHANGED home
    /\ UNCHANGED <<row, launched, rows, spoiled>>

\* The agent reads its environment and whatever native file is there.
launch(p) ==
    /\ At(p, "launch")
    /\ IF row = NoRow THEN UNCHANGED <<row, launched>>
       ELSE /\ row' = [row EXCEPT !.state = "live"]
            /\ launched' = [config |-> command[p].env,
                            native |-> IF home = NoHome THEN Empty ELSE home.native,
                            shown |-> command[p].shown, managed |-> command[p].managed]
    /\ Done(p)
    /\ UNCHANGED <<home, rows, spoiled, limits>>

stop(p) ==
    /\ At(p, "idle") /\ row # NoRow /\ row.state = "live"
    /\ row' = [row EXCEPT !.state = "resting"] /\ launched' = NoAgent
    /\ UNCHANGED <<home, command, rows, spoiled, limits>>

\* The agent keeps something in the directory it was handed.
agent_remembers ==
    /\ launched # NoAgent /\ home # NoHome /\ home.memory # "absent" /\ launched.managed
    /\ home' = [home EXCEPT !.memory = "notes"]
    /\ UNCHANGED <<row, command, launched, rows, spoiled, limits>>

\* kt is killed between two steps.
killed(p) ==
    /\ ~At(p, "idle") /\ limits.crashes > 0
    /\ limits' = [limits EXCEPT !.crashes = @ - 1]
    /\ spoiled' = (spoiled \/ command[p].at \in Materializing \cup {"roll back row"})
    /\ Done(p)
    /\ UNCHANGED <<row, home, launched, rows>>

HomeInit ==
    /\ limits \in HomeBounds
    /\ row = NoRow /\ home = NoHome /\ launched = NoAgent
    /\ command = [p \in 1..limits.processes |-> Idle]
    /\ rows = 0 /\ spoiled = FALSE

Registering(p) == register(p) \/ make_home(p) \/ seed_config(p) \/ truncate_snapshot(p)
                  \/ write_snapshot(p) \/ materialize_fails(p) \/ roll_back_row(p)
                  \/ roll_back_home(p)

Starting(p) == start(p) \/ render(p) \/ write_effective_config_snapshot(p) \/ launch(p)

HomeNext ==
    \/ \E p \in DOMAIN command :
          \/ Registering(p) \/ remove(p) \/ delete_home(p)
          \/ set_config(p) \/ write_config(p)
          \/ attach_memory(p) \/ attach(p) \/ detach_memory(p) \/ clear_memory_backing(p)
          \/ Starting(p) \/ stop(p) \/ killed(p)
    \/ agent_remembers

HomeSpec == HomeInit /\ [][HomeNext]_homeVars

-----------------------------------------------------------------------------
(***************************************************************************)
(* Properties.                                                             *)
(***************************************************************************)
IsTree(t) ==
    /\ DOMAIN t \subseteq Keys \cup {Identity, MemoryDir, BaseUrl}
    /\ \A k, l \in DOMAIN t : ~IsStrictPrefix(k, l)
    /\ Range(t) \subseteq {"plain", "secret", "mask", "cleartext", "engine"}

\* The rows, homes and agents that can be at all.
HomeTypeOK ==
    /\ row = NoRow \/ row \in [id : 1..limits.rows, state : {"resting", "live"},
                               backing : {"none", "filesystem", "native"}]
    /\ home = NoHome \/ /\ IsTree(home.config) /\ IsTree(home.snapshot) /\ IsTree(home.native)
                        /\ home.adapter \in Adapters \cup {Absent, Torn}
                        /\ home.memory \in {"absent", "empty", "notes"}
    /\ launched # NoAgent => IsTree(launched.config) /\ IsTree(launched.native)
    /\ rows \in 0..limits.rows /\ spoiled \in BOOLEAN

AllIdle == \A p \in DOMAIN command : At(p, "idle")

OneProcess == limits.processes = 1

(***************************************************************************)
(* A registration that fails part of the way leaves neither its row nor a  *)
(* half-made home, and one that succeeds leaves both whole: with one       *)
(* engine, and unless a kill or a failed rollback cut it short, a          *)
(* registered instance has a home that can be read and started.            *)
(***************************************************************************)
RegisteredMeansUsable ==
    OneProcess /\ AllIdle /\ ~spoiled /\ row # NoRow =>
        home # NoHome /\ home.adapter \in Adapters /\ Identity \in DOMAIN home.config

(***************************************************************************)
(* What a live agent was handed: it never sees a masked value or a bare    *)
(* reference, the memory directory only ever comes from the engine and     *)
(* only with a filesystem backing, and the snapshot shows the config of    *)
(* this run with every secret masked.                                      *)
(***************************************************************************)
LaunchIsHonest ==
    launched # NoAgent /\ OneProcess =>
        /\ Range(launched.config) \cup Range(launched.native) \subseteq
              {"plain", "cleartext", "engine"}
        /\ MemoryDir \in DOMAIN launched.config =>
              launched.managed /\ launched.config[MemoryDir] = "engine"
        /\ MemoryDir \in DOMAIN launched.native => launched.native[MemoryDir] = "engine"
        /\ home # NoHome => home.snapshot = [k \in DOMAIN launched.shown |->
                                              display(launched.shown[k])]
        /\ home # NoHome => "cleartext" \notin Range(home.snapshot)

(***************************************************************************)
(* Nothing is lost on the way.  A config write changes its key (and what a *)
(* table of that name held) and nothing else: a refused write changes      *)
(* nothing, a sibling survives, and no scalar above the key is destroyed.  *)
(* What the agent kept in its memory directory survives restarts, config   *)
(* writes, detaching, attaching again, removal with --retain and a new     *)
(* registration: only a deletion the operator asked for, or the rollback   *)
(* of a failed registration, loses it.                                     *)
(***************************************************************************)
KeepsSiblings ==
    \A p \in DOMAIN command : OneProcess /\ At(p, "write config") /\ home # NoHome
      /\ home'.config # home.config =>
        \A l \in DOMAIN home.config :
            \/ IsPrefix(command[p].key, l)
            \/ l \in DOMAIN home'.config /\ home'.config[l] = home.config[l]

KeepsMemory ==
    home # NoHome /\ home.memory = "notes" =>
        \/ home' # NoHome /\ home'.memory = "notes"
        \/ \E p \in DOMAIN command : At(p, "delete home") \/ At(p, "roll back home")

NothingIsLost == [][KeepsSiblings /\ KeepsMemory]_homeVars

(***************************************************************************)
(* What the documentation says and the code does not do.                   *)
(***************************************************************************)

(***************************************************************************)
(* docs/commands.md:359 says of metering.base_url and memory.dir: "these   *)
(* can only ever be delivered by the engine itself".  The start strips a   *)
(* hand-set memory.dir and not a hand-set metering.base_url.               *)
(***************************************************************************)
ReservedIsEngineDelivered ==
    launched # NoAgent =>
        \A k \in {MemoryDir, BaseUrl} \cap DOMAIN launched.config : launched.config[k] = "engine"

(***************************************************************************)
(* registry.rs, at set_dotted: "a single instance-layer write must never   *)
(* clobber its own existing value".  Setting a key a table stands under    *)
(* drops the whole table.                                                  *)
(***************************************************************************)
SetNeverClobbers ==
    [][ \A p \in DOMAIN command : OneProcess /\ At(p, "write config") /\ home # NoHome
          /\ home'.config # home.config =>
            \A l \in DOMAIN home.config : l = command[p].key \/ l \in DOMAIN home'.config
      ]_homeVars

(***************************************************************************)
(* docs/commands.md:215: --retain keeps the Agent Home on disk; the        *)
(* rollback of a later registration of the name deletes it.                *)
(***************************************************************************)
RetainedIsKept ==
    [][ home # NoHome /\ home.memory = "notes" =>
          \/ home' # NoHome /\ home'.memory = "notes"
          \/ \E p \in DOMAIN command : At(p, "delete home")
      ]_homeVars

(***************************************************************************)
(* A detached memory directory is out of the agent's sight.  A native file *)
(* no leaf goes into any more is not rewritten, and still names it.        *)
(***************************************************************************)
DetachedIsNotDelivered ==
    launched # NoAgent /\ MemoryDir \in DOMAIN launched.native => launched.managed

=============================================================================
