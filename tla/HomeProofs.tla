--------------------------- MODULE HomeProofs ---------------------------
(***************************************************************************)
(* Registration, configuration and launch of an instance: what is          *)
(* registered is usable, what is launched is honest, nothing is lost.      *)
(***************************************************************************)
EXTENDS AgentHome, TLAPS

-----------------------------------------------------------------------------
(***************************************************************************)
(* The invariant.                                                          *)
(***************************************************************************)
Holds(t, V) == \A k \in DOMAIN t : t[k] \in V

Stored    == {"plain", "secret"}
Delivered == {"plain", "cleartext", "engine"}

\* The reserved key has the engine's value or none.
FromEngine(t) == MemoryDir \in DOMAIN t => t[MemoryDir] = "engine"

HomeFields  == {"config", "adapter", "memory", "snapshot", "native"}
RowFields   == {"id", "state", "backing"}
StartFields == {"at", "env", "file", "shown", "managed"}

\* What a home holds: references in the layer, masks in the dump, and what was
\* delivered in the native file.
HomeOK(h) ==
    /\ DOMAIN h = HomeFields
    /\ Holds(h.config, Stored)
    /\ Holds(h.snapshot, {"plain", "mask"})
    /\ Holds(h.native, Delivered) /\ FromEngine(h.native)

Launching == {"render", "show", "launch"}
Undoing   == {"roll back home", "delete home"}
Settled   == {"idle", "write config", "attach", "detach"} \cup Launching

\* What an agent is handed.
GivenOK(env, m) ==
    Holds(env, Delivered) /\ FromEngine(env) /\ (MemoryDir \in DOMAIN env => m)

\* What a process carries from one step of its operation to the next.
CommandOK(c) ==
    /\ c.at \in Settled \cup Materializing \cup Undoing \cup {"roll back row"}
    /\ c.at \in Materializing => DOMAIN c = {"at", "adapter"} /\ c.adapter \in Adapters
    /\ c.at = "write config" => Holds(c.table, Stored) /\ ~IsPrefix(c.key, Identity)
    /\ c.at \in Launching =>
          /\ DOMAIN c = StartFields
          /\ GivenOK(c.env, c.managed)
          /\ Holds(c.file, Delivered) /\ FromEngine(c.file)
          /\ Holds(c.shown, Stored)

AgentOK(a) ==
    GivenOK(a.config, a.managed) /\ Holds(a.native, Delivered) /\ FromEngine(a.native)

Shown(t) == [k \in DOMAIN t |-> display(t[k])]

Whole == home # NoHome /\ home.adapter \in Adapters /\ Identity \in DOMAIN home.config

\* A write keeps every leaf of the layer but those under its key.
KeepsOthers(c, t) ==
    \A l \in DOMAIN t : IsPrefix(c.key, l) \/ (l \in DOMAIN c.table /\ c.table[l] = t[l])

\* One engine: what its operation has done so far.
AgentAlone ==
    launched # NoAgent =>
        /\ row # NoRow /\ row.state = "live" /\ command[1].at \in {"idle", "write config"}
        /\ home # NoHome => home.snapshot = Shown(launched.shown)

ShownAlone ==
    command[1].at = "launch" /\ home # NoHome => home.snapshot = Shown(command[1].shown)

WriteAlone ==
    command[1].at = "write config" /\ home # NoHome => KeepsOthers(command[1], home.config)

UsableAlone ==
    ~spoiled =>
        /\ command[1].at \in Settled /\ row # NoRow => Whole
        /\ command[1].at \in Undoing => row = NoRow
        /\ command[1].at \in {"truncate snapshot", "write snapshot"} =>
              home # NoHome /\ Identity \in DOMAIN home.config

Alone == OneProcess => AgentAlone /\ ShownAlone /\ WriteAlone /\ UsableAlone

BoundsOK ==
    /\ "processes" \in DOMAIN limits
    /\ DOMAIN command = 1..limits.processes
    /\ spoiled \in BOOLEAN

HomeInv ==
    /\ BoundsOK
    /\ row # NoRow => DOMAIN row = RowFields
    /\ home # NoHome => HomeOK(home)
    /\ launched # NoAgent => AgentOK(launched)
    /\ \A p \in DOMAIN command : CommandOK(command[p])
    /\ Alone

-----------------------------------------------------------------------------
(***************************************************************************)
(* Trees.                                                                  *)
(***************************************************************************)

\* A tree holds what its parts hold.
LEMMA OverHolds ==
    ASSUME NEW f, NEW g, NEW V, Holds(f, V), Holds(g, V)
    PROVE  Holds(Over(f, g), V)
  BY DEF Over, Holds

LEMMA WithoutHolds ==
    ASSUME NEW t, NEW S, NEW V, Holds(t, V)
    PROVE  Holds(Without(t, S), V)
  BY DEF Without, Restrict, Holds

LEMMA WithoutLeaves ==
    ASSUME NEW t, NEW S
    PROVE  DOMAIN Without(t, S) = DOMAIN t \ S
  BY DEF Without, Restrict

\* A key that may be written does not stand above the identity.
LEMMA IdentityIsApart ==
    ASSUME HomeConstants, NEW k \in Keys, validate_write(k)
    PROVE  ~IsPrefix(k, Identity)
  <1>1. Len(Identity) = 1 /\ Identity[1] = "name"
    BY DEF Identity
  <1>2. k \in Seq(STRING)
    BY DEF HomeConstants
  <1>3. CASE k = <<"model">>
    <2>1. SubSeq(k, 1, Len(k))[1] = "model"
      BY <1>3
    <2>2. SubSeq(Identity, 1, Len(k))[1] = "name"
      BY <1>3 DEF Identity
    <2> QED
      BY <2>1, <2>2 DEF IsPrefix
  <1>4. CASE Len(k) > 1
    BY <1>1, <1>2, <1>4 DEF IsPrefix
  <1>5. k = <<"model">> \/ k \in {MemoryDir, BaseUrl, Upstream} \/ Len(k) > 1
    BY DEF validate_write, KNOWN_KEYS, is_pass_through
  <1>6. ASSUME k \in {MemoryDir, BaseUrl, Upstream} PROVE Len(k) > 1
    BY <1>6 DEF MemoryDir, BaseUrl, Upstream
  <1> QED
    BY <1>3, <1>4, <1>5, <1>6

\* Setting a key leaves what is not under it.
LEMMA SetKeeps ==
    ASSUME NEW t, NEW k \in Seq(STRING), NEW v \in Stored, Holds(t, Stored)
    PROVE  /\ Holds(set_dotted(t, k, v), Stored)
           /\ \A l \in DOMAIN t : \/ IsPrefix(k, l)
                                  \/ /\ l \in DOMAIN set_dotted(t, k, v)
                                     /\ set_dotted(t, k, v)[l] = t[l]
  <1> DEFINE under == {l \in DOMAIN t : IsPrefix(k, l)}
             rest == Without(t, under)
             leaf == Leaf(k, v)
  <1>1. Holds(leaf, Stored)
    BY DEF Leaf, Holds
  <1>2. Holds(rest, Stored) /\ DOMAIN rest = DOMAIN t \ under
    BY WithoutHolds, WithoutLeaves
  <1>3. set_dotted(t, k, v) = Over(leaf, rest)
    BY DEF set_dotted
  <1>4. ASSUME NEW l \in DOMAIN t, ~IsPrefix(k, l)
        PROVE  /\ l \in DOMAIN set_dotted(t, k, v)
               /\ set_dotted(t, k, v)[l] = t[l]
    <2>1. l \in DOMAIN rest /\ rest[l] = t[l]
      BY <1>4 DEF Without, Restrict
    <2>2. l # k
      BY <1>4 DEF IsPrefix
    <2>3. l \notin DOMAIN leaf
      BY <2>2 DEF Leaf
    <2> HIDE DEF rest, leaf
    <2> QED
      BY <1>3, <2>1, <2>3 DEF Over
  <1> HIDE DEF rest, leaf
  <1>5. Holds(set_dotted(t, k, v), Stored)
    BY <1>1, <1>2, <1>3, OverHolds
  <1> QED
    BY <1>4, <1>5

-----------------------------------------------------------------------------
(***************************************************************************)
(* What a start computes.                                                  *)
(***************************************************************************)

\* What is shown is what is stored.
LEMMA StrippedHolds ==
    ASSUME NEW t, Holds(t, Stored)
    PROVE  Holds(stripped(t), Stored)
  <1> DEFINE weak == Without(t, {l \in DOMAIN t : \E s \in DOMAIN Empty :
                                     IsPrefix(s, l) \/ IsPrefix(l, s)})
             both == Over(Empty, weak)
             bare == Without(both, {Identity})
  <1>1. Holds(weak, Stored)
    BY WithoutHolds
  <1>2. Holds(Empty, Stored)
    BY DEF Holds, Empty
  <1> HIDE DEF weak
  <1>3. Holds(both, Stored)
    BY <1>1, <1>2, OverHolds
  <1> HIDE DEF both
  <1>4. Holds(bare, Stored)
    BY <1>3, WithoutHolds
  <1> DEFINE reserved == {MemoryDir}
  <1>5. stripped(t) = Without(bare, reserved)
    BY DEF stripped, effective_config, resolve, bare, both, weak
  <1> HIDE DEF bare, reserved
  <1> QED
    BY <1>4, <1>5, WithoutHolds

\* The engine's own layer.
LEMMA OverridesAre ==
    ASSUME NEW observed, NEW r
    PROVE  /\ Holds(invocation_overrides(observed, r), {"engine"})
           /\ managed(r) => MemoryDir \in DOMAIN invocation_overrides(observed, r)
  BY DEF Holds, invocation_overrides

\* What is delivered is stored or the engine's, and the reserved key the engine's.
LEMMA MappedIs ==
    ASSUME NEW t, Holds(t, Stored), NEW observed, NEW r
    PROVE  LET e == mapping_effective(t, observed, r)
           IN  /\ Holds(e, Stored \cup {"engine"})
               /\ MemoryDir \in DOMAIN e => managed(r) /\ e[MemoryDir] = "engine"
  <1> DEFINE all == Stored \cup {"engine"}
             o == invocation_overrides(observed, r)
             weak == Without(t, {l \in DOMAIN t : \E s \in DOMAIN o :
                                     IsPrefix(s, l) \/ IsPrefix(l, s)})
             both == Over(o, weak)
             bare == Without(both, {Identity})
             e == IF o = Empty THEN stripped(t) ELSE bare
             reserved == {MemoryDir}
             f == IF managed(r) THEN e ELSE Without(e, reserved)
  <1>1. Holds(t, all) /\ Holds(stripped(t), all)
    BY StrippedHolds DEF Holds
  <1>2. Holds(o, all)
    BY OverridesAre DEF Holds
  <1>3. mapping_effective(t, observed, r) = f
    BY DEF mapping_effective, effective_config, resolve
  <1>4. Holds(weak, all)
    BY <1>1, WithoutHolds
  <1>5. managed(r) => MemoryDir \in DOMAIN o /\ o[MemoryDir] = "engine"
    BY OverridesAre DEF Holds
  <1>6. managed(r) => o # Empty
    BY <1>5 DEF Empty
  <1> HIDE DEF o, weak
  <1>7. Holds(both, all)
    BY <1>2, <1>4, OverHolds
  <1>8. managed(r) => both[MemoryDir] = "engine"
    BY <1>5 DEF Over
  <1> HIDE DEF both
  <1>9. Holds(bare, all)
    BY <1>7, WithoutHolds
  <1>10. managed(r) /\ MemoryDir \in DOMAIN bare => bare[MemoryDir] = "engine"
    BY <1>8 DEF Without, Restrict
  <1> HIDE DEF bare
  <1>11. Holds(e, all)
    BY <1>1, <1>9
  <1>12. managed(r) /\ MemoryDir \in DOMAIN e => e[MemoryDir] = "engine"
    BY <1>6, <1>10
  <1>13. MemoryDir \in reserved
    OBVIOUS
  <1> HIDE DEF e, reserved
  <1>14. Holds(Without(e, reserved), all)
    BY <1>11, WithoutHolds
  <1>15. MemoryDir \notin DOMAIN Without(e, reserved)
    BY <1>13 DEF Without, Restrict
  <1>16. CASE managed(r)
    <2>1. f = e
      BY <1>16
    <2> QED
      BY <1>3, <1>11, <1>12, <1>16, <2>1
  <1>17. CASE ~managed(r)
    <2>1. f = Without(e, reserved)
      BY <1>17
    <2> QED
      BY <1>3, <1>14, <1>15, <2>1
  <1> QED
    BY <1>16, <1>17

\* Exposing a reference makes it a value.
LEMMA ExposedIs ==
    ASSUME NEW v \in Stored \cup {"engine"}
    PROVE  expose(v) \in Delivered /\ (v = "engine" => expose(v) = "engine")
  BY DEF expose, Stored, Delivered

\* What is dumped is masked.
LEMMA ShownIs ==
    ASSUME NEW t, Holds(t, Stored)
    PROVE  Holds(Shown(t), {"plain", "mask"})
  BY DEF Holds, Shown, display, Stored

-----------------------------------------------------------------------------
(***************************************************************************)
(* Rows, homes and operations, a step at a time.                           *)
(***************************************************************************)
ProcessStep(p) ==
    \/ Registering(p) \/ remove(p) \/ delete_home(p)
    \/ set_config(p) \/ write_config(p)
    \/ attach_memory(p) \/ attach(p) \/ detach_memory(p) \/ clear_memory_backing(p)
    \/ Starting(p) \/ stop(p) \/ killed(p)

\* A home has more than the record of its absence.
LEMMA HomeIsThere ==
    ASSUME NEW h, DOMAIN h = HomeFields
    PROVE  h # NoHome
  <1>1. DOMAIN NoHome = {"config"}
    BY DEF NoHome
  <1>2. "memory" \in DOMAIN h
    BY DEF HomeFields
  <1> QED
    BY <1>1, <1>2

\* What is written to one field of a home leaves the others.
LEMMA HomeEdits ==
    ASSUME NEW h, DOMAIN h = HomeFields, NEW x
    PROVE  /\ LET g == [h EXCEPT !.config = x]
              IN  /\ DOMAIN g = HomeFields /\ g.config = x /\ g.adapter = h.adapter
                  /\ g.memory = h.memory /\ g.snapshot = h.snapshot /\ g.native = h.native
           /\ LET g == [h EXCEPT !.adapter = x]
              IN  /\ DOMAIN g = HomeFields /\ g.config = h.config /\ g.adapter = x
                  /\ g.memory = h.memory /\ g.snapshot = h.snapshot /\ g.native = h.native
           /\ LET g == [h EXCEPT !.memory = x]
              IN  /\ DOMAIN g = HomeFields /\ g.config = h.config /\ g.adapter = h.adapter
                  /\ g.memory = x /\ g.snapshot = h.snapshot /\ g.native = h.native
           /\ LET g == [h EXCEPT !.snapshot = x]
              IN  /\ DOMAIN g = HomeFields /\ g.config = h.config /\ g.adapter = h.adapter
                  /\ g.memory = h.memory /\ g.snapshot = x /\ g.native = h.native
           /\ LET g == [h EXCEPT !.native = x]
              IN  /\ DOMAIN g = HomeFields /\ g.config = h.config /\ g.adapter = h.adapter
                  /\ g.memory = h.memory /\ g.snapshot = h.snapshot /\ g.native = x
  BY DEF HomeFields

\* A home just made is in order, and one that is there is left as it is but for
\* the memory directory.
LEMMA EnsuredIs ==
    ASSUME home # NoHome => HomeOK(home)
    PROVE  /\ HomeOK(ensure_dir) /\ HomeOK(with_memory)
           /\ home # NoHome =>
                 /\ ensure_dir = home
                 /\ with_memory.config = home.config /\ with_memory.adapter = home.adapter
                 /\ with_memory.snapshot = home.snapshot
                 /\ home.memory # "absent" => with_memory.memory = home.memory
  <1>1. HomeOK(NewHome)
    BY DEF HomeOK, NewHome, HomeFields, Holds, FromEngine, Empty
  <1>2. HomeOK(ensure_dir)
    BY <1>1 DEF ensure_dir
  <1> DEFINE h == ensure_dir
             g == [h EXCEPT !.memory = "empty"]
  <1>3. /\ DOMAIN g = HomeFields /\ g.config = h.config /\ g.adapter = h.adapter
        /\ g.snapshot = h.snapshot /\ g.native = h.native
    BY <1>2, HomeEdits DEF HomeOK
  <1>4. with_memory = IF h.memory = "absent" THEN g ELSE h
    BY DEF with_memory
  <1>5. home # NoHome => h = home
    BY DEF ensure_dir
  <1> HIDE DEF h, g
  <1>6. HomeOK(g)
    BY <1>2, <1>3 DEF HomeOK, h
  <1>7. HomeOK(with_memory)
    BY <1>2, <1>4, <1>6 DEF h
  <1> QED
    BY <1>2, <1>3, <1>4, <1>5, <1>7 DEF h

\* One process moves at a time, and the number of them is given.
LEMMA OneMoves ==
    ASSUME BoundsOK, NEW p \in DOMAIN command, ProcessStep(p)
    PROVE  /\ BoundsOK' /\ DOMAIN command' = DOMAIN command
           /\ limits'.processes = limits.processes
           /\ \A q \in DOMAIN command \ {p} : command'[q] = command[q]
  <1>1. \/ command' = command
        \/ \E n : command' = [command EXCEPT ![p] = n]
    <2>1. CASE Registering(p)
      BY <2>1 DEF Registering, register, make_home, seed_config, truncate_snapshot,
                  write_snapshot, materialize_fails, roll_back_row, roll_back_home,
                  Goto, Done
    <2>2. CASE remove(p) \/ delete_home(p) \/ set_config(p) \/ write_config(p)
      BY <2>2 DEF remove, delete_home, set_config, write_config, Goto, Done
    <2>3. CASE attach_memory(p) \/ attach(p) \/ detach_memory(p) \/ clear_memory_backing(p)
      BY <2>3 DEF attach_memory, attach, detach_memory, clear_memory_backing, Goto, Done
    <2>4. CASE start(p)
      BY <2>4 DEF start, Goto, Done
    <2>5. CASE render(p) \/ write_effective_config_snapshot(p) \/ launch(p)
      BY <2>5 DEF render, write_effective_config_snapshot, launch, Goto, Done
    <2>6. CASE stop(p) \/ killed(p)
      BY <2>6 DEF stop, killed, Goto, Done
    <2> QED
      BY <2>1, <2>2, <2>3, <2>4, <2>5, <2>6 DEF ProcessStep, Starting
  <1>2. \/ limits' = limits
        \/ limits' = [limits EXCEPT !.faults = @ - 1]
        \/ limits' = [limits EXCEPT !.sets = @ - 1]
        \/ limits' = [limits EXCEPT !.crashes = @ - 1]
    <2>1. CASE Registering(p)
      BY <2>1 DEF Registering, register, make_home, seed_config, truncate_snapshot,
                  write_snapshot, materialize_fails, roll_back_row, roll_back_home, Fails
    <2>2. CASE remove(p) \/ delete_home(p) \/ set_config(p) \/ write_config(p)
      BY <2>2 DEF remove, delete_home, set_config, write_config, Fails
    <2>3. CASE attach_memory(p) \/ attach(p) \/ detach_memory(p) \/ clear_memory_backing(p)
      BY <2>3 DEF attach_memory, attach, detach_memory, clear_memory_backing, Fails
    <2>4. CASE Starting(p) \/ stop(p) \/ killed(p)
      BY <2>4 DEF Starting, start, render, write_effective_config_snapshot, launch, stop,
                  killed, Fails
    <2> QED
      BY <2>1, <2>2, <2>3, <2>4 DEF ProcessStep
  <1>3. spoiled' \in BOOLEAN
    <2>1. CASE Registering(p)
      BY <2>1 DEF BoundsOK, Registering, register, make_home, seed_config,
                  truncate_snapshot, write_snapshot, materialize_fails, roll_back_row,
                  roll_back_home
    <2>2. CASE killed(p)
      BY <2>2 DEF BoundsOK, killed
    <2>3. CASE ~Registering(p) /\ ~killed(p)
      BY <2>3 DEF BoundsOK, ProcessStep, Starting, remove, delete_home, set_config,
                  write_config, attach_memory, attach, detach_memory,
                  clear_memory_backing, start, render, write_effective_config_snapshot,
                  launch, stop
    <2> QED
      BY <2>1, <2>2, <2>3
  <1>4. DOMAIN limits' = DOMAIN limits /\ limits'.processes = limits.processes
    BY <1>2 DEF BoundsOK
  <1>5. /\ DOMAIN command' = DOMAIN command
        /\ \A q \in DOMAIN command \ {p} : command'[q] = command[q]
    BY <1>1
  <1> QED
    BY <1>3, <1>4, <1>5 DEF BoundsOK

\* What the operation of p leaves in hand for its next step.
LEMMA NextCommandIs ==
    ASSUME BoundsOK, NEW p \in DOMAIN command, NEW n, Goto(p, n)
    PROVE  command'[p] = n
  BY DEF Goto

\* The row keeps its columns.
LEMMA RowKept ==
    ASSUME row # NoRow => DOMAIN row = RowFields,
           NEW p \in DOMAIN command, ProcessStep(p)
    PROVE  row' # NoRow => DOMAIN row' = RowFields
  <1>1. CASE Registering(p)
    BY <1>1 DEF Registering, register, make_home, seed_config, truncate_snapshot,
                write_snapshot, materialize_fails, roll_back_row, roll_back_home, RowFields
  <1>2. CASE ~Registering(p)
    <2>1. \/ row' = NoRow \/ row' = row
          \/ row # NoRow /\ \E b : row' = [row EXCEPT !.backing = b]
          \/ row # NoRow /\ \E b : row' = [row EXCEPT !.state = b]
      BY <1>2 DEF ProcessStep, Starting, remove, delete_home, set_config,
                  write_config, attach_memory, attach, detach_memory,
                  clear_memory_backing, start, render, write_effective_config_snapshot,
                  launch, stop, killed
    <2> QED
      BY <2>1
  <1> QED
    BY <1>1, <1>2

\* Every home stays in order.
LEMMA HomeKept ==
    ASSUME HomeInv, NEW p \in DOMAIN command, ProcessStep(p)
    PROVE  home' # NoHome => HomeOK(home')
  <1>1. home # NoHome => HomeOK(home)
    BY DEF HomeInv
  <1>2. CommandOK(command[p])
    BY DEF HomeInv
  <1>3. CASE home' = home \/ home' = NoHome
    BY <1>1, <1>3
  <1>4. CASE home' = ensure_dir \/ home' = with_memory
    BY <1>1, <1>4, EnsuredIs
  <1>5. CASE seed_config(p)
    <2>1. home' = [home EXCEPT !.config = Leaf(Identity, "plain")] /\ home # NoHome
      BY <1>5 DEF seed_config, write_atomically
    <2>2. Holds(Leaf(Identity, "plain"), Stored)
      BY DEF Holds, Leaf, Stored
    <2> QED
      BY <1>1, <2>1, <2>2, HomeEdits DEF HomeOK
  <1>6. CASE write_config(p) /\ home' # home
    <2>1. home' = [home EXCEPT !.config = command[p].table] /\ home # NoHome
      BY <1>6 DEF write_config, write_atomically
    <2>2. Holds(command[p].table, Stored)
      BY <1>2, <1>6 DEF CommandOK, write_config, At
    <2> QED
      BY <1>1, <2>1, <2>2, HomeEdits DEF HomeOK
  <1>7. CASE home # NoHome /\ \E a : home' = [home EXCEPT !.adapter = a]
    BY <1>1, <1>7, HomeEdits DEF HomeOK
  <1>8. CASE render(p) /\ home' # home
    <2>1. home' = [home EXCEPT !.native = command[p].file] /\ home # NoHome
      BY <1>8 DEF render
    <2>2. Holds(command[p].file, Delivered) /\ FromEngine(command[p].file)
      BY <1>2, <1>8 DEF CommandOK, render, At, Launching
    <2> QED
      BY <1>1, <2>1, <2>2, HomeEdits DEF HomeOK
  <1>9. CASE write_effective_config_snapshot(p) /\ home' # home
    <2>1. home' = [home EXCEPT !.snapshot = Shown(command[p].shown)] /\ home # NoHome
      BY <1>9 DEF write_effective_config_snapshot, Shown
    <2>2. Holds(command[p].shown, Stored)
      BY <1>2, <1>9 DEF CommandOK, write_effective_config_snapshot, At, Launching
    <2>3. Holds(Shown(command[p].shown), {"plain", "mask"})
      BY <2>2, ShownIs
    <2> QED
      BY <1>1, <2>1, <2>3, HomeEdits DEF HomeOK
  <1>10. \/ home' = home \/ home' = NoHome \/ home' = ensure_dir \/ home' = with_memory
         \/ seed_config(p) \/ (write_config(p) /\ home' # home)
         \/ (render(p) /\ home' # home)
         \/ (write_effective_config_snapshot(p) /\ home' # home)
         \/ home # NoHome /\ \E a : home' = [home EXCEPT !.adapter = a]
    <2>1. CASE Registering(p)
      BY <2>1 DEF Registering, register, make_home, truncate_snapshot,
                  write_snapshot, materialize_fails, roll_back_row, roll_back_home
    <2>2. CASE start(p) \/ attach_memory(p)
      BY <2>2 DEF start, attach_memory
    <2>3. CASE ~Registering(p) /\ ~start(p) /\ ~attach_memory(p)
      BY <2>3 DEF ProcessStep, Starting, remove, delete_home, set_config, attach,
                  detach_memory, clear_memory_backing, launch, stop, killed
    <2> QED
      BY <2>1, <2>2, <2>3
  <1> QED
    BY <1>3, <1>4, <1>5, <1>6, <1>7, <1>8, <1>9, <1>10

\* What a start puts in hand is honest: what it exposes, shows and renders comes
\* from the layer it read and the engine's own.
LEMMA StartGives ==
    ASSUME home = NoHome \/ HomeOK(home), NEW a, NEW r,
           NEW t, t = instance_config_layer,
           NEW e, e = mapping_effective(t, a.observed, r),
           NEW c, c = [at |-> "render", env |-> delivered(e, a.env),
                       file |-> [k \in DOMAIN e \cap a.file |-> expose(e[k])],
                       shown |-> stripped(t), managed |-> managed(r)]
    PROVE  CommandOK(c)
  <1>1. Holds(t, Stored)
    BY DEF instance_config_layer, HomeOK, Holds, Empty
  <1>2. /\ Holds(e, Stored \cup {"engine"})
        /\ MemoryDir \in DOMAIN e => managed(r) /\ e[MemoryDir] = "engine"
    BY <1>1, MappedIs
  <1>3. \A k \in DOMAIN e : expose(e[k]) \in Delivered /\ (e[k] = "engine" => expose(e[k]) = "engine")
    BY <1>2, ExposedIs DEF Holds
  <1>4. GivenOK(delivered(e, a.env), managed(r))
    BY <1>2, <1>3 DEF GivenOK, delivered, Holds, FromEngine
  <1>5. LET f == [k \in DOMAIN e \cap a.file |-> expose(e[k])]
        IN  Holds(f, Delivered) /\ FromEngine(f)
    BY <1>2, <1>3 DEF Holds, FromEngine
  <1>6. Holds(stripped(t), Stored)
    BY <1>1, StrippedHolds
  <1>7. c.at = "render" /\ DOMAIN c = StartFields
    BY DEF StartFields
  <1>8. /\ c.env = delivered(e, a.env) /\ c.shown = stripped(t) /\ c.managed = managed(r)
        /\ c.file = [k \in DOMAIN e \cap a.file |-> expose(e[k])]
    OBVIOUS
  <1> QED
    BY <1>4, <1>5, <1>6, <1>7, <1>8 DEF CommandOK, Launching, Settled, Materializing

\* The config write in hand is of a legal key, with the layer it read.
LEMMA SetGives ==
    ASSUME HomeConstants, home # NoHome => HomeOK(home),
           NEW p \in DOMAIN command, BoundsOK, set_config(p)
    PROVE  /\ CommandOK(command'[p]) /\ command'[p].at = "write config"
           /\ home # NoHome => KeepsOthers(command'[p], home.config)
  <1> DEFINE t == instance_config_layer
  <1>1. Holds(t, Stored)
    BY DEF instance_config_layer, HomeOK, Holds, Empty
  <1>2. PICK k \in Keys, v \in Stored :
           /\ validate_write(k)
           /\ Goto(p, [at |-> "write config", key |-> k, table |-> set_dotted(t, k, v)])
    BY DEF set_config, Stored
  <1> HIDE DEF t
  <1> DEFINE c == [at |-> "write config", key |-> k, table |-> set_dotted(t, k, v)]
  <1>11. c.at = "write config" /\ c.key = k /\ c.table = set_dotted(t, k, v)
    OBVIOUS
  <1>12. Goto(p, c)
    BY <1>2
  <1> HIDE DEF c
  <1>3. command'[p] = c
    BY <1>12, NextCommandIs
  <1>4. /\ command'[p].at = "write config" /\ command'[p].key = k
        /\ command'[p].table = set_dotted(t, k, v)
    BY <1>3, <1>11
  <1>5. k \in Seq(STRING)
    BY DEF HomeConstants
  <1>6. /\ Holds(set_dotted(t, k, v), Stored)
        /\ \A l \in DOMAIN t : \/ IsPrefix(k, l)
                               \/ /\ l \in DOMAIN set_dotted(t, k, v)
                                  /\ set_dotted(t, k, v)[l] = t[l]
    BY <1>1, <1>5, SetKeeps
  <1>7. ~IsPrefix(k, Identity)
    BY <1>2, IdentityIsApart
  <1>8. CommandOK(command'[p])
    BY <1>4, <1>6, <1>7 DEF CommandOK, Settled, Materializing, Launching
  <1>9. home # NoHome => t = home.config
    BY DEF t, instance_config_layer
  <1>10. home # NoHome => KeepsOthers(command'[p], home.config)
    BY <1>4, <1>6, <1>9 DEF KeepsOthers
  <1> QED
    BY <1>4, <1>8, <1>10

\* Every operation keeps in hand what its next step relies on.
LEMMA CommandKept ==
    ASSUME HomeConstants, HomeInv, NEW p \in DOMAIN command, ProcessStep(p)
    PROVE  CommandOK(command'[p])
  <1>1. CommandOK(command[p]) /\ BoundsOK
    BY DEF HomeInv
  <1>2. ASSUME NEW n, Goto(p, n), n.at \in {"idle", "attach", "detach", "roll back row"} \cup Undoing
        PROVE  CommandOK(command'[p])
    <2>1. command'[p] = n
      BY <1>1, <1>2, NextCommandIs
    <2> QED
      BY <1>2, <2>1 DEF CommandOK, Settled, Materializing, Undoing, Launching
  <1>3. ASSUME Done(p) PROVE CommandOK(command'[p])
    <2>1. Goto(p, Idle) /\ Idle.at = "idle"
      BY <1>3 DEF Done, Idle
    <2> QED
      BY <1>2, <2>1
  <1>4. CASE register(p)
    <2>1. PICK a \in Adapters : Goto(p, [at |-> "make home", adapter |-> a])
      BY <1>4 DEF register
    <2> DEFINE c == [at |-> "make home", adapter |-> a]
    <2>4. c.at = "make home" /\ DOMAIN c = {"at", "adapter"} /\ c.adapter = a
      OBVIOUS
    <2> HIDE DEF c
    <2>2. command'[p] = c
      BY <1>1, <2>1, NextCommandIs DEF c
    <2>3. /\ command'[p].at = "make home" /\ DOMAIN command'[p] = {"at", "adapter"}
          /\ command'[p].adapter = a
      BY <2>2, <2>4
    <2> QED
      BY <2>3 DEF CommandOK, Settled, Materializing, Undoing, Launching
  <1>5. CASE make_home(p) \/ seed_config(p) \/ truncate_snapshot(p)
    <2>1. command[p].at \in Materializing
      BY <1>5 DEF make_home, seed_config, truncate_snapshot, At, Materializing
    <2>2. PICK n \in {"seed config", "truncate snapshot", "write snapshot"} :
             Goto(p, [command[p] EXCEPT !.at = n])
      BY <1>5 DEF make_home, seed_config, truncate_snapshot
    <2>3. command'[p] = [command[p] EXCEPT !.at = n]
      BY <1>1, <2>2, NextCommandIs
    <2>4. DOMAIN command[p] = {"at", "adapter"} /\ command[p].adapter \in Adapters
      BY <1>1, <2>1 DEF CommandOK
    <2>5. /\ DOMAIN command'[p] = {"at", "adapter"} /\ command'[p].at = n
          /\ command'[p].adapter = command[p].adapter
      BY <2>3, <2>4
    <2> QED
      BY <2>4, <2>5 DEF CommandOK, Settled, Materializing, Undoing, Launching
  <1>6. CASE write_snapshot(p) \/ roll_back_home(p) \/ delete_home(p) \/ write_config(p)
             \/ attach(p) \/ clear_memory_backing(p) \/ launch(p) \/ killed(p)
    BY <1>3, <1>6 DEF write_snapshot, roll_back_home, delete_home, write_config, attach,
                      clear_memory_backing, launch, killed
  <1>7. CASE materialize_fails(p) \/ roll_back_row(p) \/ remove(p) \/ detach_memory(p)
             \/ attach_memory(p)
    <2>1. CASE materialize_fails(p) \/ roll_back_row(p) \/ detach_memory(p)
      <3>1. \/ Goto(p, [at |-> "roll back row"]) \/ Goto(p, [at |-> "roll back home"])
            \/ Goto(p, [at |-> "detach"])
        BY <2>1 DEF materialize_fails, roll_back_row, detach_memory
      <3> QED
        BY <1>2, <3>1 DEF Undoing
    <2>2. CASE remove(p)
      BY <1>2, <1>3, <2>2 DEF remove, Undoing
    <2>3. CASE attach_memory(p)
      <3>1. Done(p) \/ \E kind \in {"filesystem", "native"} :
                           Goto(p, [at |-> "attach", kind |-> kind])
        BY <2>3 DEF attach_memory
      <3> QED
        BY <1>2, <1>3, <3>1
    <2> QED
      BY <1>7, <2>1, <2>2, <2>3
  <1>8. CASE set_config(p)
    BY <1>1, <1>8, SetGives DEF HomeInv
  <1>9. CASE start(p)
    <2> DEFINE a == home.adapter
               t == instance_config_layer
               e == mapping_effective(t, a.observed, row)
               c == [at |-> "render", env |-> delivered(e, a.env),
                     file |-> [k \in DOMAIN e \cap a.file |-> expose(e[k])],
                     shown |-> stripped(t), managed |-> managed(row)]
    <2>1. Goto(p, c) \/ Done(p)
      BY <1>9 DEF start
    <2>2. CommandOK(c)
      BY StartGives DEF HomeInv
    <2> HIDE DEF c
    <2>3. CASE Goto(p, c)
      BY <1>1, <2>2, <2>3, NextCommandIs
    <2> QED
      BY <1>3, <2>1, <2>3
  <1>10. CASE render(p) \/ write_effective_config_snapshot(p)
    <2>1. command[p].at \in Launching
      BY <1>10 DEF render, write_effective_config_snapshot, At, Launching
    <2>2. CASE Done(p)
      BY <1>3, <2>2
    <2>3. CASE ~Done(p)
      <3>1. PICK n \in {"show", "launch"} : Goto(p, [command[p] EXCEPT !.at = n])
        BY <1>10, <2>3 DEF render, write_effective_config_snapshot
      <3>2. command'[p] = [command[p] EXCEPT !.at = n]
        BY <1>1, <3>1, NextCommandIs
      <3>3. DOMAIN command[p] = StartFields
        BY <1>1, <2>1 DEF CommandOK
      <3>4. /\ DOMAIN command'[p] = StartFields /\ command'[p].at = n
            /\ command'[p].env = command[p].env /\ command'[p].file = command[p].file
            /\ command'[p].shown = command[p].shown
            /\ command'[p].managed = command[p].managed
        BY <3>2, <3>3 DEF StartFields
      <3> QED
        BY <1>1, <2>1, <3>4 DEF CommandOK, Settled, Materializing, Undoing, Launching
    <2> QED
      BY <2>2, <2>3
  <1>11. CASE stop(p)
    BY <1>1, <1>11 DEF stop
  <1> QED
    BY <1>4, <1>5, <1>6, <1>7, <1>8, <1>9, <1>10, <1>11 DEF ProcessStep, Registering,
       Starting

\* What is launched is what the start put in hand, and the native file as it is.
LEMMA AgentKept ==
    ASSUME HomeInv, NEW p \in DOMAIN command, ProcessStep(p)
    PROVE  launched' # NoAgent => AgentOK(launched')
  <1>1. CASE launched' = launched \/ launched' = NoAgent
    BY <1>1 DEF HomeInv
  <1>2. CASE launch(p) /\ launched' # launched
    <2>1. CommandOK(command[p]) /\ command[p].at = "launch"
      BY <1>2 DEF HomeInv, launch, At
    <2>2. launched' = [config |-> command[p].env,
                       native |-> IF home = NoHome THEN Empty ELSE home.native,
                       shown |-> command[p].shown, managed |-> command[p].managed]
      BY <1>2 DEF launch
    <2>3. /\ launched'.config = command[p].env /\ launched'.managed = command[p].managed
          /\ launched'.native = IF home = NoHome THEN Empty ELSE home.native
      BY <2>2
    <2>4. GivenOK(command[p].env, command[p].managed)
      BY <2>1 DEF CommandOK, Launching
    <2>5. Holds(Empty, Delivered) /\ FromEngine(Empty)
      BY DEF Holds, Empty, FromEngine
    <2>6. Holds(launched'.native, Delivered) /\ FromEngine(launched'.native)
      BY <2>3, <2>5 DEF HomeInv, HomeOK
    <2> QED
      BY <2>3, <2>4, <2>6 DEF AgentOK
  <1>3. launched' = launched \/ launched' = NoAgent \/ launch(p)
    <2>1. CASE Registering(p)
      BY <2>1 DEF Registering, register, make_home, seed_config, truncate_snapshot,
                  write_snapshot, materialize_fails, roll_back_row, roll_back_home
    <2>2. CASE ~Registering(p)
      BY <2>2 DEF ProcessStep, Starting, remove, delete_home, set_config,
                  write_config, attach_memory, attach, detach_memory,
                  clear_memory_backing, start, render, write_effective_config_snapshot,
                  stop, killed
    <2> QED
      BY <2>1, <2>2
  <1> QED
    BY <1>1, <1>2, <1>3

-----------------------------------------------------------------------------
(***************************************************************************)
(* One engine on the state directory.                                      *)
(***************************************************************************)

\* It is the process there is.
LEMMA OneIsAlone ==
    ASSUME BoundsOK, OneProcess
    PROVE  DOMAIN command = {1}
  BY DEF BoundsOK, OneProcess

\* The agent that lives is that of the last launch, and the dump shows it.
LEMMA AgentAloneKept ==
    ASSUME HomeConstants, HomeInv, OneProcess, DOMAIN command = {1}, ProcessStep(1)
    PROVE  AgentAlone'
  <1>1. AgentAlone /\ ShownAlone /\ BoundsOK
    BY DEF HomeInv, Alone
  <1>2. CASE launched' = NoAgent
    BY <1>2 DEF AgentAlone
  <1>3. CASE launch(1) /\ row # NoRow
    <2>1. row' = [row EXCEPT !.state = "live"] /\ DOMAIN row = RowFields
      BY <1>3 DEF launch, HomeInv
    <2>2. row' # NoRow /\ row'.state = "live"
      <3>1. DOMAIN row' = RowFields /\ row'.state = "live"
        BY <2>1 DEF RowFields
      <3>2. DOMAIN NoRow = {"id"} /\ "state" \in RowFields
        BY DEF NoRow, RowFields
      <3> QED
        BY <3>1, <3>2
    <2>3. command'[1].at = "idle"
      <3>1. Goto(1, Idle) /\ Idle.at = "idle"
        BY <1>3 DEF launch, Done, Idle
      <3> QED
        BY <1>1, <3>1, NextCommandIs
    <2>4. home' # NoHome => home'.snapshot = Shown(launched'.shown)
      <3>1. home' = home /\ command[1].at = "launch"
        BY <1>3 DEF launch, At
      <3>2. launched'.shown = command[1].shown
        BY <1>3 DEF launch
      <3> QED
        BY <1>1, <3>1, <3>2 DEF ShownAlone
    <2> QED
      BY <2>2, <2>3, <2>4 DEF AgentAlone
  <1>4. CASE launched' # NoAgent /\ ~(launch(1) /\ row # NoRow)
    <2>1. launched' = launched
      <3>1. CASE Registering(1)
        BY <3>1 DEF Registering, register, make_home, seed_config, truncate_snapshot,
                    write_snapshot, materialize_fails, roll_back_row, roll_back_home
      <3>2. CASE ~Registering(1)
        BY <1>4, <3>2 DEF ProcessStep, Starting, remove, delete_home, set_config,
                    write_config, attach_memory, attach, detach_memory,
                    clear_memory_backing, start, render, write_effective_config_snapshot,
                    launch, stop, killed
      <3> QED
        BY <3>1, <3>2
    <2>2. /\ row # NoRow /\ row.state = "live" /\ ~Resting
          /\ command[1].at \in {"idle", "write config"}
          /\ home # NoHome => home.snapshot = Shown(launched.shown)
      BY <1>1, <1>4, <2>1 DEF AgentAlone, Resting
    <2>3. CASE Registering(1)
      BY <2>2, <2>3 DEF Registering, register, make_home, seed_config, truncate_snapshot,
                write_snapshot, materialize_fails, roll_back_row, roll_back_home, At,
                Materializing
    <2>4. CASE \/ remove(1) \/ delete_home(1) \/ attach_memory(1) \/ attach(1)
               \/ detach_memory(1) \/ clear_memory_backing(1) \/ Starting(1) \/ stop(1)
      BY <1>4, <2>1, <2>2, <2>4 DEF remove, delete_home, attach_memory, attach,
                detach_memory, clear_memory_backing, Starting, start, render,
                write_effective_config_snapshot, launch, stop, At
    <2>5. CASE set_config(1)
      <3>1. command'[1].at = "write config"
        BY <1>1, <2>5, SetGives DEF HomeInv
      <3>2. UNCHANGED <<row, home>>
        BY <2>5 DEF set_config
      <3> QED
        BY <2>1, <2>2, <3>1, <3>2 DEF AgentAlone
    <2>6. CASE write_config(1) \/ killed(1)
      <3>1. Goto(1, Idle) /\ Idle.at = "idle"
        BY <2>6 DEF write_config, killed, Done, Idle
      <3>2. command'[1].at = "idle"
        BY <1>1, <3>1, NextCommandIs
      <3>3. UNCHANGED row
        BY <2>6 DEF write_config, killed
      <3>4. home' # NoHome => home # NoHome /\ home'.snapshot = home.snapshot
        <4>1. CASE home' = home
          BY <4>1
        <4>2. CASE home' # home
          <5>1. home # NoHome /\ home' = [home EXCEPT !.config = command[1].table]
            BY <2>6, <4>2 DEF write_config, killed, write_atomically
          <5> QED
            BY <5>1, HomeEdits DEF HomeInv, HomeOK
        <4> QED
          BY <4>1, <4>2
      <3> QED
        BY <2>1, <2>2, <3>2, <3>3, <3>4 DEF AgentAlone
    <2> QED
      BY <2>3, <2>4, <2>5, <2>6 DEF ProcessStep
  <1> QED
    BY <1>2, <1>3, <1>4

\* Which step leads where: the operations hand over to their own next steps.
LEMMA NextAt ==
    ASSUME HomeConstants, HomeInv, NEW p \in DOMAIN command
    PROVE  LET next == command'[p].at
           IN  /\ register(p) => next = "make home"
               /\ make_home(p) => next = "seed config"
               /\ seed_config(p) => next = "truncate snapshot"
               /\ truncate_snapshot(p) => next = "write snapshot"
               /\ materialize_fails(p) => next = "roll back row"
               /\ roll_back_row(p) => next = "roll back home"
               /\ detach_memory(p) => next = "detach"
               /\ remove(p) => next \in {"idle", "delete home"}
               /\ set_config(p) => next = "write config"
               /\ attach_memory(p) => next \in {"idle", "attach"}
               /\ start(p) => next \in {"idle", "render"}
               /\ render(p) => next \in {"idle", "show"}
               /\ write_effective_config_snapshot(p) => next \in {"idle", "launch"}
               /\ write_snapshot(p) \/ roll_back_home(p) \/ delete_home(p) \/ write_config(p)
                     \/ attach(p) \/ clear_memory_backing(p) \/ launch(p) \/ killed(p)
                     \/ stop(p) => next = "idle"
  <1>1. BoundsOK /\ CommandOK(command[p])
    BY DEF HomeInv
  <1>2. ASSUME NEW n, Goto(p, n) PROVE command'[p].at = n.at
    BY <1>1, <1>2, NextCommandIs
  <1>3. ASSUME Done(p) PROVE command'[p].at = "idle"
    <2>1. Goto(p, Idle) /\ Idle.at = "idle"
      BY <1>3 DEF Done, Idle
    <2> QED
      BY <1>2, <2>1
  <1>4. ASSUME register(p)
        PROVE  command'[p].at = "make home"
    <2>1. PICK a \in Adapters : Goto(p, [at |-> "make home", adapter |-> a])
      BY <1>4 DEF register
    <2>2. [at |-> "make home", adapter |-> a].at = "make home"
      OBVIOUS
    <2> QED
      BY <1>2, <2>1, <2>2
  <1>5. ASSUME make_home(p) \/ seed_config(p) \/ truncate_snapshot(p)
        PROVE  /\ make_home(p) => command'[p].at = "seed config"
               /\ seed_config(p) => command'[p].at = "truncate snapshot"
               /\ truncate_snapshot(p) => command'[p].at = "write snapshot"
    <2>1. command[p].at \in Materializing
      BY <1>5 DEF make_home, seed_config, truncate_snapshot, At, Materializing
    <2>2. DOMAIN command[p] = {"at", "adapter"}
      BY <1>1, <2>1 DEF CommandOK
    <2>3. ASSUME NEW n, Goto(p, [command[p] EXCEPT !.at = n]) PROVE command'[p].at = n
      <3>1. [command[p] EXCEPT !.at = n].at = n
        BY <2>2
      <3> QED
        BY <1>2, <2>3, <3>1
    <2>4. /\ make_home(p) => command'[p].at = "seed config"
          /\ seed_config(p) => command'[p].at = "truncate snapshot"
          /\ truncate_snapshot(p) => command'[p].at = "write snapshot"
      BY <2>3 DEF make_home, seed_config, truncate_snapshot
    <2> QED
      BY <2>4
  <1>6. ASSUME write_snapshot(p) \/ roll_back_home(p) \/ delete_home(p) \/ write_config(p)
                  \/ attach(p) \/ clear_memory_backing(p) \/ launch(p) \/ killed(p)
        PROVE  command'[p].at = "idle"
    BY <1>3, <1>6 DEF write_snapshot, roll_back_home, delete_home, write_config, attach,
                      clear_memory_backing, launch, killed
  <1>7. /\ materialize_fails(p) => command'[p].at = "roll back row"
        /\ roll_back_row(p) => command'[p].at = "roll back home"
        /\ detach_memory(p) => command'[p].at = "detach"
    <2>1. ASSUME NEW n, Goto(p, [at |-> n]) PROVE command'[p].at = n
      <3>1. [at |-> n].at = n
        OBVIOUS
      <3> QED
        BY <1>2, <2>1, <3>1
    <2> QED
      BY <2>1 DEF materialize_fails, roll_back_row, detach_memory
  <1>8. ASSUME remove(p)
        PROVE  command'[p].at \in {"idle", "delete home"}
    <2>1. Done(p) \/ Goto(p, [at |-> "delete home"])
      BY <1>8 DEF remove
    <2>2. [at |-> "delete home"].at = "delete home"
      OBVIOUS
    <2>3. CASE Goto(p, [at |-> "delete home"])
      BY <1>2, <2>2, <2>3
    <2> QED
      BY <1>3, <2>1, <2>3
  <1>9. ASSUME attach_memory(p)
        PROVE  command'[p].at \in {"idle", "attach"}
    <2>1. Done(p) \/ \E kind : Goto(p, [at |-> "attach", kind |-> kind])
      BY <1>9 DEF attach_memory
    <2>2. ASSUME NEW kind, Goto(p, [at |-> "attach", kind |-> kind])
          PROVE  command'[p].at = "attach"
      <3>1. [at |-> "attach", kind |-> kind].at = "attach"
        OBVIOUS
      <3> QED
        BY <1>2, <2>2, <3>1
    <2> QED
      BY <1>3, <2>1, <2>2
  <1>10. ASSUME start(p)
        PROVE  command'[p].at \in {"idle", "render"}
    <2>1. Done(p) \/ \E e, f, s, m : Goto(p, [at |-> "render", env |-> e, file |-> f,
                                              shown |-> s, managed |-> m])
      BY <1>10 DEF start
    <2>2. ASSUME NEW e, NEW f, NEW s, NEW m,
                 Goto(p, [at |-> "render", env |-> e, file |-> f, shown |-> s,
                          managed |-> m])
          PROVE  command'[p].at = "render"
      <3>1. [at |-> "render", env |-> e, file |-> f, shown |-> s, managed |-> m].at = "render"
        OBVIOUS
      <3> QED
        BY <1>2, <2>2, <3>1
    <2> QED
      BY <1>3, <2>1, <2>2
  <1>11. ASSUME render(p)
        PROVE  command'[p].at \in {"idle", "show"}
    <2>1. DOMAIN command[p] = StartFields
      BY <1>1, <1>11 DEF CommandOK, render, At, Launching
    <2>2. Done(p) \/ Goto(p, [command[p] EXCEPT !.at = "show"])
      BY <1>11 DEF render
    <2>3. [command[p] EXCEPT !.at = "show"].at = "show"
      BY <2>1 DEF StartFields
    <2> QED
      BY <1>2, <1>3, <2>2, <2>3
  <1>12. ASSUME write_effective_config_snapshot(p)
        PROVE  command'[p].at \in {"idle", "launch"}
    <2>1. DOMAIN command[p] = StartFields
      BY <1>1, <1>12 DEF CommandOK, write_effective_config_snapshot, At, Launching
    <2>2. Done(p) \/ Goto(p, [command[p] EXCEPT !.at = "launch"])
      BY <1>12 DEF write_effective_config_snapshot
    <2>3. [command[p] EXCEPT !.at = "launch"].at = "launch"
      BY <2>1 DEF StartFields
    <2> QED
      BY <1>2, <1>3, <1>12, <2>2, <2>3
  <1>13. ASSUME set_config(p)
        PROVE  command'[p].at = "write config"
    BY <1>1, <1>13, SetGives DEF HomeInv
  <1>14. ASSUME stop(p)
        PROVE  command'[p].at = "idle"
    <2>1. command'[p].at = "idle"
      BY <1>14 DEF stop, At
    <2> QED
      BY <2>1
  <1> QED
    BY <1>4, <1>5, <1>6, <1>7, <1>8, <1>9, <1>10, <1>11, <1>12, <1>13, <1>14

\* The dump that is about to be launched under is of this start.
LEMMA ShownAloneKept ==
    ASSUME HomeConstants, HomeInv, OneProcess, DOMAIN command = {1}, ProcessStep(1)
    PROVE  ShownAlone'
  <1>1. BoundsOK /\ CommandOK(command[1]) /\ ShownAlone
    BY DEF HomeInv, Alone
  <1>2. SUFFICES ASSUME command'[1].at = "launch", home' # NoHome
                 PROVE  home'.snapshot = Shown(command'[1].shown)
    BY DEF ShownAlone
  <1>3. CASE write_effective_config_snapshot(1)
    <2>1. command[1].at = "show" /\ DOMAIN command[1] = StartFields
      BY <1>1, <1>3 DEF CommandOK, write_effective_config_snapshot, At, Launching
    <2>2. ~Done(1)
      <3>1. ASSUME Done(1) PROVE FALSE
        <4>1. Goto(1, Idle) /\ Idle.at = "idle"
          BY <3>1 DEF Done, Idle
        <4> QED
          BY <1>1, <1>2, <4>1, NextCommandIs
      <3> QED
        BY <3>1
    <2>3. /\ home # NoHome /\ home' = [home EXCEPT !.snapshot = Shown(command[1].shown)]
          /\ Goto(1, [command[1] EXCEPT !.at = "launch"])
      BY <1>3, <2>2 DEF write_effective_config_snapshot, Shown
    <2>4. command'[1] = [command[1] EXCEPT !.at = "launch"]
      BY <1>1, <2>3, NextCommandIs
    <2>5. command'[1].shown = command[1].shown
      BY <2>1, <2>4 DEF StartFields
    <2>6. home'.snapshot = Shown(command[1].shown)
      BY <2>3, HomeEdits DEF HomeInv, HomeOK
    <2> QED
      BY <2>5, <2>6
  <1> QED
    BY <1>2, <1>3, NextAt DEF ProcessStep, Registering, Starting

\* The layer a write has in hand is the one that is there, but for its key.
LEMMA WriteAloneKept ==
    ASSUME HomeConstants, HomeInv, OneProcess, DOMAIN command = {1}, ProcessStep(1)
    PROVE  WriteAlone'
  <1>1. BoundsOK
    BY DEF HomeInv
  <1>2. SUFFICES ASSUME command'[1].at = "write config", home' # NoHome
                 PROVE  KeepsOthers(command'[1], home'.config)
    BY DEF WriteAlone
  <1>3. CASE set_config(1)
    <2>1. home' = home
      BY <1>3 DEF set_config
    <2> QED
      BY <1>1, <1>2, <1>3, <2>1, SetGives DEF HomeInv
  <1> QED
    BY <1>2, <1>3, NextAt DEF ProcessStep, Registering, Starting

\* A registration is whole when it is done, and nothing else unmakes a home that
\* is registered.
LEMMA UsableAloneKept ==
    ASSUME HomeConstants, HomeInv, OneProcess, DOMAIN command = {1}, ProcessStep(1)
    PROVE  UsableAlone'
  <1> DEFINE at == command[1].at
             next == command'[1].at
  <1>1. /\ BoundsOK /\ CommandOK(command[1]) /\ WriteAlone /\ UsableAlone
        /\ home # NoHome => HomeOK(home)
    BY DEF HomeInv, Alone
  <1>2. CASE spoiled'
    BY <1>2 DEF UsableAlone
  <1>3. CASE ~spoiled'
    <2>1. ~spoiled /\ (spoiled' = spoiled)
      <3>1. CASE Registering(1)
        <4>1. spoiled' = spoiled \/ spoiled' = TRUE
          BY <3>1 DEF Registering, register, make_home, seed_config, truncate_snapshot,
                  write_snapshot, materialize_fails, roll_back_row, roll_back_home
        <4> QED
          BY <1>3, <4>1
      <3>2. CASE ~Registering(1)
        BY <1>1, <1>3, <3>2 DEF BoundsOK, ProcessStep, Starting, remove, delete_home,
                set_config, write_config, attach_memory, attach, detach_memory,
                clear_memory_backing, start, render, write_effective_config_snapshot,
                launch, stop, killed
      <3> QED
        BY <3>1, <3>2
    <2>2. /\ at \in Settled /\ row # NoRow => Whole
          /\ at \in Undoing => row = NoRow
          /\ at \in {"truncate snapshot", "write snapshot"} =>
                home # NoHome /\ Identity \in DOMAIN home.config
      BY <1>1, <2>1 DEF UsableAlone
    <2>3. CASE register(1) \/ make_home(1) \/ materialize_fails(1)
      <3>1. next \in {"make home", "seed config", "roll back row"}
        BY <2>3, NextAt
      <3> QED
        BY <3>1 DEF UsableAlone, Settled, Undoing, Launching
    <2>4. CASE seed_config(1)
      <3>1. next = "truncate snapshot"
        BY <2>4, NextAt
      <3>2. home # NoHome /\ home' = [home EXCEPT !.config = Leaf(Identity, "plain")]
        BY <2>4 DEF seed_config, write_atomically
      <3>3. DOMAIN home' = HomeFields /\ home'.config = Leaf(Identity, "plain")
        BY <1>1, <3>2, HomeEdits DEF HomeOK
      <3>4. Identity \in DOMAIN home'.config
        BY <3>3 DEF Leaf
      <3> QED
        BY <3>1, <3>3, <3>4, HomeIsThere DEF UsableAlone, Settled, Undoing, Launching
    <2>5. CASE truncate_snapshot(1)
      <3>1. next = "write snapshot" /\ at = "truncate snapshot"
        BY <2>5, NextAt DEF truncate_snapshot, At
      <3>2. home # NoHome /\ home' = [home EXCEPT !.adapter = Torn]
        BY <2>5 DEF truncate_snapshot
      <3>3. DOMAIN home' = HomeFields /\ home'.config = home.config
        BY <1>1, <3>2, HomeEdits DEF HomeOK
      <3> QED
        BY <2>2, <3>1, <3>3, HomeIsThere DEF UsableAlone, Settled, Undoing, Launching
    <2>6. CASE write_snapshot(1)
      <3>1. next = "idle" /\ at = "write snapshot"
        BY <2>6, NextAt DEF write_snapshot, At
      <3>2. home # NoHome /\ home' = [home EXCEPT !.adapter = command[1].adapter]
        BY <2>2, <2>6, <3>1 DEF write_snapshot
      <3>3. /\ DOMAIN home' = HomeFields /\ home'.config = home.config
            /\ home'.adapter = command[1].adapter
        BY <1>1, <3>2, HomeEdits DEF HomeOK
      <3>4. command[1].adapter \in Adapters
        BY <1>1, <3>1 DEF CommandOK, Materializing
      <3>5. Whole'
        BY <2>2, <3>1, <3>3, <3>4, HomeIsThere DEF Whole
      <3> QED
        BY <3>1, <3>5 DEF UsableAlone, Undoing
    <2>7. CASE roll_back_row(1)
      <3>1. next = "roll back home"
        BY <2>7, NextAt
      <3>2. row' = NoRow
        BY <1>3, <2>7 DEF roll_back_row
      <3> QED
        BY <3>1, <3>2 DEF UsableAlone, Settled, Launching
    <2>8. CASE remove(1) \/ roll_back_home(1) \/ delete_home(1)
      <3>1. next \in {"idle", "delete home"}
        BY <2>8, NextAt
      <3>2. row' = NoRow
        BY <2>2, <2>8 DEF remove, roll_back_home, delete_home, At, Undoing
      <3> QED
        BY <3>1, <3>2 DEF UsableAlone
    <2>9. CASE killed(1)
      <3>1. next = "idle"
        BY <2>9, NextAt
      <3>2. at \notin Materializing \cup {"roll back row"} /\ UNCHANGED <<row, home>>
        BY <2>1, <2>9, <1>3 DEF killed
      <3>3. row # NoRow => Whole
        BY <1>1, <2>2, <3>2 DEF CommandOK
      <3> QED
        BY <3>1, <3>2, <3>3 DEF UsableAlone, Undoing, Whole
    <2>10. CASE \/ set_config(1) \/ write_config(1) \/ attach_memory(1) \/ attach(1)
                \/ detach_memory(1) \/ clear_memory_backing(1) \/ Starting(1) \/ stop(1)
      <3>1. next \in Settled
        BY <2>10, NextAt DEF Settled, Launching, Starting
      <3>2. at \in Settled
        BY <2>10 DEF set_config, write_config, attach_memory, attach, detach_memory,
           clear_memory_backing, Starting, start, render, write_effective_config_snapshot,
           launch, stop, At, Settled, Launching
      <3>3. row' # NoRow => row # NoRow
        BY <2>10 DEF set_config, write_config, attach_memory, attach, detach_memory,
           clear_memory_backing, Starting, start, render, write_effective_config_snapshot,
           launch, stop
      <3>4. ASSUME Whole PROVE Whole'
        <4>1. HomeOK(home) /\ home # NoHome
          BY <1>1, <3>4 DEF Whole
        <4>2. CASE home' = home
          BY <3>4, <4>2 DEF Whole
        <4>3. CASE home' = with_memory
          <5>1. DOMAIN home' = HomeFields
            BY <4>1, <4>3, EnsuredIs DEF HomeOK
          <5> QED
            BY <3>4, <4>1, <4>3, <5>1, EnsuredIs, HomeIsThere DEF Whole
        <4>4. CASE write_config(1) /\ home' # home
          <5>1. /\ home' = [home EXCEPT !.config = command[1].table]
                /\ at = "write config"
            BY <4>4 DEF write_config, write_atomically, At
          <5>2. /\ DOMAIN home' = HomeFields /\ home'.config = command[1].table
                /\ home'.adapter = home.adapter
            BY <4>1, <5>1 DEF HomeOK, HomeFields
          <5>3. Identity \in DOMAIN command[1].table
            BY <1>1, <3>4, <4>1, <5>1 DEF WriteAlone, KeepsOthers, CommandOK, Whole
          <5> QED
            BY <3>4, <5>2, <5>3, HomeIsThere DEF Whole
        <4>5. CASE \E x : \/ home' = [home EXCEPT !.native = x]
                          \/ home' = [home EXCEPT !.snapshot = x]
          <5>1. /\ DOMAIN home' = HomeFields /\ home'.config = home.config
                /\ home'.adapter = home.adapter
            BY <4>1, <4>5 DEF HomeOK, HomeFields
          <5> QED
            BY <3>4, <5>1, HomeIsThere DEF Whole
        <4>6. \/ home' = home \/ home' = with_memory
              \/ write_config(1) /\ home' # home
              \/ \E x : \/ home' = [home EXCEPT !.native = x]
                        \/ home' = [home EXCEPT !.snapshot = x]
          BY <2>10 DEF set_config, attach_memory, attach, detach_memory,
             clear_memory_backing, Starting, start, render,
             write_effective_config_snapshot, launch, stop
        <4> QED
          BY <4>2, <4>3, <4>4, <4>5, <4>6
      <3> QED
        BY <2>2, <3>1, <3>2, <3>3, <3>4 DEF UsableAlone, Settled, Undoing, Launching
    <2> QED
      BY <2>3, <2>4, <2>5, <2>6, <2>7, <2>8, <2>9, <2>10 DEF ProcessStep, Registering
  <1> QED
    BY <1>2, <1>3

-----------------------------------------------------------------------------
(***************************************************************************)
(* The theorems.                                                           *)
(***************************************************************************)

\* Nothing is registered, made or launched at first.
LEMMA HomeInitially == HomeConstants /\ HomeInit => HomeInv
  <1> SUFFICES ASSUME HomeConstants, HomeInit PROVE HomeInv
    OBVIOUS
  <1>1. BoundsOK
    BY DEF HomeInit, HomeConstants, HomeBound, BoundsOK
  <1>2. \A p \in DOMAIN command : command[p] = Idle /\ command[p].at = "idle"
    BY DEF HomeInit, Idle
  <1>3. \A p \in DOMAIN command : CommandOK(command[p])
    BY <1>2 DEF CommandOK, Settled, Materializing, Launching
  <1>4. OneProcess => command[1].at = "idle"
    BY <1>1, <1>2 DEF OneProcess, BoundsOK
  <1>5. Alone
    BY <1>4 DEF HomeInit, Alone, AgentAlone, ShownAlone, WriteAlone, UsableAlone, Undoing
  <1> QED
    BY <1>1, <1>3, <1>5 DEF HomeInit, HomeInv

\* The agent writes in its memory directory and nowhere else.
LEMMA RemembersKeeps ==
    ASSUME HomeInv, agent_remembers
    PROVE  HomeInv'
  <1>1. /\ home # NoHome /\ home' = [home EXCEPT !.memory = "notes"]
        /\ UNCHANGED <<row, command, launched, rows, spoiled, limits>>
    BY DEF agent_remembers
  <1>2. /\ DOMAIN home' = HomeFields /\ home'.config = home.config
        /\ home'.adapter = home.adapter /\ home'.snapshot = home.snapshot
        /\ home'.native = home.native
    BY <1>1, HomeEdits DEF HomeInv, HomeOK
  <1>3. HomeOK(home')
    BY <1>1, <1>2 DEF HomeInv, HomeOK
  <1>4. Alone'
    BY <1>1, <1>2, HomeIsThere DEF HomeInv, Alone, OneProcess, AgentAlone, ShownAlone,
                                   WriteAlone, UsableAlone, Whole
  <1> QED
    BY <1>1, <1>3, <1>4 DEF HomeInv, BoundsOK

\* No step breaks the invariant.
LEMMA HomeStep == HomeConstants /\ HomeInv /\ [HomeNext]_homeVars => HomeInv'
  <1> SUFFICES ASSUME HomeConstants, HomeInv, [HomeNext]_homeVars PROVE HomeInv'
    OBVIOUS
  <1>1. ASSUME NEW p \in DOMAIN command, ProcessStep(p) PROVE HomeInv'
    <2>1. /\ BoundsOK' /\ DOMAIN command' = DOMAIN command
          /\ limits'.processes = limits.processes
          /\ \A q \in DOMAIN command \ {p} : command'[q] = command[q]
      BY <1>1, OneMoves DEF HomeInv
    <2>2. \A q \in DOMAIN command' : CommandOK(command'[q])
      <3>1. CommandOK(command'[p])
        BY <1>1, CommandKept
      <3> QED
        BY <2>1, <3>1 DEF HomeInv
    <2>3. Alone'
      <3>1. SUFFICES ASSUME OneProcess'
                     PROVE  (AgentAlone /\ ShownAlone /\ WriteAlone /\ UsableAlone)'
        BY DEF Alone
      <3>2. OneProcess
        BY <2>1, <3>1 DEF OneProcess
      <3>3. DOMAIN command = {1} /\ p = 1
        BY <3>2 DEF OneProcess, HomeInv, BoundsOK
      <3> QED
        BY <1>1, <3>2, <3>3, AgentAloneKept, ShownAloneKept, WriteAloneKept,
           UsableAloneKept
    <2>4. (row' # NoRow => DOMAIN row' = RowFields) /\ (home' # NoHome => HomeOK(home'))
      BY <1>1, RowKept, HomeKept DEF HomeInv
    <2>5. launched' # NoAgent => AgentOK(launched')
      BY <1>1, AgentKept
    <2> QED
      BY <2>1, <2>2, <2>3, <2>4, <2>5 DEF HomeInv
  <1>2. CASE agent_remembers
    BY <1>2, RemembersKeeps
  <1>3. CASE UNCHANGED homeVars
    BY <1>3 DEF homeVars, HomeInv, BoundsOK, Alone, OneProcess, AgentAlone, ShownAlone,
                WriteAlone, UsableAlone, Whole
  <1> QED
    BY <1>1, <1>2, <1>3 DEF HomeNext, ProcessStep

\* The invariant holds of the specification.
THEOREM HomesAreInOrder ==
    ASSUME HomeConstants
    PROVE  HomeSpec => []HomeInv
  BY HomeInitially, HomeStep, PTL DEF HomeSpec

\* With one engine, and unless a kill or a failed rollback cut a registration
\* short, a registered instance has a home that can be read and started
\* (register_inner, materialize_home, the rollback of registry.rs).
THEOREM RegisteredIsUsable ==
    ASSUME HomeConstants
    PROVE  HomeSpec => []RegisteredMeansUsable
  <1>1. HomeInv => RegisteredMeansUsable
    <2> SUFFICES ASSUME HomeInv, OneProcess, AllIdle, ~spoiled, row # NoRow PROVE Whole
      BY DEF RegisteredMeansUsable, Whole
    <2>1. command[1].at = "idle"
      BY DEF AllIdle, At, HomeInv, BoundsOK, OneProcess
    <2> QED
      BY <2>1 DEF HomeInv, Alone, UsableAlone, Settled
  <1> QED
    BY <1>1, HomesAreInOrder, PTL

\* No agent sees a mask or a bare reference, the memory directory comes from the
\* engine and only with a filesystem backing, and with one engine the snapshot
\* of the configuration is that of this run with every secret masked
\* (mapping_effective, apply_config_mapping, write_effective_config_snapshot).
THEOREM LaunchesAreHonest ==
    ASSUME HomeConstants
    PROVE  HomeSpec => []LaunchIsHonest
  <1>1. HomeInv => LaunchIsHonest
    <2> SUFFICES ASSUME HomeInv, launched # NoAgent, OneProcess PROVE LaunchIsHonest
      BY DEF LaunchIsHonest
    <2>1. AgentOK(launched)
      BY DEF HomeInv
    <2>2. home # NoHome => home.snapshot = Shown(launched.shown)
      BY DEF HomeInv, Alone, AgentAlone
    <2>3. home # NoHome => Holds(home.snapshot, {"plain", "mask"})
      BY DEF HomeInv, HomeOK
    <2>4. Range(launched.config) \cup Range(launched.native) \subseteq Delivered
      BY <2>1 DEF AgentOK, GivenOK, Holds, Range
    <2>5. home # NoHome => "cleartext" \notin Range(home.snapshot)
      BY <2>3 DEF Holds, Range
    <2> QED
      BY <2>1, <2>2, <2>4, <2>5 DEF LaunchIsHonest, AgentOK, GivenOK, FromEngine, Shown,
                                    Delivered
  <1> QED
    BY <1>1, HomesAreInOrder, PTL

\* A config write loses no leaf but those under its key, and what the agent kept
\* in its memory directory survives everything but a deletion asked for and the
\* rollback of a failed registration (set_dotted, write_config, ensure_dir).
THEOREM NothingGetsLost ==
    ASSUME HomeConstants
    PROVE  HomeSpec => NothingIsLost
  <1>1. HomeInv /\ [HomeNext]_homeVars => KeepsSiblings
    <2> SUFFICES ASSUME HomeInv, [HomeNext]_homeVars, NEW p \in DOMAIN command,
                        OneProcess, At(p, "write config"), home # NoHome,
                        home'.config # home.config, NEW l \in DOMAIN home.config
                 PROVE  \/ IsPrefix(command[p].key, l)
                        \/ l \in DOMAIN home'.config /\ home'.config[l] = home.config[l]
      BY DEF KeepsSiblings
    <2>1. p = 1 /\ DOMAIN command = {1}
      BY OneIsAlone DEF HomeInv
    <2>2. DOMAIN home = HomeFields
      BY DEF HomeInv, HomeOK
    <2>3. CASE ProcessStep(1)
      <3>1. write_config(1)
        <4>1. write_config(1) \/ killed(1)
          BY <2>1, <2>3 DEF ProcessStep, Registering, register, make_home, seed_config,
             truncate_snapshot, write_snapshot, materialize_fails, roll_back_row,
             roll_back_home, Materializing, remove, delete_home, set_config,
             attach_memory, attach, detach_memory, clear_memory_backing, Starting, start,
             render, write_effective_config_snapshot, launch, stop, At
        <4> QED
          BY <4>1 DEF killed
      <3>2. home' = [home EXCEPT !.config = command[1].table]
        BY <3>1 DEF write_config, write_atomically
      <3>3. home'.config = command[1].table
        BY <2>2, <3>2 DEF HomeFields
      <3> QED
        BY <2>1, <3>3 DEF HomeInv, Alone, WriteAlone, KeepsOthers, At
    <2>4. CASE agent_remembers
      <3>1. home' = [home EXCEPT !.memory = "notes"]
        BY <2>4 DEF agent_remembers
      <3> QED
        BY <2>2, <3>1 DEF HomeFields
    <2>5. CASE UNCHANGED homeVars
      BY <2>5 DEF homeVars
    <2> QED
      BY <2>1, <2>3, <2>4, <2>5 DEF HomeNext, ProcessStep
  <1>2. HomeInv /\ [HomeNext]_homeVars => KeepsMemory
    <2> SUFFICES ASSUME HomeInv, [HomeNext]_homeVars, home # NoHome, home.memory = "notes",
                        \A p \in DOMAIN command :
                            ~At(p, "delete home") /\ ~At(p, "roll back home")
                 PROVE  home' # NoHome /\ home'.memory = "notes"
      BY DEF KeepsMemory
    <2>1. HomeOK(home) /\ DOMAIN home = HomeFields
      BY DEF HomeInv, HomeOK
    <2>2. CASE home' = home \/ home' = ensure_dir
      BY <2>2 DEF ensure_dir
    <2>3. CASE home' = with_memory
      <3>1. DOMAIN home' = HomeFields /\ home'.memory = "notes"
        BY <2>1, <2>3, EnsuredIs DEF HomeOK
      <3> QED
        BY <3>1, HomeIsThere
    <2>4. CASE \E x : \/ home' = [home EXCEPT !.config = x]
                      \/ home' = [home EXCEPT !.adapter = x]
                      \/ home' = [home EXCEPT !.native = x]
                      \/ home' = [home EXCEPT !.snapshot = x]
                      \/ home' = [home EXCEPT !.memory = "notes"]
      <3>1. DOMAIN home' = HomeFields /\ home'.memory = "notes"
        BY <2>1, <2>4 DEF HomeFields
      <3> QED
        BY <3>1, HomeIsThere
    <2>5. ASSUME NEW p \in DOMAIN command, ProcessStep(p)
          PROVE  \/ home' = home \/ home' = ensure_dir \/ home' = with_memory
                 \/ \E x : \/ home' = [home EXCEPT !.config = x]
                           \/ home' = [home EXCEPT !.adapter = x]
                           \/ home' = [home EXCEPT !.native = x]
                           \/ home' = [home EXCEPT !.snapshot = x]
                           \/ home' = [home EXCEPT !.memory = "notes"]
      <3>1. CASE Registering(p)
        BY <3>1 DEF Registering, register, make_home, seed_config, truncate_snapshot,
                    write_snapshot, materialize_fails, roll_back_row, roll_back_home,
                    write_atomically
      <3>2. CASE ~Registering(p)
        BY <2>5, <3>2 DEF ProcessStep, Starting, remove, delete_home, set_config,
                    write_config, attach_memory, attach, detach_memory,
                    clear_memory_backing, start, render, write_effective_config_snapshot,
                    launch, stop, killed, write_atomically
      <3> QED
        BY <3>1, <3>2
    <2>6. CASE agent_remembers
      BY <2>4, <2>6 DEF agent_remembers
    <2>7. CASE UNCHANGED homeVars
      BY <2>2, <2>7 DEF homeVars
    <2>8. CASE \E p \in DOMAIN command : ProcessStep(p)
      BY <2>2, <2>3, <2>4, <2>5, <2>8
    <2> QED
      BY <2>6, <2>7, <2>8 DEF HomeNext, ProcessStep
  <1> QED
    BY <1>1, <1>2, HomesAreInOrder, PTL DEF HomeSpec, NothingIsLost
=============================================================================
