---------------------------- MODULE DecisionProofs ----------------------------
(***************************************************************************)
(* Theorems about the components that decide: the poll corroboration of    *)
(* the reaper, the contract of an adapter and the kt command line.         *)
(***************************************************************************)
EXTENDS PollCorroboration, AdapterContract, Kt, TLAPS

-----------------------------------------------------------------------------
(***************************************************************************)
(* Theorems about PollCorroboration, for any handles and any thresholds.   *)
(***************************************************************************)

\* The two thresholds, and the ticks an outage is still trusted at.
MaxErrors == MAX_CONSECUTIVE_POLL_ERRORS
MaxTicks  == MAX_CONSECUTIVE_ENVIRONMENTAL_TICKS

Trusted == IF consecutive_environmental_ticks <= MaxTicks
           THEN consecutive_environmental_ticks ELSE MaxTicks

\* Every credited error is preceded by at most one trusted outage, and every
\* credited error was earned.
StreakIsBacked ==
    /\ watch.outage = consecutive_environmental_ticks
    /\ \A h \in Handles :
          /\ watch.erred[h] <= poll_error_streaks[h] * (MaxTicks + 1) + Trusted
          /\ poll_error_streaks[h] <= watch.earned[h]

WatchType ==
    [erred : [Handles -> Nat], earned : [Handles -> Nat],
     outage : 0 .. MaxTicks + 1, unreadable : SUBSET Handles]

Types == PollTypeOK /\ watch \in WatchType

PollInv == Types /\ StreakIsBacked /\ OutageIsNoCrash

-----------------------------------------------------------------------------
\* A verdict is at most one above the streak, and only a credited one is.
LEMMA Verdict ==
    ASSUME Types, NEW erring \in SUBSET holding, NEW h \in Handles
    PROVE  /\ poll_verdict(erring, h) \in Nat
           /\ h \notin erring => poll_verdict(erring, h) = 0
           /\ (h \in erring /\ environmental_tick(erring))
                 => poll_verdict(erring, h) = poll_error_streaks[h]
           /\ (h \in erring /\ ~environmental_tick(erring))
                 => poll_verdict(erring, h) = poll_error_streaks[h] + 1
  BY PollAssumption DEF poll_verdict, Types, PollTypeOK

\* The history of an outage and the engine's own count move together, and an
\* error is earned exactly when it is credited.
LEMMA OutageCounts ==
    ASSUME Types, watch.outage = consecutive_environmental_ticks,
           NEW erring \in SUBSET holding
    PROVE  /\ Outage(erring) =
                  (IF Several(erring) THEN EnvironmentalTicks ELSE 0)
           /\ Outage(erring) \in 0 .. MaxTicks + 1
           /\ Earned(erring) = (IF environmental_tick(erring) THEN 0 ELSE 1)
  BY PollAssumption
     DEF Types, WatchType, PollTypeOK, Outage, Earned, EnvironmentalTicks,
         environmental_tick, MaxTicks

LEMMA PollTypesInit == PollInit => PollInv
<1> SUFFICES ASSUME PollInit PROVE PollInv
  OBVIOUS
<1> USE PollAssumption DEF PollInit, NotWatched, NoStreaks, MaxTicks, MaxErrors
<1>1. Types
  BY DEF Types, PollTypeOK, WatchType
<1>2. StreakIsBacked
  BY DEF StreakIsBacked, Trusted
<1>3. OutageIsNoCrash
  BY DEF OutageIsNoCrash
<1> QED BY <1>1, <1>2, <1>3 DEF PollInv

-----------------------------------------------------------------------------
LEMMA PollOnceStep ==
    ASSUME PollInv,
           NEW erring \in SUBSET holding,
           NEW exited \in SUBSET (holding \ erring),
           poll_once(erring, exited)
    PROVE  PollInv'
<1> DEFINE lost == exited \cup PersistentError(erring)
           v(h) == poll_verdict(erring, h)
<1> USE PollAssumption DEF MaxTicks, MaxErrors
<1>1. Types /\ StreakIsBacked /\ holding \subseteq Handles
  BY DEF PollInv, Types, PollTypeOK
<1>2. /\ holding' = holding \ lost
      /\ poll_error_streaks' = [h \in Handles |-> IF h \in lost THEN 0 ELSE v(h)]
      /\ watch' = Watched(erring, lost)
      /\ consecutive_environmental_ticks' =
            (IF Several(erring) THEN EnvironmentalTicks ELSE 0)
  BY DEF poll_once, Kept
<1>3. \A h \in Handles : v(h) \in Nat /\ (h \notin erring => v(h) = 0)
  BY <1>1, Verdict
<1>4. \A h \in Handles \ lost : v(h) <= MaxErrors - 1
  <2> TAKE h \in Handles \ lost
  <2>1. CASE h \in erring
    <3>1. ~(v(h) >= MaxErrors)
      BY <2>1 DEF PersistentError
    <3> QED BY <3>1, <1>3
  <2>2. CASE h \notin erring
    BY <2>2, <1>3
  <2> QED BY <2>1, <2>2
<1>5. /\ watch'.outage = consecutive_environmental_ticks'
      /\ watch'.outage \in 0 .. MaxTicks + 1
      /\ Earned(erring) = (IF environmental_tick(erring) THEN 0 ELSE 1)
  <2>1. watch'.outage = Outage(erring)
    BY <1>2 DEF Watched
  <2> QED BY <1>1, <1>2, <2>1, OutageCounts DEF StreakIsBacked
<1>6. PersistentError(erring) \subseteq Handles
  BY <1>1 DEF PersistentError
<1>7. Types'
  <2>1. poll_error_streaks' \in [Handles -> 0 .. MaxErrors - 1]
    BY <1>2, <1>3, <1>4
  <2>2. watch' \in WatchType'
    <3>1. [h \in Handles |-> IF h \in erring \ lost THEN watch.erred[h] + 1 ELSE 0]
             \in [Handles -> Nat]
      BY <1>1 DEF Types, WatchType
    <3>2. [h \in Handles |-> IF h \in erring THEN watch.earned[h] + Earned(erring) ELSE 0]
             \in [Handles -> Nat]
      BY <1>1, <1>5 DEF Types, WatchType
    <3> QED BY <1>2, <1>5, <1>6, <3>1, <3>2 DEF WatchType, Watched
  <2> QED BY <1>1, <1>2, <1>5, <2>1, <2>2 DEF Types, PollTypeOK, WatchType
<1>8. ASSUME NEW h \in Handles
      PROVE  /\ watch'.erred[h] <= poll_error_streaks'[h] * (MaxTicks + 1) + Trusted'
             /\ poll_error_streaks'[h] <= watch'.earned[h]
  <2> DEFINE s == poll_error_streaks[h]
  <2>1. /\ s \in 0 .. MaxErrors - 1 /\ watch.erred[h] \in Nat /\ watch.earned[h] \in Nat
        /\ watch.erred[h] <= s * (MaxTicks + 1) + Trusted /\ s <= watch.earned[h]
        /\ Trusted \in 0 .. MaxTicks /\ consecutive_environmental_ticks \in Nat
    BY <1>1 DEF Types, PollTypeOK, WatchType, StreakIsBacked, Trusted
  <2>2. Trusted' \in 0 .. MaxTicks
    BY <1>7 DEF Types, PollTypeOK, Trusted
  <2>3. /\ poll_error_streaks'[h] = (IF h \in lost THEN 0 ELSE v(h))
        /\ watch'.erred[h] = (IF h \in erring \ lost THEN watch.erred[h] + 1 ELSE 0)
        /\ watch'.earned[h] =
              (IF h \in erring THEN watch.earned[h] + Earned(erring) ELSE 0)
    BY <1>2 DEF Watched
  <2>4. CASE h \notin erring \/ h \in lost
    <3>1. poll_error_streaks'[h] = 0 /\ watch'.erred[h] = 0
      BY <2>3, <2>4, <1>3
    <3>2. watch'.earned[h] \in Nat
      BY <2>1, <2>3, <1>5
    <3>3. poll_error_streaks'[h] * (MaxTicks + 1) = 0
      BY <3>1
    <3>4. watch'.erred[h] <= poll_error_streaks'[h] * (MaxTicks + 1) + Trusted'
      BY <3>1, <3>3, <2>2
    <3>5. poll_error_streaks'[h] <= watch'.earned[h]
      BY <3>1, <3>2
    <3> QED BY <3>4, <3>5
  <2>5. CASE h \in erring \ lost /\ environmental_tick(erring)
    <3>1. poll_error_streaks'[h] = s /\ watch'.erred[h] = watch.erred[h] + 1
      BY <2>3, <2>5, <1>1, Verdict
    <3>2. Trusted' = Trusted + 1
      BY <1>2, <2>1, <2>5 DEF environmental_tick, EnvironmentalTicks, Trusted
    <3>3. watch'.earned[h] = watch.earned[h]
      BY <2>1, <2>3, <2>5, <1>5
    <3> QED BY <3>1, <3>2, <3>3, <2>1
  <2>6. CASE h \in erring \ lost /\ ~environmental_tick(erring)
    <3>1. poll_error_streaks'[h] = s + 1 /\ watch'.erred[h] = watch.erred[h] + 1
      BY <2>3, <2>6, <1>1, Verdict
    <3>2. watch'.earned[h] = watch.earned[h] + 1
      BY <2>1, <2>3, <2>6, <1>5
    <3>3. (s + 1) * (MaxTicks + 1) = s * (MaxTicks + 1) + MaxTicks + 1
      BY <2>1
    <3>4. s * (MaxTicks + 1) \in Nat
      BY <2>1
    <3> QED BY <3>1, <3>2, <3>3, <3>4, <2>1, <2>2
  <2> QED BY <2>4, <2>5, <2>6
<1>9. OutageIsNoCrash'
  <2> SUFFICES ASSUME NEW h \in PersistentError(erring)
               PROVE  watch'.earned[h] >= MaxErrors
    BY <1>2 DEF OutageIsNoCrash, Watched
  <2>1. h \in erring /\ h \in Handles /\ v(h) >= MaxErrors
    BY <1>6 DEF PersistentError
  <2>2. poll_error_streaks[h] \in 0 .. MaxErrors - 1 /\ poll_error_streaks[h] <= watch.earned[h]
        /\ watch.earned[h] \in Nat
    BY <1>1, <2>1 DEF Types, PollTypeOK, WatchType, StreakIsBacked
  <2>3. ~environmental_tick(erring) /\ v(h) = poll_error_streaks[h] + 1
    <3>1. environmental_tick(erring) => v(h) = poll_error_streaks[h]
      BY <1>1, <2>1, Verdict
    <3>2. ~environmental_tick(erring) => v(h) = poll_error_streaks[h] + 1
      BY <1>1, <2>1, Verdict
    <3> HIDE DEF v
    <3> QED BY <3>1, <3>2, <2>1, <2>2
  <2>4. watch'.earned[h] = watch.earned[h] + 1
    BY <1>2, <1>5, <2>1, <2>3 DEF Watched
  <2> QED BY <2>1, <2>2, <2>3, <2>4
<1> QED BY <1>5, <1>7, <1>8, <1>9 DEF PollInv, StreakIsBacked

\* A handle that comes or goes starts afresh.
LEMMA ClearStep ==
    ASSUME PollInv, NEW h \in Handles, hold(h) \/ release(h)
    PROVE  PollInv'
<1> USE PollAssumption DEF MaxTicks, MaxErrors
<1>1. Clear(h) /\ holding' \subseteq Handles
  BY DEF hold, release, PollInv, Types, PollTypeOK
<1>2. /\ poll_error_streaks' = [poll_error_streaks EXCEPT ![h] = 0]
      /\ watch' = [watch EXCEPT !.erred = [@ EXCEPT ![h] = 0],
                                !.earned = [@ EXCEPT ![h] = 0], !.unreadable = {}]
      /\ consecutive_environmental_ticks' = consecutive_environmental_ticks
  BY <1>1 DEF Clear
<1>3. Types'
  <2>1. watch \in WatchType
    BY DEF PollInv, Types
  <2>2. watch' \in WatchType
    BY <1>2, <2>1 DEF WatchType
  <2>3. poll_error_streaks' \in [Handles -> 0 .. MaxErrors - 1]
    BY <1>2 DEF PollInv, Types, PollTypeOK
  <2>4. PollTypeOK'
    BY <1>1, <1>2, <2>2, <2>3 DEF PollInv, Types, PollTypeOK, WatchType
  <2> QED BY <2>2, <2>4 DEF Types, WatchType
<1>4. StreakIsBacked'
  <2>1. Trusted' = Trusted /\ Trusted \in 0 .. MaxTicks
    BY <1>2 DEF Trusted, PollInv, Types, PollTypeOK
  <2>2. watch'.outage = consecutive_environmental_ticks'
    <3>1. watch.outage = consecutive_environmental_ticks
      BY DEF PollInv, StreakIsBacked
    <3>2. watch'.outage = watch.outage
      BY <1>2 DEF PollInv, Types, WatchType
    <3> QED BY <1>2, <3>1, <3>2
  <2>3. ASSUME NEW k \in Handles
        PROVE  /\ watch'.erred[k] <= poll_error_streaks'[k] * (MaxTicks + 1) + Trusted'
               /\ poll_error_streaks'[k] <= watch'.earned[k]
    <3>1. CASE k = h
      <4>1. watch'.erred[k] = 0 /\ poll_error_streaks'[k] = 0 /\ watch'.earned[k] = 0
        BY <1>2, <3>1 DEF PollInv, Types, PollTypeOK, WatchType
      <4>2. poll_error_streaks'[k] * (MaxTicks + 1) = 0
        BY <4>1
      <4> QED BY <4>1, <4>2, <2>1
    <3>2. CASE k # h
      <4>1. /\ watch'.erred[k] = watch.erred[k]
            /\ poll_error_streaks'[k] = poll_error_streaks[k]
            /\ watch'.earned[k] = watch.earned[k]
        BY <1>2, <3>2 DEF PollInv, Types, PollTypeOK, WatchType
      <4>2. /\ watch.erred[k] <= poll_error_streaks[k] * (MaxTicks + 1) + Trusted
            /\ poll_error_streaks[k] <= watch.earned[k]
        BY DEF PollInv, StreakIsBacked
      <4> QED BY <4>1, <4>2, <2>1
    <3> QED BY <3>1, <3>2
  <2> QED BY <2>2, <2>3 DEF StreakIsBacked
<1>5. OutageIsNoCrash'
  BY <1>2 DEF OutageIsNoCrash, PollInv, Types, WatchType
<1> QED BY <1>3, <1>4, <1>5 DEF PollInv

LEMMA ReopenStep == ASSUME engine_reopened PROVE PollInv'
<1> USE PollAssumption DEF engine_reopened, NotWatched, NoStreaks, MaxTicks, MaxErrors
<1>1. Types'
  BY DEF Types, PollTypeOK, WatchType
<1>2. StreakIsBacked'
  BY DEF StreakIsBacked, Trusted
<1>3. OutageIsNoCrash'
  BY DEF OutageIsNoCrash
<1> QED BY <1>1, <1>2, <1>3 DEF PollInv

LEMMA PollInvariant == PollSpec => []PollInv
<1>1. PollInit => PollInv
  BY PollTypesInit
<1>2. PollInv /\ [PollNext]_pollVars => PollInv'
  <2> SUFFICES ASSUME PollInv, [PollNext]_pollVars PROVE PollInv'
    OBVIOUS
  <2>1. CASE tick
    BY <2>1, PollOnceStep DEF tick
  <2>2. CASE \E h \in Handles : hold(h) \/ release(h)
    BY <2>2, ClearStep
  <2>3. CASE engine_reopened
    BY <2>3, ReopenStep
  <2>4. CASE UNCHANGED pollVars
    BY <2>4 DEF pollVars, PollInv, Types, PollTypeOK, WatchType, StreakIsBacked,
                Trusted, OutageIsNoCrash
  <2> QED BY <2>1, <2>2, <2>3, <2>4 DEF PollNext
<1> QED BY <1>1, <1>2, PTL DEF PollSpec

-----------------------------------------------------------------------------
\* A handle that errs at every tick is given up within the bound, whatever the
\* thresholds and however many peers flap beside it: poll_once's detection
\* cannot be switched off.
THEOREM BrokenNoticed == PollSpec => []BrokenIsNoticed
<1>1. PollInv => BrokenIsNoticed
  <2> SUFFICES ASSUME PollInv, NEW h \in holding
               PROVE  watch.erred[h] <= Tolerated
    BY DEF BrokenIsNoticed
  <2> DEFINE s == poll_error_streaks[h]
  <2>1. h \in Handles
    BY DEF PollInv, Types, PollTypeOK
  <2>2. /\ s \in 0 .. MaxErrors - 1 /\ MaxErrors \in Nat /\ MaxTicks \in Nat
        /\ watch.erred[h] \in Nat /\ Trusted \in 0 .. MaxTicks
        /\ watch.erred[h] <= s * (MaxTicks + 1) + Trusted
    BY <2>1, PollAssumption
       DEF PollInv, Types, PollTypeOK, WatchType, StreakIsBacked, Trusted, MaxTicks, MaxErrors
  <2>3. s * (MaxTicks + 1) <= (MaxErrors - 1) * (MaxTicks + 1)
    <3> DEFINE m == MaxErrors - 1
               e == MaxTicks + 1
    <3>1. m \in Nat /\ e \in Nat /\ s \in Nat /\ s <= m
      BY <2>2
    <3> HIDE DEF m, e, s
    <3>2. m * e = s * e + (m - s) * e
      BY <3>1
    <3>3. (m - s) * e >= 0
      BY <3>1
    <3>4. s * e <= m * e
      BY <3>1, <3>2, <3>3
    <3> QED BY <3>4 DEF m, e, s
  <2> QED BY <2>2, <2>3 DEF Tolerated, MaxTicks, MaxErrors
<1> QED BY <1>1, PollInvariant, PTL

\* No handle is given up for errors its peers shared within a trusted outage.
THEOREM OutageSpares == PollSpec => []OutageIsNoCrash
<1>1. PollInv => OutageIsNoCrash
  BY DEF PollInv
<1> QED BY <1>1, PollInvariant, PTL

-----------------------------------------------------------------------------
(***************************************************************************)
(* A start is honest, whatever the author does to the manifest.            *)
(***************************************************************************)

(***************************************************************************)
(* The invariant.                                                          *)
(***************************************************************************)

\* A snapshot that carries its launch, and that of a builtin, is of the engine's
\* own contract; one of before launches were kept may be of any.
SnapshotIsNegotiated ==
    snapshot # NoSnapshot /\ (snapshot.start # NoLaunch \/ ~snapshot.manifest)
        => negotiate_contract_version(snapshot.version)

\* Told of whatever a start does: the clauses of NothingIsDoneSilently.
TellsOfSecrets(a)  == \A k \in DOMAIN a.flags : a.flags[k] = "secret" => k \in a.told.argv
TellsOfShadowed(a) == \A v \in DOMAIN a.base : a.env[v] # a.base[v] => v \in a.told.shadow
TellsOfMemory(a)   ==
    a.memory =>
        \/ a.told.memory
        \/ \E v \in DOMAIN a.env : a.env[v] = "managed"
        \/ Memory \in DOMAIN a.rules /\ a.rules[Memory].to # "env"
        \/ Displaced(a.rules)
Tells(a) == TellsOfSecrets(a) /\ TellsOfShadowed(a) /\ TellsOfMemory(a)

StartIsNegotiated == starting.at # "none" => negotiate_contract_version(starting.version)
StartTells        == starting.at = "spawn" => Tells(starting)
AgentIsHonest     ==
    agent # NotStarted => negotiate_contract_version(agent.version) /\ Tells(agent)

ContractInv ==
    /\ SnapshotIsNegotiated
    /\ StartIsNegotiated
    /\ StartTells
    /\ AgentIsHonest
    /\ ~escaped

-----------------------------------------------------------------------------
(***************************************************************************)
(* The delivery of the leaves.                                             *)
(***************************************************************************)

\* Of two tables laid over each other the upper one's entries hold.
LEMMA UpperHolds ==
    ASSUME NEW f, NEW g, NEW x \in DOMAIN f
    PROVE  x \in DOMAIN Overlay(f, g) /\ Overlay(f, g)[x] = f[x]
  BY DEF Overlay

\* And the lower one's where the upper has none.
LEMMA LowerHolds ==
    ASSUME NEW f, NEW g, NEW x \in DOMAIN g, x \notin DOMAIN f
    PROVE  x \in DOMAIN Overlay(f, g) /\ Overlay(f, g)[x] = g[x]
  BY DEF Overlay

\* With a backing attached the leaves hold the managed directory.
LEMMA ManagedLeaf ==
    ASSUME NEW c
    PROVE  /\ Memory \in DOMAIN effective_mapping(c, TRUE)
           /\ effective_mapping(c, TRUE)[Memory] = "managed"
  <1> DEFINE managed == [k \in {Memory} |-> "managed"]
  <1>1. Memory \in DOMAIN managed /\ managed[Memory] = "managed"
    OBVIOUS
  <1>2. effective_mapping(c, TRUE) = Overlay(managed, c)
    BY DEF effective_mapping
  <1> HIDE DEF managed
  <1>3. Memory \in DOMAIN Overlay(managed, c) /\ Overlay(managed, c)[Memory] = managed[Memory]
    BY <1>1, UpperHolds
  <1> QED
    BY <1>1, <1>2, <1>3

\* A managed directory with a variable of its own is delivered there.
LEMMA ManagedIsDelivered ==
    ASSUME NEW base, NEW leaves, Memory \in DOMAIN leaves, leaves[Memory] = "managed",
           NEW rules, Memory \in DOMAIN rules, rules[Memory].to = "env", ~Displaced(rules),
           NEW env, env = apply_env(base, leaves, rules)
    PROVE  \E v \in DOMAIN env : env[v] = "managed"
  <1> DEFINE M == Var(leaves, rules, "model")
             D == Var(leaves, rules, Memory)
             P == Var(leaves, rules, "agent.A")
             n == rules[Memory].name
  <1>2. D = [v \in {n} |-> "managed"]
    BY DEF Var, Targeted, PassThrough, Memory
  <1>3. n \notin DOMAIN M
    <2>1. CASE "model" \in Targeted(leaves, rules, "env")
      <3>1. M = [v \in {rules["model"].name} |-> leaves["model"]]
        BY <2>1 DEF Var, PassThrough
      <3>2. "model" \in DOMAIN rules \ {Memory} /\ rules["model"].to = "env"
        BY <2>1 DEF Targeted, Memory
      <3>3. rules["model"].name # n
        BY <3>2 DEF Displaced
      <3> QED
        BY <3>1, <3>3
    <2>2. CASE "model" \notin Targeted(leaves, rules, "env")
      <3>1. M = [v \in {} |-> ""]
        BY <2>2 DEF Var, PassThrough
      <3> QED
        BY <3>1
    <2> QED
      BY <2>1, <2>2
  <1>4. n \in DOMAIN D /\ D[n] = "managed"
    BY <1>2
  <1> HIDE DEF M, D, P, n
  <1>5. LET R == Overlay(D, Overlay(P, base)) IN n \in DOMAIN R /\ R[n] = "managed"
    BY <1>4, UpperHolds
  <1>6. LET R == Overlay(M, Overlay(D, Overlay(P, base))) IN n \in DOMAIN R /\ R[n] = "managed"
    BY <1>3, <1>5, LowerHolds
  <1> QED
    BY <1>6 DEF apply_env, M, D, P

\* What a start tells is what its delivery does.
LEMMA DeliveryTells ==
    ASSUME NEW c, NEW b \in BOOLEAN, NEW rules, NEW base, NEW a,
           a.env = apply_env(base, effective_mapping(c, b), rules),
           a.base = base, a.rules = rules, a.memory = b,
           a.flags = [k \in Targeted(effective_mapping(c, b), rules, "flag")
                        |-> effective_mapping(c, b)[k]],
           a.told.argv = secret_flag_keys(effective_mapping(c, b), rules),
           a.told.shadow = shadowed_env_keys(base, a.env),
           a.told.memory = memory_delivery_notice(b, rules)
    PROVE  Tells(a)
  <1>1. TellsOfSecrets(a)
    BY DEF TellsOfSecrets, secret_flag_keys
  <1>2. TellsOfShadowed(a)
    BY DEF TellsOfShadowed, shadowed_env_keys
  <1>3. TellsOfMemory(a)
    <2>1. SUFFICES ASSUME b = TRUE, Memory \in DOMAIN rules, rules[Memory].to = "env",
                          ~Displaced(rules)
                   PROVE  \E v \in DOMAIN a.env : a.env[v] = "managed"
      BY DEF TellsOfMemory, memory_delivery_notice
    <2>2. PICK leaves : leaves = effective_mapping(c, b)
      OBVIOUS
    <2>3. a.env = apply_env(base, leaves, rules)
      BY <2>2
    <2>4. Memory \in DOMAIN leaves /\ leaves[Memory] = "managed"
      BY <2>1, <2>2, ManagedLeaf
    <2> QED
      BY <2>1, <2>3, <2>4, ManagedIsDelivered
  <1> QED
    BY <1>1, <1>2, <1>3 DEF Tells

\* A mapping that validates names no file outside the home.
LEMMA ValidStaysInside ==
    ASSUME NEW leaves, NEW rules, valid_mapping(rules)
    PROVE  ~Outside(leaves, rules)
  <1>1. ASSUME NEW k \in DOMAIN rules, rules[k].to = "file"
        PROVE  rules[k].path # "outside"
    <2>1. valid_rule(rules[k])
      BY DEF valid_mapping
    <2> QED
      BY <2>1, <1>1 DEF valid_rule, is_safe_relative_path
  <1> QED
    BY <1>1 DEF Outside, Targeted

-----------------------------------------------------------------------------
(***************************************************************************)
(* The steps.                                                              *)
(***************************************************************************)

\* The invariant holds at first, and says of its parts what it says.
LEMMA ContractInitially == ContractInit => ContractInv
  <1> SUFFICES ASSUME ContractInit PROVE ContractInv
    OBVIOUS
  <1>1. SnapshotIsNegotiated
    <2>1. CASE snapshot = NoSnapshot
      BY <2>1 DEF SnapshotIsNegotiated
    <2>2. CASE snapshot \in LegacySnapshots
      <3>1. snapshot.start = NoLaunch /\ snapshot.manifest = TRUE
        BY <2>2 DEF LegacySnapshots, Snapshot
      <3> QED
        BY <3>1 DEF SnapshotIsNegotiated
    <2> QED
      BY <2>1, <2>2 DEF ContractInit
  <1> QED
    BY <1>1 DEF ContractInit, ContractInv, StartIsNegotiated, StartTells, AgentIsHonest,
                NoStart

\* A registration keeps the version that was negotiated.
LEMMA RegistrationKeeps ==
    ASSUME ContractConstants, ContractInv,
           register_manifest \/ \E kind \in DOMAIN Builtins : register_native(kind)
    PROVE  ContractInv'
  <1>1. UNCHANGED <<starting, agent, escaped>>
    BY DEF register_manifest, register_native
  <1>2. negotiate_contract_version(snapshot'.version)
    <2>1. CASE register_manifest
      BY <2>1 DEF register_manifest, resolve_manifest, Snapshot
    <2>2. CASE \E kind \in DOMAIN Builtins : register_native(kind)
      BY <2>2 DEF register_native, Snapshot, negotiate_contract_version, is_semver,
                  ContractConstants
    <2> QED
      BY <2>1, <2>2
  <1> QED
    BY <1>1, <1>2 DEF ContractInv, SnapshotIsNegotiated, StartIsNegotiated, StartTells,
                      AgentIsHonest, negotiate_contract_version

\* A start takes its launch from a negotiated manifest, snapshotted or re-read.
LEMMA LaunchKeeps ==
    ASSUME ContractInv, NEW detach \in BOOLEAN, resolve_launch(detach)
    PROVE  ContractInv'
  <1>1. UNCHANGED <<snapshot, agent, escaped>>
    BY DEF resolve_launch
  <1>2. starting'.at = "mapping"
    BY DEF resolve_launch
  <1>3. negotiate_contract_version(starting'.version)
    <2>1. CASE snapshot.start # NoLaunch \/ ~snapshot.manifest
      <3>1. starting'.version = snapshot.version
        BY <2>1 DEF resolve_launch
      <3>2. negotiate_contract_version(snapshot.version)
        BY <2>1 DEF resolve_launch, ContractInv, SnapshotIsNegotiated
      <3> QED
        BY <3>1, <3>2
    <2>2. CASE snapshot.start = NoLaunch /\ snapshot.manifest
      <3>1. starting'.version = disk.version
        BY <2>2 DEF resolve_launch
      <3>2. resolve_start_launch(snapshot) # NoLaunch
        BY <2>2 DEF resolve_launch
      <3>3. negotiate_contract_version(disk.version)
        BY <2>2, <3>2 DEF resolve_start_launch
      <3> QED
        BY <3>1, <3>3
    <2> QED
      BY <2>1, <2>2
  <1> QED
    BY <1>1, <1>2, <1>3 DEF ContractInv, SnapshotIsNegotiated, StartIsNegotiated,
                            StartTells, AgentIsHonest, negotiate_contract_version

\* The second read: what is delivered is told, and stays inside the home.
LEMMA MappingKeeps ==
    ASSUME ContractInv, backing \in BOOLEAN, apply_config_mapping
    PROVE  ContractInv'
  <1>1. UNCHANGED <<snapshot, agent>> /\ starting.at = "mapping"
    BY DEF apply_config_mapping
  <1>2. negotiate_contract_version(starting.version)
    BY <1>1 DEF ContractInv, StartIsNegotiated
  <1>3. CASE starting' = NoStart /\ UNCHANGED escaped
    BY <1>1, <1>3 DEF ContractInv, SnapshotIsNegotiated, StartIsNegotiated, StartTells,
                      AgentIsHonest, NoStart
  <1>4. CASE ~(starting' = NoStart /\ UNCHANGED escaped)
    <2> DEFINE leaves == effective_mapping(config, backing)
    <2>1. PICK rules \in resolve_config_mapping(snapshot) :
             LET env == apply_env(starting.launch.env, leaves, rules)
             IN  /\ starting' =
                        [at |-> "spawn", version |-> starting.version, rules |-> rules,
                         exec |-> starting.launch.exec, env |-> env,
                         base |-> starting.launch.env, stdin |-> starting.stdin,
                         flags |-> [k \in Targeted(leaves, rules, "flag") |-> leaves[k]],
                         memory |-> backing,
                         told |-> [argv |-> secret_flag_keys(leaves, rules),
                                   shadow |-> shadowed_env_keys(starting.launch.env, env),
                                   memory |-> memory_delivery_notice(backing, rules)]]
                 /\ escaped' = (escaped \/ Outside(leaves, rules))
      BY <1>4 DEF apply_config_mapping
    <2>2. valid_mapping(rules)
      BY DEF resolve_config_mapping
    <2>3. escaped' = FALSE
      BY <2>1, <2>2, ValidStaysInside DEF ContractInv
    <2>4. /\ starting'.at = "spawn" /\ starting'.version = starting.version
          /\ starting'.env = apply_env(starting.launch.env, leaves, rules)
          /\ starting'.base = starting.launch.env
          /\ starting'.rules = rules /\ starting'.memory = backing
          /\ starting'.flags = [k \in Targeted(leaves, rules, "flag") |-> leaves[k]]
          /\ starting'.told.argv = secret_flag_keys(leaves, rules)
          /\ starting'.told.memory = memory_delivery_notice(backing, rules)
          /\ starting'.told.shadow = shadowed_env_keys(starting.launch.env, starting'.env)
      BY <2>1
    <2>5. Tells(starting')
      BY <2>4, DeliveryTells
    <2> QED
      BY <1>1, <1>2, <2>3, <2>4, <2>5 DEF ContractInv, SnapshotIsNegotiated,
         StartIsNegotiated, StartTells, AgentIsHonest, negotiate_contract_version
  <1> QED
    BY <1>3, <1>4

\* The agent is what the start made of it.
LEMMA SpawnKeeps ==
    ASSUME ContractInv, spawn
    PROVE  ContractInv'
  <1>1. /\ agent' = starting /\ starting' = NoStart /\ starting.at = "spawn"
        /\ UNCHANGED <<snapshot, escaped>>
    BY DEF spawn
  <1>2. negotiate_contract_version(starting.version) /\ Tells(starting)
    BY <1>1 DEF ContractInv, StartIsNegotiated, StartTells
  <1> QED
    BY <1>1, <1>2 DEF ContractInv, SnapshotIsNegotiated, StartIsNegotiated, StartTells,
                      AgentIsHonest, NoStart, Tells, TellsOfSecrets, TellsOfShadowed,
                      TellsOfMemory, Displaced, negotiate_contract_version

\* What touches neither the snapshot nor the start keeps it all, and what ends
\* them leaves nothing to be said.
LEMMA RestKeeps ==
    ASSUME ContractInv,
           \/ edit \/ remove_instance \/ attach_backing \/ start_fails \/ stop_instance
           \/ \E k \in KnownKeys \cup PassThrough, v \in {"plain", "secret"} : set_instance_config(k, v)
           \/ UNCHANGED contractVars
    PROVE  ContractInv'
  <1>1. /\ snapshot' \in {snapshot, NoSnapshot} /\ starting' \in {starting, NoStart}
        /\ agent' \in {agent, NotStarted} /\ escaped' = escaped
    BY DEF edit, remove_instance, attach_backing, start_fails, stop_instance, set_instance_config, contractVars
  <1> QED
    BY <1>1 DEF ContractInv, SnapshotIsNegotiated, StartIsNegotiated, StartTells,
                AgentIsHonest, NoStart, Tells, TellsOfSecrets, TellsOfShadowed,
                TellsOfMemory, Displaced, negotiate_contract_version

-----------------------------------------------------------------------------
(***************************************************************************)
(* The theorem.                                                            *)
(***************************************************************************)

\* A backing is attached or it is not.
BackingIsFlag == backing \in BOOLEAN

\* Whatever manifests the author writes, deletes or breaks, and whenever: an
\* agent runs only a launch of the engine's own contract major, no file is
\* rendered outside its home, and a secret on its command line, a launch
\* variable replaced and a memory directory it is not given are told by the
\* start that does them (resolve_start_launch, resolve_config_mapping and
\* apply_config_mapping).
THEOREM StartsAreHonest ==
    ASSUME ContractConstants
    PROVE  ContractSpec => []StartIsHonest
  <1> DEFINE Inv == ContractInv /\ BackingIsFlag
  <1>1. ContractInit => Inv
    BY ContractInitially DEF ContractInit, BackingIsFlag
  <1>2. Inv /\ [ContractNext]_contractVars => Inv'
    <2> SUFFICES ASSUME ContractInv, BackingIsFlag, [ContractNext]_contractVars
                 PROVE  Inv'
      OBVIOUS
    <2>1. BackingIsFlag'
      BY DEF BackingIsFlag, ContractNext, contractVars, edit, register_manifest, remove_instance,
             attach_backing, register_native, set_instance_config, resolve_launch,
             apply_config_mapping, start_fails, spawn, stop_instance
    <2>2. CASE register_manifest \/ \E kind \in DOMAIN Builtins : register_native(kind)
      BY <2>1, <2>2, RegistrationKeeps
    <2>3. CASE \E detach \in BOOLEAN : resolve_launch(detach)
      BY <2>1, <2>3, LaunchKeeps
    <2>4. CASE apply_config_mapping
      BY <2>1, <2>4, MappingKeeps DEF BackingIsFlag
    <2>5. CASE spawn
      BY <2>1, <2>5, SpawnKeeps
    <2>6. CASE \/ edit \/ remove_instance \/ attach_backing \/ start_fails \/ stop_instance
               \/ \E k \in KnownKeys \cup PassThrough, v \in {"plain", "secret"} :
                      set_instance_config(k, v)
               \/ UNCHANGED contractVars
      BY <2>1, <2>6, RestKeeps
    <2> QED
      BY <2>2, <2>3, <2>4, <2>5, <2>6 DEF ContractNext
  <1>3. Inv => StartIsHonest
    BY DEF ContractInv, AgentIsHonest, Tells, TellsOfSecrets, TellsOfShadowed,
           TellsOfMemory, StartIsHonest, OnlyTheContractRuns, NothingIsDoneSilently
  <1> QED
    BY <1>1, <1>2, <1>3, PTL DEF ContractSpec

-----------------------------------------------------------------------------
(***************************************************************************)
(* Theorems about Kt, for any adapters and any number of faults and kills. *)
(*                                                                         *)
(* A code is honest for one of two reasons: the command was refused, and   *)
(* the first check that held explains the code and left all as it was; or  *)
(* every check passed, which says in what state the call was made, and     *)
(* each outcome of that call has the code it has.  What a command leaves   *)
(* behind rests on a live process having its row, its record and, while    *)
(* the engine is open, a session that holds it as the record says.         *)
(***************************************************************************)

Stages == {"idle", "open", "call", "read_back", "answered"}

\* The types of the state; a command under way is a command line.
KtShape ==
    /\ adapter \in Declarations /\ world \in World
    /\ session \in {"no", "attached", "detached"}
    /\ luck \in [faults : 0 .. MaxMishaps, kills : 0 .. MaxKills]
    /\ DOMAIN asked = {"at", "do", "error", "code", "fault", "before", "opened"}
    /\ asked.at \in Stages /\ asked.code \in 0 .. 6 \cup {101}
    /\ asked.fault \in BOOLEAN /\ asked.opened \in BOOLEAN /\ asked.before \in World
    /\ asked.at # "idle" => asked.do \in CommandLines

\* The rows under which a process may live.
RowsOfTheLiving == {"starting", "running", "paused", "stopping"}

\* The command that has just taken the row from under a live process.
RemovedAlive ==
    /\ asked.at = "answered" /\ asked.do.do = "remove"
    /\ asked.before.row \in {"starting", "stopping"} /\ world.record = "none"

\* A live process has its record and its row.
ProcessIsKnown ==
    world.process # "none" =>
        (world.record # "none" /\ world.row \in RowsOfTheLiving) \/ RemovedAlive

\* An open session holds what lives, as its record says it is to be dropped.
SessionHolds ==
    /\ asked.at \in {"idle", "open"} => session = "no"
    /\ asked.at = "call" /\ world.process # "none" => session = world.record
    /\ asked.at \in {"read_back", "answered"} /\ asked.opened
        /\ world.process # "none" /\ world.record = "attached" => session = "attached"

\* Only a guaranteed pause suspends; a row that has gone took its backing along.
SuspendedByGuarantee == world.process = "suspended" => adapter.pause = "guaranteed"
NoRowNoBacking == world.row = "absent" => world.backing = "none"

\* What is read back was attached; the engine is open from the call on.
ReadBackIsAttached ==
    asked.at = "read_back" =>
        /\ asked.do.do = "attach" /\ asked.do.name = "sound" /\ asked.opened
        /\ Achieved(asked.do, asked.before, world, session)
OpenedAtCall == /\ asked.at = "open" => ~asked.opened
                /\ asked.at = "call" => asked.opened

\* A command that opened the engine passed the checks made before.
Validated ==
    asked.at \in {"open", "call", "read_back"} =>
        Refusal(validate_instance_name(asked.do)) = "none"

\* The inductive invariant.
KtInv ==
    /\ ProcessIsKnown /\ SessionHolds /\ SuspendedByGuarantee /\ NoRowNoBacking
    /\ ReadBackIsAttached /\ NothingIsLeftRunning /\ CodeIsHonest /\ OpenedAtCall
    /\ Validated

\* A refusal is by the first check that holds.
LEMMA FirstHit ==
    ASSUME NEW c, DOMAIN c \subseteq 1 .. 6
    PROVE  \/ Refusal(c) = "none" /\ \A i \in DOMAIN c : ~c[i][1]
           \/ \E i \in DOMAIN c : /\ c[i][1] /\ Refusal(c) = c[i][2]
                                  /\ \A j \in 1 .. i - 1 : j \in DOMAIN c => ~c[j][1]
<1> DEFINE hits == {i \in DOMAIN c : c[i][1]}
           first(i) == i \in hits /\ \A j \in hits : i <= j
<1>1. CASE hits = {}
    BY <1>1 DEF Refusal
<1>2. CASE hits # {}
    <2>1. hits \subseteq 1 .. 6
        OBVIOUS
    <2>2. \E i \in hits : \A j \in hits : i <= j
        <3> HIDE DEF hits, first
        <3>1. \A k \in hits : k \in {1, 2, 3, 4, 5, 6}
            BY <2>1
        <3>2. PICK k \in hits : k < 7
            BY <1>2, <3>1
        <3>3. \E i \in {1, 2, 3, 4, 5, 6} : i \in hits /\ \A j \in {1, 2, 3, 4, 5, 6} : j < i => j \notin hits
            BY <3>1, <3>2
        <3> QED BY <3>1, <3>3
    <2>3. PICK i \in hits : i = (CHOOSE k \in hits : \A j \in hits : k <= j)
        BY <2>2
    <2>4. i \in DOMAIN c /\ c[i][1] /\ Refusal(c) = c[i][2]
        BY <1>2, <2>3 DEF Refusal
    <2>5. \A j \in hits : i <= j
        BY <2>2, <2>3
    <2>6. \A j \in 1 .. i - 1 : j \in DOMAIN c => ~c[j][1]
        <3> SUFFICES ASSUME NEW j \in 1 .. i - 1, j \in DOMAIN c, c[j][1] PROVE FALSE
            OBVIOUS
        <3>1. i <= j
            BY <2>5
        <3> QED BY <3>1, <2>1, <2>4
    <2> QED BY <2>4, <2>6
<1> QED BY <1>1, <1>2

\* What the arms of classify say.
LEMMA Classified ==
    /\ \A d \in {"AgentNotFound", "AgentManifestNotFound"} : classify(d) = 3
    /\ \A d \in {"AgentInvalidName", "AgentUnknownKind", "AgentUnknownConfigKey",
                 "AgentDuplicateName"} : classify(d) = 2
    /\ \A d \in {"AgentNotRunning", "AgentRunningRequiresForce", "AgentInvalidTransition",
                 "AgentStopUnconfirmed", "AgentMemoryHotSwap", "AgentMemoryKindConflict"} :
          classify(d) = 4
    /\ \A d \in {"AgentCapabilityUnsupported", "AgentResumeUnsupported",
                 "AgentInteractionUnavailable", "AgentDetachRefused"} : classify(d) = 5
    /\ \A d \in {"AgentIo", "AgentStore", "AgentConfig", "AgentLaunchFailed",
                 "AgentManifestUnreadable", "AgentManifestInvalid",
                 "AgentContractIncompatible", "AgentNoMeteringSource",
                 "AgentNoCapabilities"} : classify(d) = 1
BY DEF classify

\* The codes of a lifecycle command, of send and of logs.
LEMMA EngineCodes ==
    ASSUME NEW do \in LifecycleCommand \cup {"send", "logs"}
    PROVE  /\ exit_code(do, "none") = 0
           /\ exit_code(do, "InvalidName") = 2
           /\ exit_code(do, "NotFound") = 3
           /\ \A e \in {"InvalidTransition", "NotRunning", "StopUnconfirmed"} :
                 exit_code(do, e) = 4
           /\ \A e \in {"CapabilityUnsupported", "ResumeUnsupported", "DetachRefused",
                        "InteractionUnavailable"} : exit_code(do, e) = 5
           /\ \A e \in {"LaunchFailed", "Log", "Snapshot", "Secret", "ObservedMetering",
                        "AdapterUnresolved", "Backend", "Store", "Io"} :
                 exit_code(do, e) = 1
<1>1. Mapper(do) = map_engine_error
    BY DEF Mapper, LifecycleCommand
<1>2. \A e \in {"InvalidName", "NotFound", "InvalidTransition", "NotRunning",
               "StopUnconfirmed", "CapabilityUnsupported", "ResumeUnsupported",
               "DetachRefused", "InteractionUnavailable", "LaunchFailed", "Log",
               "Snapshot", "Secret", "ObservedMetering", "AdapterUnresolved", "Backend",
               "Store"} : diagnostic(do, e) = map_engine_error[e]
    BY <1>1 DEF diagnostic, map_engine_error
<1>3. diagnostic(do, "Io") = "AgentIo"
    BY <1>1 DEF diagnostic, map_engine_error, map_error
<1>4. exit_code(do, "none") = 0
    BY DEF exit_code
<1>5. exit_code(do, "InvalidName") = 2 /\ exit_code(do, "NotFound") = 3
    BY <1>2, Classified DEF exit_code, map_engine_error
<1>6. \A e \in {"InvalidTransition", "NotRunning", "StopUnconfirmed"} :
        exit_code(do, e) = 4
    BY <1>2, Classified DEF exit_code, map_engine_error
<1>7. \A e \in {"CapabilityUnsupported", "ResumeUnsupported", "DetachRefused",
               "InteractionUnavailable"} : exit_code(do, e) = 5
    BY <1>2, Classified DEF exit_code, map_engine_error
<1>8. \A e \in {"LaunchFailed", "Log", "Snapshot", "Secret", "ObservedMetering",
               "AdapterUnresolved", "Backend", "Store"} : exit_code(do, e) = 1
    BY <1>2, Classified DEF exit_code, map_engine_error
<1>9. exit_code(do, "Io") = 1
    BY <1>3, Classified DEF exit_code
<1> QED BY <1>4, <1>5, <1>6, <1>7, <1>8, <1>9

\* The codes of a config command.
LEMMA ConfigCodes ==
    ASSUME NEW do \in {"config_set", "config_get"}
    PROVE  /\ exit_code(do, "none") = 0
           /\ \A e \in {"InvalidName", "UnknownKey"} : exit_code(do, e) = 2
           /\ exit_code(do, "NotFound") = 3
           /\ \A e \in {"WriteShapeConflict", "InvalidValue", "MalformedLayer", "Store",
                        "SecretReveal", "Io"} : exit_code(do, e) = 1
<1>1. Mapper(do) = map_config_error
    BY DEF Mapper, LifecycleCommand
<1>2. \A e \in {"InvalidName", "UnknownKey", "NotFound", "WriteShapeConflict",
               "InvalidValue", "MalformedLayer", "Store", "SecretReveal"} :
        diagnostic(do, e) = map_config_error[e]
    BY <1>1 DEF diagnostic, map_config_error
<1>3. diagnostic(do, "Io") = "AgentIo"
    BY <1>1 DEF diagnostic, map_config_error, map_error
<1>4. exit_code(do, "none") = 0
    BY DEF exit_code
<1>5. \A e \in {"InvalidName", "UnknownKey"} : exit_code(do, e) = 2
    BY <1>2, Classified DEF exit_code, map_config_error
<1>6. exit_code(do, "NotFound") = 3
    BY <1>2, Classified DEF exit_code, map_config_error
<1>7. \A e \in {"WriteShapeConflict", "InvalidValue", "MalformedLayer", "Store",
               "SecretReveal"} : exit_code(do, e) = 1
    BY <1>2, Classified DEF exit_code, map_config_error
<1>8. exit_code(do, "Io") = 1
    BY <1>3, Classified DEF exit_code
<1> QED BY <1>4, <1>5, <1>6, <1>7, <1>8

\* The codes of every other command.
LEMMA RegistryCodes ==
    ASSUME NEW do \in {"register", "remove", "usage", "detach", "attach", "show", "list"}
    PROVE  /\ exit_code(do, "none") = 0
           /\ \A e \in {"DuplicateName", "InvalidName", "UnknownAdapterKind"} :
                 exit_code(do, e) = 2
           /\ \A e \in {"NotFound", "ManifestNotFound"} : exit_code(do, e) = 3
           /\ \A e \in {"RunningRequiresForce", "MemoryBackingHotSwap",
                        "MemoryBackingKindConflict"} : exit_code(do, e) = 4
           /\ \A e \in {"Io", "RemoveLeftoverHome", "RegisterOrphanRow", "Store",
                        "ManifestUnreadable", "ManifestInvalid", "ContractIncompatible",
                        "NoMeteringSource", "NoCapabilities"} : exit_code(do, e) = 1
<1>1. Mapper(do) = map_error
    BY DEF Mapper, LifecycleCommand
<1>2. \A e \in DOMAIN map_error : diagnostic(do, e) = map_error[e]
    BY <1>1 DEF diagnostic
<1>3. exit_code(do, "none") = 0
    BY DEF exit_code
<1>4. \A e \in {"DuplicateName", "InvalidName", "UnknownAdapterKind"} :
        exit_code(do, e) = 2
    BY <1>2, Classified DEF exit_code, map_error
<1>5. \A e \in {"NotFound", "ManifestNotFound"} : exit_code(do, e) = 3
    BY <1>2, Classified DEF exit_code, map_error
<1>6. \A e \in {"RunningRequiresForce", "MemoryBackingHotSwap",
               "MemoryBackingKindConflict"} : exit_code(do, e) = 4
    BY <1>2, Classified DEF exit_code, map_error
<1>7. \A e \in {"Io", "RemoveLeftoverHome", "RegisterOrphanRow", "Store",
               "ManifestUnreadable", "ManifestInvalid", "ContractIncompatible",
               "NoMeteringSource", "NoCapabilities"} : exit_code(do, e) = 1
    BY <1>2, Classified DEF exit_code, map_error
<1> QED BY <1>3, <1>4, <1>5, <1>6, <1>7

-----------------------------------------------------------------------------
(* A refusal is told truly; a command that is not refused was in order.    *)

\* What the code of a refusal must satisfy, everything being as it was.
Honest(r, e) ==
    LET n == exit_code(r.do, e) IN
    /\ n \in 1 .. 6
    /\ n = 3 => world.row = "absent" \/ (r.do = "register" /\ e = "ManifestNotFound")
    /\ n = 4 => world.row # "absent"
    /\ n = 1 => Explained(r, world, e)
    /\ r.name = "malformed" => n = 2

\* A refusal by the state, the adapter or an argument.
Fits(r, x) ==
    exit_code(r.do, x) \in {2, 4, 5} \/ (exit_code(r.do, x) = 1 /\ Explained(r, world, x))

\* What a command that is not refused is known to be.
InOrder(r) ==
    /\ r.name = "sound" /\ r.do # "send"
    /\ r.do = "register" => world.row = "absent"
    /\ r.do \notin {"register", "list"} => world.row # "absent"
    /\ r.do \in LifecycleCommand => Accepts(world.row, r.do)
    /\ r.do \in {"pause", "resume"} => adapter.pause # "unsupported"

\* The name is looked at first, the instance next.
LEMMA NamedRefusal ==
    ASSUME NEW r, r.name \in Given, NEW k \in 0 .. 4, NEW s,
           NEW c, DOMAIN c = 1 .. k + 2, c[1] = Malformed(r), c[2] = Unknown,
           \A i \in 1 .. k : c[i + 2] = s[i],
           exit_code(r.do, "InvalidName") = 2, exit_code(r.do, "NotFound") = 3,
           \A i \in 1 .. k : s[i][1] => Fits(r, s[i][2]),
           NEW e, e = Refusal(c)
    PROVE  /\ e = "none" => /\ r.name = "sound" /\ world.row # "absent"
                            /\ \A i \in 1 .. k : ~s[i][1]
           /\ e # "none" => Honest(r, e)
<1>1. /\ c[1][1] <=> r.name = "malformed"
      /\ c[1][2] = "InvalidName"
      /\ c[2][1] <=> world.row = "absent"
      /\ c[2][2] = "NotFound"
    <2>1. /\ Malformed(r)[1] <=> r.name = "malformed"
          /\ Malformed(r)[2] = "InvalidName"
        BY DEF Malformed
    <2>2. /\ Unknown[1] <=> world.row = "absent"
          /\ Unknown[2] = "NotFound"
        BY DEF Unknown
    <2> QED BY <2>1, <2>2
<1>2. \/ e = "none" /\ \A i \in DOMAIN c : ~c[i][1]
      \/ \E i \in DOMAIN c : /\ c[i][1] /\ e = c[i][2]
                             /\ \A j \in 1 .. i - 1 : j \in DOMAIN c => ~c[j][1]
    <2>1. DOMAIN c \subseteq 1 .. 6
        OBVIOUS
    <2> QED BY <2>1, FirstHit
<1>3. /\ 1 \in DOMAIN c /\ 2 \in DOMAIN c
      /\ \A i \in DOMAIN c : i = 1 \/ i = 2 \/ i - 2 \in 1 .. k
    OBVIOUS
<1>4. \A i \in 1 .. k : i + 2 \in DOMAIN c
    OBVIOUS
<1>5. CASE e = "none" /\ \A i \in DOMAIN c : ~c[i][1]
    BY <1>1, <1>3, <1>4, <1>5 DEF Given
<1>6. ASSUME NEW i \in DOMAIN c, c[i][1], e = c[i][2],
             \A j \in 1 .. i - 1 : j \in DOMAIN c => ~c[j][1]
      PROVE  \/ r.name = "malformed" /\ e = "InvalidName"
             \/ r.name = "sound" /\ world.row = "absent" /\ e = "NotFound"
             \/ /\ r.name = "sound" /\ world.row # "absent"
                /\ \E m \in 1 .. k : s[m][1] /\ e = s[m][2]
    <2>1. CASE i = 1
        BY <1>1, <1>6, <2>1
    <2>2. CASE i = 2
        BY <1>1, <1>3, <1>6, <2>2 DEF Given
    <2>3. CASE i - 2 \in 1 .. k
        <3>1. ~c[1][1] /\ ~c[2][1]
            BY <1>3, <1>6, <2>3
        <3>2. c[i] = s[i - 2]
            BY <2>3
        <3> QED BY <1>1, <1>6, <2>3, <3>1, <3>2 DEF Given
    <2> QED BY <1>3, <2>1, <2>2, <2>3
<1>7. e = "none" => exit_code(r.do, e) = 0
    BY DEF exit_code
<1>8. ASSUME NEW i \in 1 .. k, s[i][1], e = s[i][2],
             r.name = "sound", world.row # "absent"
      PROVE  e # "none" /\ Honest(r, e)
    <2>1. Fits(r, e)
        BY <1>8
    <2> QED BY <2>1, <1>7, <1>8 DEF Fits, Honest
<1>9. ASSUME r.name = "malformed", e = "InvalidName" PROVE Honest(r, e)
    <2>1. exit_code(r.do, e) = 2
        BY <1>9
    <2> QED BY <2>1 DEF Honest
<1>10. ASSUME r.name = "sound", world.row = "absent", e = "NotFound" PROVE Honest(r, e)
    <2>1. exit_code(r.do, e) = 3
        BY <1>10
    <2> QED BY <2>1, <1>10 DEF Honest
<1> QED BY <1>2, <1>5, <1>6, <1>8, <1>9, <1>10

\* The fields of a command line.
LEMMA LineFields ==
    ASSUME NEW r \in CommandLines
    PROVE  /\ r.do \in {"register", "remove", "start", "stop", "pause", "resume", "send",
                        "logs", "usage", "detach", "attach", "config_set", "config_get",
                        "show", "list"}
           /\ r.name \in Given
           /\ r.do = "list" => r.name = "sound"
           /\ r.do = "register" =>
                r.adapter \in {"sound", "UnknownAdapterKind", "ManifestNotFound",
                               "ManifestUnreadable", "ManifestInvalid",
                               "ContractIncompatible", "NoMeteringSource",
                               "NoCapabilities"}
           /\ r.do = "config_set" =>
                r.key \in {"sound", "UnknownKey", "WriteShapeConflict", "InvalidValue"}
           /\ r.do = "start" => r.detach \in BOOLEAN
           /\ r.do = "remove" => r.delete \in BOOLEAN
           /\ r.do = "attach" => r.kind \in {"filesystem", "native", "bogus"}
BY DEF CommandLines, Given

\* One lemma for each shape of the list of checks.
LEMMA StartRefused ==
    ASSUME NEW r \in CommandLines, r.do = "start", NEW e, e = Refusal(checks(r))
    PROVE  (e = "none" => InOrder(r)) /\ (e # "none" => Honest(r, e))
<1> DEFINE c == checks(r)
           m == Malformed(r)
           u == Unknown
           w == Gate("start")
           x == Homeless
           y == <<~adapter.resolves, "AdapterUnresolved">>
           z == <<r.detach /\ adapter.observed, "DetachRefused">>
           s == <<w, x, y, z>>
<1>1. c = <<m, u>> \o <<w, x, y, z>>
    BY LineFields DEF Named, checks, start_checks
<1>2. /\ w[1] <=> ~Accepts(world.row, "start")
      /\ w[2] = "InvalidTransition"
      /\ x[1] <=> world.home # "whole"
      /\ x[2] = "Log"
      /\ y[1] <=> ~adapter.resolves
      /\ y[2] = "AdapterUnresolved"
      /\ z[2] = "DetachRefused"
    BY DEF Gate, Homeless
<1> HIDE DEF c, m, u, w, x, y, z
<1>3. s[1] = w /\ s[2] = x /\ s[3] = y /\ s[4] = z
    OBVIOUS
<1>4. /\ w[1] => Fits(r, w[2])
      /\ x[1] => Fits(r, x[2])
      /\ y[1] => Fits(r, y[2])
      /\ z[1] => Fits(r, z[2])
    BY <1>2, EngineCodes, LineFields DEF Fits, Explained, LifecycleCommand
<1>5. exit_code(r.do, "InvalidName") = 2 /\ exit_code(r.do, "NotFound") = 3
    BY EngineCodes DEF LifecycleCommand
<1> HIDE DEF s
<1>6. /\ DOMAIN c = 1 .. 4 + 2 /\ c[1] = m /\ c[2] = u
      /\ c[3] = w /\ c[4] = x /\ c[5] = y /\ c[6] = z
    BY <1>1
<1>7. \A i \in 1 .. 4 : i = 1 \/ i = 2 \/ i = 3 \/ i = 4
    OBVIOUS
<1>8. \A i \in 1 .. 4 : c[i + 2] = s[i]
    BY <1>3, <1>6, <1>7
<1>9. \A i \in 1 .. 4 : s[i][1] => Fits(r, s[i][2])
    BY <1>3, <1>4, <1>7
<1>10. /\ e = "none" => /\ r.name = "sound" /\ world.row # "absent"
                          /\ \A i \in 1 .. 4 : ~s[i][1]
       /\ e # "none" => Honest(r, e)
    BY <1>5, <1>6, <1>8, <1>9, LineFields, NamedRefusal DEF c, m, u
<1> QED BY <1>2, <1>3, <1>10 DEF InOrder, LifecycleCommand

LEMMA StopRefused ==
    ASSUME NEW r \in CommandLines, r.do = "stop", NEW e, e = Refusal(checks(r))
    PROVE  (e = "none" => InOrder(r)) /\ (e # "none" => Honest(r, e))
<1> DEFINE c == checks(r)
           m == Malformed(r)
           u == Unknown
           w == Gate("stop")
           s == <<w>>
<1>1. c = <<m, u>> \o <<w>>
    BY LineFields DEF Named, checks
<1>2. /\ w[1] <=> ~Accepts(world.row, "stop")
      /\ w[2] = "InvalidTransition"
    BY DEF Gate
<1> HIDE DEF c, m, u, w
<1>3. s[1] = w
    OBVIOUS
<1>4. /\ w[1] => Fits(r, w[2])
    BY <1>2, EngineCodes, LineFields DEF Fits, Explained, LifecycleCommand
<1>5. exit_code(r.do, "InvalidName") = 2 /\ exit_code(r.do, "NotFound") = 3
    BY EngineCodes DEF LifecycleCommand
<1> HIDE DEF s
<1>6. /\ DOMAIN c = 1 .. 1 + 2 /\ c[1] = m /\ c[2] = u
      /\ c[3] = w
    BY <1>1
<1>7. \A i \in 1 .. 1 : i = 1
    OBVIOUS
<1>8. \A i \in 1 .. 1 : c[i + 2] = s[i]
    BY <1>3, <1>6, <1>7
<1>9. \A i \in 1 .. 1 : s[i][1] => Fits(r, s[i][2])
    BY <1>3, <1>4, <1>7
<1>10. /\ e = "none" => /\ r.name = "sound" /\ world.row # "absent"
                          /\ \A i \in 1 .. 1 : ~s[i][1]
       /\ e # "none" => Honest(r, e)
    BY <1>5, <1>6, <1>8, <1>9, LineFields, NamedRefusal DEF c, m, u
<1> QED BY <1>2, <1>3, <1>10 DEF InOrder, LifecycleCommand

LEMMA PauseRefused ==
    ASSUME NEW r \in CommandLines, r.do \in {"pause", "resume"}, NEW e, e = Refusal(checks(r))
    PROVE  (e = "none" => InOrder(r)) /\ (e # "none" => Honest(r, e))
<1> DEFINE c == checks(r)
           m == Malformed(r)
           u == Unknown
           w == Gate(r.do)
           x == Homeless
           y == <<adapter.pause = "unsupported",
                  IF r.do = "resume" THEN "ResumeUnsupported"
                                     ELSE "CapabilityUnsupported">>
           s == <<w, x, y>>
<1>1. c = <<m, u>> \o <<w, x, y>>
    BY LineFields DEF Named, checks, pause_checks
<1>2. /\ w[1] <=> ~Accepts(world.row, r.do)
      /\ w[2] = "InvalidTransition"
      /\ x[1] <=> world.home # "whole"
      /\ x[2] = "Log"
      /\ y[1] <=> adapter.pause = "unsupported"
      /\ y[2] \in {"ResumeUnsupported", "CapabilityUnsupported"}
    BY DEF Gate, Homeless
<1> HIDE DEF c, m, u, w, x, y
<1>3. s[1] = w /\ s[2] = x /\ s[3] = y
    OBVIOUS
<1>4. /\ w[1] => Fits(r, w[2])
      /\ x[1] => Fits(r, x[2])
      /\ y[1] => Fits(r, y[2])
    BY <1>2, EngineCodes, LineFields DEF Fits, Explained, LifecycleCommand
<1>5. exit_code(r.do, "InvalidName") = 2 /\ exit_code(r.do, "NotFound") = 3
    BY EngineCodes DEF LifecycleCommand
<1> HIDE DEF s
<1>6. /\ DOMAIN c = 1 .. 3 + 2 /\ c[1] = m /\ c[2] = u
      /\ c[3] = w /\ c[4] = x /\ c[5] = y
    BY <1>1
<1>7. \A i \in 1 .. 3 : i = 1 \/ i = 2 \/ i = 3
    OBVIOUS
<1>8. \A i \in 1 .. 3 : c[i + 2] = s[i]
    BY <1>3, <1>6, <1>7
<1>9. \A i \in 1 .. 3 : s[i][1] => Fits(r, s[i][2])
    BY <1>3, <1>4, <1>7
<1>10. /\ e = "none" => /\ r.name = "sound" /\ world.row # "absent"
                          /\ \A i \in 1 .. 3 : ~s[i][1]
       /\ e # "none" => Honest(r, e)
    BY <1>5, <1>6, <1>8, <1>9, LineFields, NamedRefusal DEF c, m, u
<1> QED BY <1>2, <1>3, <1>10 DEF InOrder, LifecycleCommand

LEMMA SendRefused ==
    ASSUME NEW r \in CommandLines, r.do = "send", NEW e, e = Refusal(checks(r))
    PROVE  (e = "none" => InOrder(r)) /\ (e # "none" => Honest(r, e))
<1> DEFINE c == checks(r)
           m == Malformed(r)
           u == Unknown
           w == <<world.row # "running", "NotRunning">>
           x == Homeless
           y == <<adapter.interaction = "unsupported", "CapabilityUnsupported">>
           z == <<TRUE, "InteractionUnavailable">>
           s == <<w, x, y, z>>
<1>1. c = <<m, u>> \o <<w, x, y, z>>
    BY LineFields DEF Named, checks, send_checks
<1>2. /\ w[2] = "NotRunning"
      /\ x[1] <=> world.home # "whole"
      /\ x[2] = "Log"
      /\ y[2] = "CapabilityUnsupported"
      /\ z[1] <=> TRUE
      /\ z[2] = "InteractionUnavailable"
    BY DEF Homeless
<1> HIDE DEF c, m, u, w, x, y, z
<1>3. s[1] = w /\ s[2] = x /\ s[3] = y /\ s[4] = z
    OBVIOUS
<1>4. /\ w[1] => Fits(r, w[2])
      /\ x[1] => Fits(r, x[2])
      /\ y[1] => Fits(r, y[2])
      /\ z[1] => Fits(r, z[2])
    BY <1>2, EngineCodes, LineFields DEF Fits, Explained, LifecycleCommand
<1>5. exit_code(r.do, "InvalidName") = 2 /\ exit_code(r.do, "NotFound") = 3
    BY EngineCodes DEF LifecycleCommand
<1> HIDE DEF s
<1>6. /\ DOMAIN c = 1 .. 4 + 2 /\ c[1] = m /\ c[2] = u
      /\ c[3] = w /\ c[4] = x /\ c[5] = y /\ c[6] = z
    BY <1>1
<1>7. \A i \in 1 .. 4 : i = 1 \/ i = 2 \/ i = 3 \/ i = 4
    OBVIOUS
<1>8. \A i \in 1 .. 4 : c[i + 2] = s[i]
    BY <1>3, <1>6, <1>7
<1>9. \A i \in 1 .. 4 : s[i][1] => Fits(r, s[i][2])
    BY <1>3, <1>4, <1>7
<1>10. /\ e = "none" => /\ r.name = "sound" /\ world.row # "absent"
                          /\ \A i \in 1 .. 4 : ~s[i][1]
       /\ e # "none" => Honest(r, e)
    BY <1>5, <1>6, <1>8, <1>9, LineFields, NamedRefusal DEF c, m, u
<1> QED BY <1>2, <1>3, <1>10 DEF InOrder, LifecycleCommand

LEMMA RemoveRefused ==
    ASSUME NEW r \in CommandLines, r.do = "remove", NEW e, e = Refusal(checks(r))
    PROVE  (e = "none" => InOrder(r)) /\ (e # "none" => Honest(r, e))
<1> DEFINE c == checks(r)
           m == Malformed(r)
           u == Unknown
           w == <<~r.force /\ ~is_removable_without_force(world.row), "RunningRequiresForce">>
           s == <<w>>
<1>1. c = <<m, u>> \o <<w>>
    BY LineFields DEF Named, checks
<1>2. /\ w[2] = "RunningRequiresForce"
    OBVIOUS
<1> HIDE DEF c, m, u, w
<1>3. s[1] = w
    OBVIOUS
<1>4. /\ w[1] => Fits(r, w[2])
    BY <1>2, RegistryCodes, LineFields DEF Fits, Explained, LifecycleCommand
<1>5. exit_code(r.do, "InvalidName") = 2 /\ exit_code(r.do, "NotFound") = 3
    BY RegistryCodes DEF LifecycleCommand
<1> HIDE DEF s
<1>6. /\ DOMAIN c = 1 .. 1 + 2 /\ c[1] = m /\ c[2] = u
      /\ c[3] = w
    BY <1>1
<1>7. \A i \in 1 .. 1 : i = 1
    OBVIOUS
<1>8. \A i \in 1 .. 1 : c[i + 2] = s[i]
    BY <1>3, <1>6, <1>7
<1>9. \A i \in 1 .. 1 : s[i][1] => Fits(r, s[i][2])
    BY <1>3, <1>4, <1>7
<1>10. /\ e = "none" => /\ r.name = "sound" /\ world.row # "absent"
                          /\ \A i \in 1 .. 1 : ~s[i][1]
       /\ e # "none" => Honest(r, e)
    BY <1>5, <1>6, <1>8, <1>9, LineFields, NamedRefusal DEF c, m, u
<1> QED BY <1>2, <1>3, <1>10 DEF InOrder, LifecycleCommand

LEMMA AttachRefused ==
    ASSUME NEW r \in CommandLines, r.do = "attach", NEW e, e = Refusal(checks(r))
    PROVE  (e = "none" => InOrder(r)) /\ (e # "none" => Honest(r, e))
<1> DEFINE c == checks(r)
           m == Malformed(r)
           u == Unknown
           w == ensure_terminal_for_memory_backing
           x == <<world.backing \notin {"none", r.kind}, "MemoryBackingKindConflict">>
           s == <<w, x>>
<1>1. c = <<m, u>> \o <<w, x>>
    BY LineFields DEF Named, checks
<1>2. /\ w[2] = "MemoryBackingHotSwap"
      /\ x[2] = "MemoryBackingKindConflict"
    BY DEF ensure_terminal_for_memory_backing
<1> HIDE DEF c, m, u, w, x
<1>3. s[1] = w /\ s[2] = x
    OBVIOUS
<1>4. /\ w[1] => Fits(r, w[2])
      /\ x[1] => Fits(r, x[2])
    BY <1>2, RegistryCodes, LineFields DEF Fits, Explained, LifecycleCommand
<1>5. exit_code(r.do, "InvalidName") = 2 /\ exit_code(r.do, "NotFound") = 3
    BY RegistryCodes DEF LifecycleCommand
<1> HIDE DEF s
<1>6. /\ DOMAIN c = 1 .. 2 + 2 /\ c[1] = m /\ c[2] = u
      /\ c[3] = w /\ c[4] = x
    BY <1>1
<1>7. \A i \in 1 .. 2 : i = 1 \/ i = 2
    OBVIOUS
<1>8. \A i \in 1 .. 2 : c[i + 2] = s[i]
    BY <1>3, <1>6, <1>7
<1>9. \A i \in 1 .. 2 : s[i][1] => Fits(r, s[i][2])
    BY <1>3, <1>4, <1>7
<1>10. /\ e = "none" => /\ r.name = "sound" /\ world.row # "absent"
                          /\ \A i \in 1 .. 2 : ~s[i][1]
       /\ e # "none" => Honest(r, e)
    BY <1>5, <1>6, <1>8, <1>9, LineFields, NamedRefusal DEF c, m, u
<1> QED BY <1>2, <1>3, <1>10 DEF InOrder, LifecycleCommand

LEMMA DetachRefused ==
    ASSUME NEW r \in CommandLines, r.do = "detach", NEW e, e = Refusal(checks(r))
    PROVE  (e = "none" => InOrder(r)) /\ (e # "none" => Honest(r, e))
<1> DEFINE c == checks(r)
           m == Malformed(r)
           u == Unknown
           w == ensure_terminal_for_memory_backing
           s == <<w>>
<1>1. c = <<m, u>> \o <<w>>
    BY LineFields DEF Named, checks
<1>2. /\ w[2] = "MemoryBackingHotSwap"
    BY DEF ensure_terminal_for_memory_backing
<1> HIDE DEF c, m, u, w
<1>3. s[1] = w
    OBVIOUS
<1>4. /\ w[1] => Fits(r, w[2])
    BY <1>2, RegistryCodes, LineFields DEF Fits, Explained, LifecycleCommand
<1>5. exit_code(r.do, "InvalidName") = 2 /\ exit_code(r.do, "NotFound") = 3
    BY RegistryCodes DEF LifecycleCommand
<1> HIDE DEF s
<1>6. /\ DOMAIN c = 1 .. 1 + 2 /\ c[1] = m /\ c[2] = u
      /\ c[3] = w
    BY <1>1
<1>7. \A i \in 1 .. 1 : i = 1
    OBVIOUS
<1>8. \A i \in 1 .. 1 : c[i + 2] = s[i]
    BY <1>3, <1>6, <1>7
<1>9. \A i \in 1 .. 1 : s[i][1] => Fits(r, s[i][2])
    BY <1>3, <1>4, <1>7
<1>10. /\ e = "none" => /\ r.name = "sound" /\ world.row # "absent"
                          /\ \A i \in 1 .. 1 : ~s[i][1]
       /\ e # "none" => Honest(r, e)
    BY <1>5, <1>6, <1>8, <1>9, LineFields, NamedRefusal DEF c, m, u
<1> QED BY <1>2, <1>3, <1>10 DEF InOrder, LifecycleCommand

LEMMA SetRefused ==
    ASSUME NEW r \in CommandLines, r.do = "config_set", NEW e, e = Refusal(checks(r))
    PROVE  (e = "none" => InOrder(r)) /\ (e # "none" => Honest(r, e))
<1> DEFINE c == checks(r)
           m == Malformed(r)
           u == Unknown
           w == <<r.key # "sound", r.key>>
           x == <<world.home = "none", "MalformedLayer">>
           s == <<w, x>>
<1>1. c = <<m, u>> \o <<w, x>>
    BY LineFields DEF Named, checks
<1>2. /\ w[1] <=> r.key # "sound"
      /\ w[2] = r.key
      /\ x[1] <=> world.home = "none"
      /\ x[2] = "MalformedLayer"
    OBVIOUS
<1> HIDE DEF c, m, u, w, x
<1>3. s[1] = w /\ s[2] = x
    OBVIOUS
<1>4. /\ w[1] => Fits(r, w[2])
      /\ x[1] => Fits(r, x[2])
    BY <1>2, ConfigCodes, LineFields DEF Fits, Explained, LifecycleCommand
<1>5. exit_code(r.do, "InvalidName") = 2 /\ exit_code(r.do, "NotFound") = 3
    BY ConfigCodes DEF LifecycleCommand
<1> HIDE DEF s
<1>6. /\ DOMAIN c = 1 .. 2 + 2 /\ c[1] = m /\ c[2] = u
      /\ c[3] = w /\ c[4] = x
    BY <1>1
<1>7. \A i \in 1 .. 2 : i = 1 \/ i = 2
    OBVIOUS
<1>8. \A i \in 1 .. 2 : c[i + 2] = s[i]
    BY <1>3, <1>6, <1>7
<1>9. \A i \in 1 .. 2 : s[i][1] => Fits(r, s[i][2])
    BY <1>3, <1>4, <1>7
<1>10. /\ e = "none" => /\ r.name = "sound" /\ world.row # "absent"
                          /\ \A i \in 1 .. 2 : ~s[i][1]
       /\ e # "none" => Honest(r, e)
    BY <1>5, <1>6, <1>8, <1>9, LineFields, NamedRefusal DEF c, m, u
<1> QED BY <1>2, <1>3, <1>10 DEF InOrder, LifecycleCommand

LEMMA GetRefused ==
    ASSUME NEW r \in CommandLines, r.do = "config_get", NEW e, e = Refusal(checks(r))
    PROVE  (e = "none" => InOrder(r)) /\ (e # "none" => Honest(r, e))
<1> DEFINE c == checks(r)
           m == Malformed(r)
           u == Unknown
           w == <<r.reveal = "fails", "SecretReveal">>
           x == <<r.key = "one" /\ ~world.setting, "UnknownKey">>
           s == <<w, x>>
<1>1. c = <<m, u>> \o <<w, x>>
    BY LineFields DEF Named, checks, config_get_checks
<1>2. /\ w[1] <=> r.reveal = "fails"
      /\ w[2] = "SecretReveal"
      /\ x[2] = "UnknownKey"
    OBVIOUS
<1> HIDE DEF c, m, u, w, x
<1>3. s[1] = w /\ s[2] = x
    OBVIOUS
<1>4. /\ w[1] => Fits(r, w[2])
      /\ x[1] => Fits(r, x[2])
    BY <1>2, ConfigCodes, LineFields DEF Fits, Explained, LifecycleCommand
<1>5. exit_code(r.do, "InvalidName") = 2 /\ exit_code(r.do, "NotFound") = 3
    BY ConfigCodes DEF LifecycleCommand
<1> HIDE DEF s
<1>6. /\ DOMAIN c = 1 .. 2 + 2 /\ c[1] = m /\ c[2] = u
      /\ c[3] = w /\ c[4] = x
    BY <1>1
<1>7. \A i \in 1 .. 2 : i = 1 \/ i = 2
    OBVIOUS
<1>8. \A i \in 1 .. 2 : c[i + 2] = s[i]
    BY <1>3, <1>6, <1>7
<1>9. \A i \in 1 .. 2 : s[i][1] => Fits(r, s[i][2])
    BY <1>3, <1>4, <1>7
<1>10. /\ e = "none" => /\ r.name = "sound" /\ world.row # "absent"
                          /\ \A i \in 1 .. 2 : ~s[i][1]
       /\ e # "none" => Honest(r, e)
    BY <1>5, <1>6, <1>8, <1>9, LineFields, NamedRefusal DEF c, m, u
<1> QED BY <1>2, <1>3, <1>10 DEF InOrder, LifecycleCommand

LEMMA ShowRefused ==
    ASSUME NEW r \in CommandLines, r.do = "show", NEW e, e = Refusal(checks(r))
    PROVE  (e = "none" => InOrder(r)) /\ (e # "none" => Honest(r, e))
<1> DEFINE c == checks(r)
           m == Malformed(r)
           u == Unknown
           w == <<~r.json /\ world.home # "whole", "Io">>
           s == <<w>>
<1>1. c = <<m, u>> \o <<w>>
    BY LineFields DEF Named, checks
<1>2. /\ w[1] => world.home # "whole"
      /\ w[2] = "Io"
    OBVIOUS
<1> HIDE DEF c, m, u, w
<1>3. s[1] = w
    OBVIOUS
<1>4. /\ w[1] => Fits(r, w[2])
    BY <1>2, RegistryCodes, LineFields DEF Fits, Explained, LifecycleCommand
<1>5. exit_code(r.do, "InvalidName") = 2 /\ exit_code(r.do, "NotFound") = 3
    BY RegistryCodes DEF LifecycleCommand
<1> HIDE DEF s
<1>6. /\ DOMAIN c = 1 .. 1 + 2 /\ c[1] = m /\ c[2] = u
      /\ c[3] = w
    BY <1>1
<1>7. \A i \in 1 .. 1 : i = 1
    OBVIOUS
<1>8. \A i \in 1 .. 1 : c[i + 2] = s[i]
    BY <1>3, <1>6, <1>7
<1>9. \A i \in 1 .. 1 : s[i][1] => Fits(r, s[i][2])
    BY <1>3, <1>4, <1>7
<1>10. /\ e = "none" => /\ r.name = "sound" /\ world.row # "absent"
                          /\ \A i \in 1 .. 1 : ~s[i][1]
       /\ e # "none" => Honest(r, e)
    BY <1>5, <1>6, <1>8, <1>9, LineFields, NamedRefusal DEF c, m, u
<1> QED BY <1>2, <1>3, <1>10 DEF InOrder, LifecycleCommand

LEMMA ReadRefused ==
    ASSUME NEW r \in CommandLines, r.do \in {"logs", "usage"}, NEW e, e = Refusal(checks(r))
    PROVE  (e = "none" => InOrder(r)) /\ (e # "none" => Honest(r, e))
<1> DEFINE c == checks(r)
<1>1. DOMAIN c = 1 .. 0 + 2 /\ c[1] = Malformed(r) /\ c[2] = Unknown
    <2> DEFINE m == Malformed(r)
               u == Unknown
    <2>1. c = Named(r)
        BY DEF checks, LifecycleCommand
    <2>2. Named(r) = <<m, u>>
        BY DEF Named
    <2> HIDE DEF m, u, c
    <2> QED BY <2>1, <2>2 DEF m, u
<1>2. exit_code(r.do, "InvalidName") = 2 /\ exit_code(r.do, "NotFound") = 3
    BY EngineCodes, RegistryCodes
<1> HIDE DEF c
<1>3. /\ e = "none" => r.name = "sound" /\ world.row # "absent"
      /\ e # "none" => Honest(r, e)
    <2>1. \A i \in 1 .. 0 : c[i + 2] = c[i] /\ (c[i][1] => Fits(r, c[i][2]))
        OBVIOUS
    <2> QED BY <1>1, <1>2, <2>1, LineFields, NamedRefusal DEF c
<1> QED BY <1>3 DEF InOrder, LifecycleCommand

LEMMA RegisterRefused ==
    ASSUME NEW r \in CommandLines, r.do = "register", NEW e, e = Refusal(checks(r))
    PROVE  (e = "none" => InOrder(r)) /\ (e # "none" => Honest(r, e))
<1> DEFINE c == checks(r)
           w == Malformed(r)
           x == <<r.adapter # "sound", r.adapter>>
           y == <<world.row # "absent", "DuplicateName">>
<1>1. c = <<w, x, y>>
    BY DEF checks
<1>2. /\ w[1] <=> r.name = "malformed"
      /\ w[2] = "InvalidName"
      /\ x[1] <=> r.adapter # "sound"
      /\ x[2] = r.adapter
      /\ y[1] <=> world.row # "absent"
      /\ y[2] = "DuplicateName"
    BY DEF Malformed
<1> HIDE DEF c, w, x, y
<1>3. DOMAIN c = 1 .. 3 /\ c[1] = w /\ c[2] = x /\ c[3] = y
    BY <1>1
<1>4. \/ e = "none" /\ \A i \in DOMAIN c : ~c[i][1]
      \/ \E i \in DOMAIN c : /\ c[i][1] /\ e = c[i][2]
                             /\ \A j \in 1 .. i - 1 : j \in DOMAIN c => ~c[j][1]
    <2>1. DOMAIN c \subseteq 1 .. 6
        BY <1>3
    <2> QED BY <2>1, FirstHit DEF c
<1>5. \/ e = "none" /\ r.name = "sound" /\ world.row = "absent"
      \/ r.name = "malformed" /\ e = "InvalidName"
      \/ r.name = "sound" /\ r.adapter # "sound" /\ e = r.adapter
      \/ r.name = "sound" /\ world.row # "absent" /\ e = "DuplicateName"
    <2>1. r.name \in {"sound", "malformed"}
        BY LineFields DEF Given
    <2>2. CASE e = "none" /\ \A i \in DOMAIN c : ~c[i][1]
        BY <1>2, <1>3, <2>1, <2>2
    <2>3. ASSUME NEW i \in DOMAIN c, c[i][1], e = c[i][2],
                 \A j \in 1 .. i - 1 : j \in DOMAIN c => ~c[j][1]
          PROVE  \/ r.name = "malformed" /\ e = "InvalidName"
                 \/ r.name = "sound" /\ r.adapter # "sound" /\ e = r.adapter
                 \/ r.name = "sound" /\ world.row # "absent" /\ e = "DuplicateName"
        <3>1. CASE i = 1
            BY <1>2, <1>3, <2>3, <3>1
        <3>2. CASE i = 2
            <4>1. ~c[1][1]
                BY <1>3, <2>3, <3>2
            <4> QED BY <1>2, <1>3, <2>1, <2>3, <3>2, <4>1
        <3>3. CASE i = 3
            <4>1. ~c[1][1]
                BY <1>3, <2>3, <3>3
            <4> QED BY <1>2, <1>3, <2>1, <2>3, <3>3, <4>1
        <3> QED BY <1>3, <3>1, <3>2, <3>3
    <2> QED BY <1>4, <2>2, <2>3
<1>6. ASSUME r.name = "malformed", e = "InvalidName" PROVE Honest(r, e)
    <2>1. exit_code(r.do, e) = 2
        BY <1>6, RegistryCodes
    <2> QED BY <2>1 DEF Honest
<1>7. ASSUME r.name = "sound", world.row # "absent", e = "DuplicateName" PROVE Honest(r, e)
    <2>1. exit_code(r.do, e) = 2
        BY <1>7, RegistryCodes
    <2> QED BY <2>1 DEF Honest
<1>8. ASSUME r.name = "sound", r.adapter # "sound", e = r.adapter PROVE Honest(r, e)
    <2>1. \/ exit_code(r.do, e) = 2
          \/ exit_code(r.do, e) = 3 /\ e = "ManifestNotFound"
          \/ exit_code(r.do, e) = 1
        BY <1>8, LineFields, RegistryCodes
    <2> QED BY <2>1, <1>8 DEF Honest, Explained
<1>9. e = "none" => InOrder(r)
    <2>1. r.adapter # "none"
        BY LineFields
    <2> QED BY <1>5, <2>1 DEF InOrder, LifecycleCommand
<1> QED BY <1>5, <1>6, <1>7, <1>8, <1>9

\* Every command: refused truly, or in order.
LEMMA RefusalIsHonest ==
    ASSUME NEW r \in CommandLines, NEW e, e = Refusal(checks(r))
    PROVE  (e = "none" => InOrder(r)) /\ (e # "none" => Honest(r, e))
<1>1. CASE r.do = "list"
    <2>1. e = "none"
        BY <1>1 DEF Refusal, checks
    <2> QED BY <1>1, <2>1, LineFields DEF InOrder, LifecycleCommand
<1> QED BY <1>1, LineFields, StartRefused, StopRefused, PauseRefused, SendRefused,
           RemoveRefused, AttachRefused, DetachRefused, SetRefused, GetRefused,
           ShowRefused, ReadRefused, RegisterRefused

-----------------------------------------------------------------------------
(* What a call leaves behind.                                              *)

Sessions == {"no", "attached", "detached"}

\* What holds of a world and the session beside it, whatever was asked.
Sound(w, s) ==
    /\ w \in World /\ s \in Sessions
    /\ w.process # "none" /\ w.record = "attached" => s = "attached"
    /\ w.process = "suspended" => adapter.pause = "guaranteed"
    /\ w.row = "absent" => w.backing = "none"

InSight(w) == w.process # "none" => w.record # "none" /\ w.row \in RowsOfTheLiving

\* The state in which a call is made.
Called ==
    /\ adapter \in Declarations
    /\ Sound(world, session) /\ InSight(world)
    /\ world.process # "none" => session = world.record

\* An outcome that keeps the invariant and is told truly.
Fine(r, e, w, s, f) ==
    /\ Sound(w, s) /\ f \in BOOLEAN
    /\ \/ InSight(w)
       \/ r.do = "remove" /\ world.row \in {"starting", "stopping"} /\ w.record = "none"
    /\ e = "none" => ~f /\ Achieved(r, world, w, s)
    /\ e # "none" =>
         \/ exit_code(r.do, e) = 1 /\ (f \/ e = "LaunchFailed")
         \/ exit_code(r.do, e) = 4 /\ e = "StopUnconfirmed" /\ w.row = "stopping"

\* The single outcome of an answer, and of a fault.
LEMMA AnswerFine ==
    ASSUME NEW r, NEW e, NEW w, NEW s, NEW o, Fine(r, e, w, s, FALSE), o \in Answer(e, w, s)
    PROVE  Fine(r, o.error, o.world, o.session, o.fault)
<1>1. o.error = e /\ o.world = w /\ o.session = s /\ o.fault = FALSE
    BY DEF Answer
<1> QED BY <1>1

LEMMA FaultFine ==
    ASSUME NEW r, NEW e, NEW w, NEW s, NEW o, Fine(r, e, w, s, TRUE), o \in Fault(e, w, s)
    PROVE  Fine(r, o.error, o.world, o.session, o.fault)
<1>1. o.error = e /\ o.world = w /\ o.session = s /\ o.fault = TRUE
    BY DEF Fault
<1> QED BY <1>1

\* The fields of a world.
LEMMA WorldFields ==
    ASSUME NEW w \in World
    PROVE  /\ w.row \in States \cup {"absent"}
           /\ w.record \in {"none", "attached", "detached"}
           /\ w.backing \in {"none", "filesystem", "native"}
           /\ w.setting \in BOOLEAN
           /\ w.home \in {"none", "bare", "whole"}
           /\ w.process \in {"none", "runs", "suspended"}
           /\ w.stray \in BOOLEAN
BY DEF World

\* The command edges.
LEMMA AcceptedFrom ==
    ASSUME NEW s
    PROVE  /\ Accepts(s, "start") => s \in {"registered", "stopped", "failed"}
           /\ Accepts(s, "stop") => s \in {"running", "paused"}
           /\ Accepts(s, "pause") => s = "running" /\ next_state(s, "pause") = "paused"
           /\ Accepts(s, "resume") => s = "paused" /\ next_state(s, "resume") = "running"
<1>1. Accepts(s, "start") => s \in {"registered", "stopped", "failed"}
    BY DEF Accepts, CommandEdges
<1>2. Accepts(s, "stop") => s \in {"running", "paused"}
    BY DEF Accepts, CommandEdges
<1>3. Accepts(s, "pause") => s = "running" /\ next_state(s, "pause") = "paused"
    BY DEF Accepts, CommandEdges, next_state, States
<1>4. Accepts(s, "resume") => s = "paused" /\ next_state(s, "resume") = "running"
    BY DEF Accepts, CommandEdges, next_state, States
<1> QED BY <1>1, <1>2, <1>3, <1>4

\* One lemma for each call with several outcomes.
LEMMA RegisterOutcome ==
    ASSUME Called, NEW r \in CommandLines, r.do = "register", InOrder(r),
           NEW o \in register_effects
    PROVE  Fine(r, o.error, o.world, o.session, o.fault)
<1> DEFINE bare == [world EXCEPT !.home = "none", !.setting = FALSE]
           made == [Moved("registered") EXCEPT !.home = "whole", !.setting = FALSE]
           orphan == [bare EXCEPT !.row = "registered"]
<1>1. world \in World /\ world.row = "absent" /\ world.process = "none"
    BY DEF Called, Sound, InSight, InOrder, RowsOfTheLiving
<1>2. /\ made \in World /\ made.row = "registered" /\ made.home = "whole"
      /\ made.backing = world.backing /\ made.process = "none"
    BY <1>1 DEF World, Moved, States
<1>3. bare \in World /\ bare.process = "none" /\ bare.backing = world.backing
    BY <1>1 DEF World
<1>4. orphan \in World /\ orphan.process = "none" /\ orphan.row = "registered"
    BY <1>1 DEF World, States
<1>5. world.backing = "none" /\ session \in Sessions
    BY <1>1 DEF Called, Sound
<1> HIDE DEF made, bare, orphan
<1>6. exit_code("register", "Io") = 1 /\ exit_code("register", "RegisterOrphanRow") = 1
    BY RegistryCodes
<1>7. \/ o \in Answer("none", made, session)
      \/ o \in Fault("Io", bare, session)
      \/ o \in Fault("RegisterOrphanRow", orphan, session)
    BY DEF register_effects, made, bare, orphan
<1>8. Fine(r, "none", made, session, FALSE)
    BY <1>2, <1>5 DEF Fine, Sound, InSight, Achieved
<1>9. Fine(r, "Io", bare, session, TRUE)
    BY <1>3, <1>5, <1>6 DEF Fine, Sound, InSight
<1>10. Fine(r, "RegisterOrphanRow", orphan, session, TRUE)
    BY <1>4, <1>5, <1>6 DEF Fine, Sound, InSight
<1> QED BY <1>7, <1>8, <1>9, <1>10, AnswerFine, FaultFine

LEMMA StartOutcome ==
    ASSUME Called, NEW r \in CommandLines, r.do = "start", InOrder(r),
           NEW o \in start_effects(r)
    PROVE  Fine(r, o.error, o.world, o.session, o.fault)
<1> DEFINE kept == IF r.detach THEN "detached" ELSE "attached"
           up == [Moved("running") EXCEPT !.process = "runs", !.record = kept]
           dead == [up EXCEPT !.process = IF r.detach THEN @ ELSE "none"]
           failed == Moved("failed")
           begun == Moved("starting")
           none == "none"
<1>1. /\ world \in World /\ session \in Sessions
      /\ world.row \in {"registered", "stopped", "failed"} /\ world.process = "none"
    BY AcceptedFrom DEF Called, Sound, InSight, InOrder, RowsOfTheLiving, LifecycleCommand
<1>2. r.detach \in BOOLEAN
    BY LineFields
<1>3. /\ up \in World /\ up.row = "running" /\ up.record = kept /\ up.process = "runs"
    BY <1>1, <1>2 DEF World, Moved, States
<1>4. /\ dead \in World /\ dead.row = "running" /\ dead.record = kept
      /\ dead.process = IF r.detach THEN "runs" ELSE "none"
    BY <1>1, <1>2 DEF World, Moved, States
<1>5. failed \in World /\ failed.row = "failed" /\ failed.process = "none"
    BY <1>1 DEF World, Moved, States
<1>6. begun \in World /\ begun.row = "starting" /\ begun.process = "none"
    BY <1>1 DEF World, Moved, States
<1>7. kept = IF r.detach THEN "detached" ELSE "attached"
    OBVIOUS
<1> HIDE DEF kept, up, dead, failed, begun
<1>8. \A e \in {"LaunchFailed", "Snapshot", "Secret", "ObservedMetering", "Log", "Store"} :
        exit_code("start", e) = 1
    BY EngineCodes DEF LifecycleCommand
<1>9. \/ o \in Answer("none", up, kept)
      \/ o \in Answer("LaunchFailed", failed, session)
      \/ \E e \in {"Snapshot", "Secret", "ObservedMetering", "Log"} :
            o \in Fault(e, world, session)
      \/ o \in Fault("Log", begun, session)
      \/ o \in Fault("Store", failed, session)
      \/ o \in Fault("Log", dead, "no")
    BY DEF start_effects, Failing, kept, up, dead, failed, begun
<1>10. Fine(r, "none", up, kept, FALSE)
    BY <1>2, <1>3, <1>7 DEF Fine, Sound, InSight, Achieved, Sessions, RowsOfTheLiving
<1>11. Fine(r, "LaunchFailed", failed, session, FALSE)
    BY <1>1, <1>5, <1>8 DEF Fine, Sound, InSight
<1>12. \A e \in {"Snapshot", "Secret", "ObservedMetering", "Log"} :
         Fine(r, e, world, session, TRUE)
    BY <1>1, <1>8 DEF Fine, Sound, InSight
<1>13. Fine(r, "Log", begun, session, TRUE)
    BY <1>1, <1>6, <1>8 DEF Fine, Sound, InSight
<1>14. Fine(r, "Store", failed, session, TRUE)
    BY <1>1, <1>5, <1>8 DEF Fine, Sound, InSight
<1>15. Fine(r, "Log", dead, "no", TRUE)
    BY <1>2, <1>4, <1>7, <1>8 DEF Fine, Sound, InSight, Sessions, RowsOfTheLiving
<1> QED BY <1>9, <1>10, <1>11, <1>12, <1>13, <1>14, <1>15, AnswerFine, FaultFine

\* A stop is confirmed, or it failed and what it left is in sight.
LEMMA StopOutcome ==
    ASSUME Called, world.row \in {"running", "paused"}, NEW o \in stop_effects
    PROVE  /\ Sound(o.world, o.session) /\ InSight(o.world) /\ o.fault \in BOOLEAN
           /\ o.world.row # "absent"
           /\ o.error = "none" => /\ ~o.fault /\ o.world.row = "stopped"
                                  /\ o.world.process = "none" /\ o.world.record = "none"
           /\ o.error # "none" => o.fault
           /\ o.error \in {"none", "Log", "Store", "StopUnconfirmed", "Backend"}
           /\ o.error = "StopUnconfirmed" => o.world.row = "stopping"
<1> DEFINE stopping == Moved("stopping")
           gone == [stopping EXCEPT !.process = "none"]
           stopped == [gone EXCEPT !.row = "stopped", !.record = "none"]
<1>1. world \in World /\ session \in Sessions
    BY DEF Called, Sound
<1>2. /\ stopping \in World /\ stopping.row = "stopping"
      /\ stopping.process = world.process /\ stopping.record = world.record
    BY <1>1 DEF World, Moved, States
<1>3. gone \in World /\ gone.row = "stopping" /\ gone.process = "none"
    BY <1>1 DEF World, Moved, States
<1>4. /\ stopped \in World /\ stopped.row = "stopped" /\ stopped.process = "none"
      /\ stopped.record = "none"
    BY <1>1 DEF World, Moved, States
<1> HIDE DEF stopping, gone, stopped
<1>5. \/ o \in Answer("none", stopped, "no") \/ o \in Fault("Log", world, session)
      \/ o \in Fault("Log", stopping, session) \/ o \in Fault("Store", gone, "no")
      \/ o \in Fault("Log", stopped, "no")
      \/ o \in Fault("StopUnconfirmed", stopping, session)
      \/ o \in Fault("Backend", stopping, session)
    BY DEF stop_effects, Failing, stopping, gone, stopped
<1>6. Sound(stopping, session) /\ InSight(stopping)
    BY <1>2 DEF Called, Sound, InSight, RowsOfTheLiving
<1>7. Sound(gone, "no") /\ InSight(gone)
    BY <1>3 DEF Sound, InSight, Sessions
<1>8. Sound(stopped, "no") /\ InSight(stopped)
    BY <1>4 DEF Sound, InSight, Sessions
<1>9. Sound(world, session) /\ InSight(world) /\ world.row # "absent"
    BY DEF Called
<1>10. CASE o \in Answer("none", stopped, "no")
    <2>1. o.error = "none" /\ o.world = stopped /\ o.session = "no" /\ o.fault = FALSE
        BY <1>10 DEF Answer
    <2> QED BY <1>4, <1>8, <2>1
<1>11. CASE o \in Fault("Log", world, session)
    <2>1. o.error = "Log" /\ o.world = world /\ o.session = session /\ o.fault = TRUE
        BY <1>11 DEF Fault
    <2> QED BY <1>9, <2>1
<1>12. CASE o \in Fault("Log", stopping, session)
    <2>1. o.error = "Log" /\ o.world = stopping /\ o.session = session /\ o.fault = TRUE
        BY <1>12 DEF Fault
    <2> QED BY <1>2, <1>6, <2>1
<1>13. CASE o \in Fault("Store", gone, "no")
    <2>1. o.error = "Store" /\ o.world = gone /\ o.session = "no" /\ o.fault = TRUE
        BY <1>13 DEF Fault
    <2> QED BY <1>3, <1>7, <2>1
<1>14. CASE o \in Fault("Log", stopped, "no")
    <2>1. o.error = "Log" /\ o.world = stopped /\ o.session = "no" /\ o.fault = TRUE
        BY <1>14 DEF Fault
    <2> QED BY <1>4, <1>8, <2>1
<1>15. CASE o \in Fault("StopUnconfirmed", stopping, session)
    <2>1. o.error = "StopUnconfirmed" /\ o.world = stopping /\ o.session = session /\ o.fault = TRUE
        BY <1>15 DEF Fault
    <2> QED BY <1>2, <1>6, <2>1
<1>16. CASE o \in Fault("Backend", stopping, session)
    <2>1. o.error = "Backend" /\ o.world = stopping /\ o.session = session /\ o.fault = TRUE
        BY <1>16 DEF Fault
    <2> QED BY <1>2, <1>6, <2>1
<1> QED BY <1>5, <1>10, <1>11, <1>12, <1>13, <1>14, <1>15, <1>16

LEMMA RemoveOutcome ==
    ASSUME Called, NEW r \in CommandLines, r.do = "remove", InOrder(r),
           NEW o \in remove_effects(r)
    PROVE  Fine(r, o.error, o.world, o.session, o.fault)
<1> DEFINE Stops == IF Live(world.row) THEN stop_effects ELSE Answer("none", world, session)
<1>1. PICK x \in Stops : o \in remove_row(x, r)
    BY DEF remove_effects
<1>2. /\ Sound(x.world, x.session) /\ InSight(x.world)
      /\ x.error # "none" => x.error \in {"Log", "Store", "StopUnconfirmed", "Backend"}
      /\ x.error = "none" =>
            x.world.process = "none" \/ world.row \in {"starting", "stopping"}
    <2>1. CASE world.row \in {"running", "paused"}
        <3>1. x \in stop_effects
            BY <2>1 DEF Live, LiveStates
        <3> QED BY <2>1, <3>1, StopOutcome
    <2>2. CASE world.row \notin {"running", "paused"}
        <3>1. x \in Answer("none", world, session)
            BY <2>2 DEF Live, LiveStates
        <3>2. x.error = "none" /\ x.world = world /\ x.session = session
            BY <3>1 DEF Answer
        <3> QED BY <2>2, <3>2 DEF Called, InSight, RowsOfTheLiving
    <2> QED BY <2>1, <2>2
<1> HIDE DEF Stops
<1> DEFINE gone == Delete(x.world, r)
           left_over == [gone EXCEPT !.home = "bare"]
<1>3. r.delete \in BOOLEAN
    BY LineFields
<1>4. /\ gone \in World /\ gone.row = "absent" /\ gone.record = "none"
      /\ gone.backing = "none" /\ gone.process = x.world.process
      /\ r.delete => gone.home = "none"
    BY <1>2, <1>3 DEF Delete, World, Sound
<1>5. /\ left_over \in World /\ left_over.row = "absent" /\ left_over.record = "none"
      /\ left_over.backing = "none" /\ left_over.process = x.world.process
    BY <1>2, <1>3 DEF Delete, World, Sound
<1> HIDE DEF gone, left_over
<1>6. /\ exit_code("remove", "Io") = 1 /\ exit_code("remove", "Store") = 1
      /\ exit_code("remove", "RemoveLeftoverHome") = 1
    BY RegistryCodes
<1>7. CASE x.error # "none"
    <2> DEFINE e == stop_error_to_registry(x.error)
    <2>1. e \in {"Io", "Store"}
        BY <1>2, <1>7 DEF stop_error_to_registry
    <2>2. o \in Fault(e, x.world, x.session)
        BY <1>1, <1>7 DEF remove_row
    <2> HIDE DEF e
    <2>3. Fine(r, e, x.world, x.session, TRUE)
        BY <1>2, <1>6, <2>1 DEF Fine
    <2> QED BY <2>2, <2>3, FaultFine
<1>8. CASE x.error = "none"
    <2>1. \/ o \in Answer("none", gone, x.session)
          \/ o \in Fault("Store", x.world, x.session)
          \/ o \in Fault("RemoveLeftoverHome", left_over, x.session)
        BY <1>1, <1>8 DEF remove_row, gone, left_over
    <2>2. Sound(gone, x.session) /\ Sound(left_over, x.session)
        BY <1>2, <1>4, <1>5 DEF Sound
    <2>3. Fine(r, "none", gone, x.session, FALSE)
        <3>1. Achieved(r, world, gone, x.session)
            BY <1>2, <1>4, <1>8 DEF Achieved
        <3> QED BY <1>2, <1>4, <1>8, <2>2, <3>1 DEF Fine, InSight
    <2>4. Fine(r, "Store", x.world, x.session, TRUE)
        BY <1>2, <1>6 DEF Fine
    <2>5. Fine(r, "RemoveLeftoverHome", left_over, x.session, TRUE)
        BY <1>2, <1>5, <1>6, <1>8, <2>2 DEF Fine, InSight
    <2> QED BY <2>1, <2>3, <2>4, <2>5, AnswerFine, FaultFine
<1> QED BY <1>7, <1>8

LEMMA SuspendOutcome ==
    ASSUME Called, NEW r \in CommandLines, r.do \in {"pause", "resume"}, InOrder(r),
           NEW o \in suspend_or_resume_effects(r)
    PROVE  Fine(r, o.error, o.world, o.session, o.fault)
<1> DEFINE to == next_state(world.row, r.do)
           moved == Moved(to)
           reached == /\ adapter.pause = "guaranteed" /\ session # "no"
                      /\ world.process # "none"
           signalled == [moved EXCEPT !.process = IF r.do = "pause" THEN "suspended"
                                                  ELSE "runs"]
           w == IF reached THEN signalled ELSE moved
<1>1. /\ world \in World /\ session \in Sessions
      /\ r.do = "pause" => world.row = "running" /\ to = "paused"
      /\ r.do = "resume" => world.row = "paused" /\ to = "running"
    BY AcceptedFrom DEF Called, Sound, InOrder, LifecycleCommand
<1>2. /\ moved \in World /\ moved.row = to /\ moved.process = world.process
      /\ moved.record = world.record
    BY <1>1 DEF World, Moved, States
<1>3. /\ signalled \in World /\ signalled.row = to /\ signalled.record = world.record
      /\ signalled.process = IF r.do = "pause" THEN "suspended" ELSE "runs"
    BY <1>1 DEF World, Moved, States
<1>4. /\ reached => w = signalled
      /\ ~reached => w = moved
    OBVIOUS
<1>5. \A e \in {"Log", "Backend"} : exit_code(r.do, e) = 1
    BY EngineCodes DEF LifecycleCommand
<1>6. \/ o \in Answer("none", w, session) \/ o \in Fault("Log", world, session)
      \/ o \in Fault("Log", moved, session) \/ o \in Fault("Backend", moved, session)
    BY DEF suspend_or_resume_effects, Failing
<1> HIDE DEF moved, signalled, w, to
<1>7. world.process # "none" => world.record # "none" /\ session = world.record
    BY DEF Called, InSight
<1>8. world.record \in {"none", "attached", "detached"} /\ to # "absent" /\ to \in RowsOfTheLiving
    BY <1>1, WorldFields DEF RowsOfTheLiving
<1>9. Sound(moved, session) /\ InSight(moved)
    BY <1>1, <1>2, <1>7, <1>8 DEF Called, Sound, InSight
<1>10. Sound(w, session) /\ InSight(w)
    BY <1>1, <1>3, <1>4, <1>7, <1>8, <1>9 DEF Called, Sound, InSight
<1>11. Achieved(r, world, w, session)
    <2>1. CASE r.do = "pause"
        <3>1. w.row = "paused" /\ adapter.pause # "unsupported"
            BY <1>1, <1>2, <1>3, <1>4, <2>1 DEF InOrder
        <3>2. adapter.pause = "guaranteed" => w.process # "runs"
            BY <1>2, <1>3, <1>4, <1>7, <1>8, <2>1, WorldFields DEF Called
        <3> QED BY <2>1, <3>1, <3>2 DEF Achieved
    <2>2. CASE r.do = "resume"
        <3>1. w.row = "running"
            BY <1>1, <1>2, <1>3, <1>4, <2>2
        <3>2. w.process # "suspended"
            BY <1>2, <1>3, <1>4, <1>7, <1>8, <2>2 DEF Called, Sound
        <3> QED BY <2>2, <3>1, <3>2 DEF Achieved
    <2> QED BY <2>1, <2>2
<1>12. Fine(r, "none", w, session, FALSE)
    BY <1>10, <1>11 DEF Fine
<1>13. Fine(r, "Log", world, session, TRUE)
    BY <1>5 DEF Fine, Called
<1>14. Fine(r, "Log", moved, session, TRUE) /\ Fine(r, "Backend", moved, session, TRUE)
    BY <1>5, <1>9 DEF Fine
<1> QED BY <1>6, <1>12, <1>13, <1>14, AnswerFine, FaultFine

LEMMA AttachOutcome ==
    ASSUME Called, NEW r \in CommandLines, r.do = "attach", InOrder(r),
           r.kind \in {"filesystem", "native"}, NEW o \in attach_effects(r)
    PROVE  Fine(r, o.error, o.world, o.session, o.fault)
<1> DEFINE home == IF r.kind = "filesystem" /\ world.home = "none" THEN "bare"
                   ELSE world.home
           done == [world EXCEPT !.backing = r.kind, !.home = home]
           made == [world EXCEPT !.home = home]
<1>1. world \in World /\ session \in Sessions /\ world.row # "absent"
    BY DEF Called, Sound, InOrder
<1>2. home \in {"none", "bare", "whole"} /\ (r.kind = "filesystem" => home # "none")
    BY <1>1, WorldFields
<1> HIDE DEF home
<1>3. /\ done \in World /\ done.backing = r.kind /\ done.home = home
      /\ done.row = world.row /\ done.process = world.process
      /\ done.record = world.record
    BY <1>1, <1>2 DEF World
<1>4. /\ made \in World /\ made.row = world.row /\ made.process = world.process
      /\ made.record = world.record
    BY <1>1, <1>2 DEF World
<1>5. \/ o \in Answer("none", done, session) \/ o \in Fault("Io", world, session)
      \/ o \in Fault("Store", made, session)
    BY DEF attach_effects, Failing, home
<1> HIDE DEF done, made
<1>6. exit_code("attach", "Io") = 1 /\ exit_code("attach", "Store") = 1
    BY RegistryCodes
<1>7. Fine(r, "none", done, session, FALSE)
    <2>1. Achieved(r, world, done, session)
        BY <1>2, <1>3 DEF Achieved
    <2> QED BY <1>1, <1>3, <2>1 DEF Fine, Called, Sound, InSight
<1>8. Fine(r, "Io", world, session, TRUE)
    BY <1>6 DEF Fine, Called
<1>9. Fine(r, "Store", made, session, TRUE)
    BY <1>1, <1>4, <1>6 DEF Fine, Called, Sound, InSight
<1> QED BY <1>5, <1>7, <1>8, <1>9, AnswerFine, FaultFine

\* Every outcome of a call that nothing refused is fine.
LEMMA EffectIsFine ==
    ASSUME Called, NEW r \in CommandLines, InOrder(r),
           r.do = "attach" => r.kind \in {"filesystem", "native"}, NEW o \in effects(r)
    PROVE  Fine(r, o.error, o.world, o.session, o.fault)
<1>1. world \in World /\ session \in Sessions /\ Sound(world, session) /\ InSight(world)
    BY DEF Called, Sound
<1>2. CASE r.do = "register"
    BY <1>2, RegisterOutcome DEF effects
<1>3. CASE r.do = "remove"
    BY <1>3, RemoveOutcome DEF effects
<1>4. CASE r.do = "start"
    BY <1>4, StartOutcome DEF effects
<1>5. CASE r.do = "stop"
    <2>1. o \in stop_effects /\ world.row \in {"running", "paused"}
        BY <1>5, AcceptedFrom DEF effects, InOrder, LifecycleCommand
    <2>2. /\ \A e \in {"Log", "Store", "Backend"} : exit_code("stop", e) = 1
          /\ exit_code("stop", "StopUnconfirmed") = 4
        BY EngineCodes DEF LifecycleCommand
    <2>3. /\ Sound(o.world, o.session) /\ InSight(o.world) /\ o.fault \in BOOLEAN
          /\ o.error = "none" => /\ ~o.fault /\ o.world.row = "stopped"
                                 /\ o.world.process = "none" /\ o.world.record = "none"
          /\ o.error # "none" => o.fault
          /\ o.error \in {"none", "Log", "Store", "StopUnconfirmed", "Backend"}
          /\ o.error = "StopUnconfirmed" => o.world.row = "stopping"
        BY <2>1, StopOutcome
    <2>4. o.error = "none" => Achieved(r, world, o.world, o.session)
        BY <1>5, <2>3 DEF Achieved
    <2> QED BY <1>5, <2>2, <2>3, <2>4 DEF Fine
<1>6. CASE r.do \in {"pause", "resume"}
    BY <1>6, SuspendOutcome DEF effects
<1>7. CASE r.do = "attach"
    BY <1>7, AttachOutcome DEF effects
<1>8. CASE r.do = "detach"
    <2> DEFINE w == [world EXCEPT !.backing = "none"]
    <2>1. /\ w \in World /\ w.backing = "none" /\ w.row = world.row
          /\ w.process = world.process /\ w.record = world.record
        BY <1>1 DEF World
    <2>2. o \in Answer("none", w, session)
        BY <1>8 DEF effects
    <2> HIDE DEF w
    <2>3. Achieved(r, world, w, session)
        BY <1>8, <2>1 DEF Achieved
    <2>4. Fine(r, "none", w, session, FALSE)
        BY <1>1, <2>1, <2>3 DEF Fine, Sound, InSight
    <2> QED BY <2>2, <2>4, AnswerFine
<1>9. CASE r.do = "config_set"
    <2> DEFINE w == [world EXCEPT !.setting = TRUE]
    <2>1. /\ w \in World /\ w.setting /\ w.backing = world.backing /\ w.row = world.row
          /\ w.process = world.process /\ w.record = world.record
        BY <1>1 DEF World
    <2>2. o \in Answer("none", w, session) \/ o \in Fault("MalformedLayer", world, session)
        BY <1>9 DEF effects, Failing
    <2> HIDE DEF w
    <2>3. Achieved(r, world, w, session)
        BY <1>9, <2>1 DEF Achieved
    <2>4. Fine(r, "none", w, session, FALSE)
        BY <1>1, <2>1, <2>3 DEF Fine, Sound, InSight
    <2>5. Fine(r, "MalformedLayer", world, session, TRUE)
        BY <1>1, <1>9, ConfigCodes DEF Fine
    <2> QED BY <2>2, <2>4, <2>5, AnswerFine, FaultFine
<1>10. ASSUME r.do \in {"list", "show", "logs", "usage", "config_get"}
       PROVE  Fine(r, "none", world, session, FALSE)
    <2>1. Achieved(r, world, world, session)
        BY <1>10 DEF Achieved, Unchanged
    <2> QED BY <1>1, <2>1 DEF Fine
<1>11. CASE r.do = "config_get"
    <2>1. o \in Answer("none", world, session) \/ o \in Fault("MalformedLayer", world, session)
        BY <1>11 DEF effects, Failing
    <2>2. Fine(r, "MalformedLayer", world, session, TRUE)
        BY <1>1, <1>11, ConfigCodes DEF Fine
    <2> QED BY <1>10, <1>11, <2>1, <2>2, AnswerFine, FaultFine
<1>12. CASE r.do = "logs"
    <2>1. \/ o \in Answer("none", world, session)
          \/ o \in Fault("Log", world, session) \/ o \in Fault("Store", world, session)
        BY <1>12 DEF effects, Failing
    <2>2. Fine(r, "Log", world, session, TRUE) /\ Fine(r, "Store", world, session, TRUE)
        BY <1>1, <1>12, EngineCodes DEF Fine
    <2> QED BY <1>10, <1>12, <2>1, <2>2, AnswerFine, FaultFine
<1>13. CASE r.do \in {"list", "show", "usage"}
    <2>1. o \in Answer("none", world, session)
        BY <1>13 DEF effects
    <2> QED BY <1>10, <1>13, <2>1, AnswerFine
<1> QED BY <1>2, <1>3, <1>4, <1>5, <1>6, <1>7, <1>8, <1>9, <1>11, <1>12, <1>13, LineFields
        DEF InOrder

-----------------------------------------------------------------------------
(* The steps.                                                              *)

\* CodeIsHonest of a command, the world before it and after, and its answer.
Told(r, b, w, s, n, e, f) ==
    /\ n \in {0, 101} => Achieved(r, b, w, s)
    /\ n \in {2, 3, 5} => Unchanged(b, w)
    /\ n = 3 => b.row = "absent" \/ (r.do = "register" /\ e = "ManifestNotFound")
    /\ n = 4 => /\ b.row # "absent"
                /\ Unchanged(b, w) \/ (e = "StopUnconfirmed" /\ w.row = "stopping")
    /\ n = 1 => f \/ Explained(r, b, e)
    /\ r.name = "malformed" /\ ~f => n = 2

\* CodeIsHonest before and after a step.
LEMMA CodeIsTold ==
    CodeIsHonest <=>
        (asked.at = "answered" =>
            Told(asked.do, asked.before, world, session, asked.code, asked.error,
                 asked.fault))
BY DEF CodeIsHonest, Told

LEMMA CodeIsToldNext ==
    ASSUME adapter' = adapter
    PROVE  CodeIsHonest' <=>
        (asked'.at = "answered" =>
            Told(asked'.do, asked'.before, world', session', asked'.code, asked'.error,
                 asked'.fault))
BY DEF CodeIsHonest, Told, Achieved, Explained

\* A command that changes nothing is told so.
LEMMA RefusedIsTold ==
    ASSUME NEW r, NEW e, Honest(r, e), NEW s, NEW f \in BOOLEAN
    PROVE  Told(r, world, world, s, exit_code(r.do, e), e, f)
BY DEF Honest, Told, Unchanged

\* Nor does one that failed before it could change anything.
LEMMA FaultIsTold ==
    ASSUME NEW r, NEW e, NEW s, exit_code(r.do, e) = 1
    PROVE  Told(r, world, world, s, exit_code(r.do, e), e, TRUE)
BY DEF Told

\* A fine outcome is told truly.
LEMMA OutcomeIsTold ==
    ASSUME NEW r, r.name = "sound", NEW e, NEW w, NEW s, NEW f, Fine(r, e, w, s, f),
           exit_code(r.do, e) = 4 => world.row # "absent"
    PROVE  Told(r, world, w, s, exit_code(r.do, e), e, f)
<1>1. CASE e = "none"
    <2>1. exit_code(r.do, e) = 0
        BY <1>1 DEF exit_code
    <2> QED BY <1>1, <2>1 DEF Fine, Told
<1>2. CASE e # "none" /\ exit_code(r.do, e) = 1
    BY <1>2 DEF Fine, Told, Explained
<1>3. CASE exit_code(r.do, e) = 4 /\ e = "StopUnconfirmed" /\ w.row = "stopping"
    BY <1>3 DEF Fine, Told
<1> QED BY <1>1, <1>2, <1>3 DEF Fine

\* Every command reports a failure of its own with 1.
LEMMA FailureCodes ==
    ASSUME NEW r \in CommandLines
    PROVE  /\ exit_code(r.do, "none") = 0
           /\ exit_code(r.do, "Store") = 1
           /\ exit_code(r.do, "Io") = 1
<1>1. CASE r.do \in LifecycleCommand \cup {"send", "logs"}
    BY <1>1, EngineCodes
<1>2. CASE r.do \in {"config_set", "config_get"}
    BY <1>2, ConfigCodes
<1>3. CASE r.do \in {"register", "remove", "usage", "detach", "attach", "show", "list"}
    BY <1>3, RegistryCodes
<1> QED BY <1>1, <1>2, <1>3, LineFields DEF LifecycleCommand

\* The checks made before the engine opens.
LEMMA ValidationRefuses ==
    ASSUME NEW r \in CommandLines, NEW e, e = Refusal(validate_instance_name(r))
    PROVE  /\ e = "none" => /\ r.do = "attach" => r.kind \in {"filesystem", "native"}
                            /\ r.do \in {"attach", "detach"} => r.name = "sound"
           /\ e # "none" => Honest(r, e)
<1> DEFINE c == validate_instance_name(r)
           w == Malformed(r)
           x == <<r.kind \notin {"filesystem", "native"}, "UnknownAdapterKind">>
<1>1. /\ r.do = "attach" => c = <<w, x>>
      /\ r.do = "detach" => c = <<w>>
      /\ r.do \notin {"attach", "detach"} => c = <<>>
    BY DEF validate_instance_name
<1>2. /\ w[1] <=> r.name = "malformed"
      /\ w[2] = "InvalidName"
      /\ x[1] <=> r.kind \notin {"filesystem", "native"}
      /\ x[2] = "UnknownAdapterKind"
    BY DEF Malformed
<1> HIDE DEF c, w, x
<1>3. r.name \in {"sound", "malformed"}
    BY LineFields DEF Given
<1>4. CASE r.do \notin {"attach", "detach"}
    <2>1. e = "none"
        BY <1>1, <1>4 DEF Refusal, c
    <2> QED BY <1>4, <2>1
<1>5. ASSUME r.do \in {"attach", "detach"}
      PROVE  /\ exit_code(r.do, "InvalidName") = 2
             /\ exit_code(r.do, "UnknownAdapterKind") = 2
             /\ exit_code(r.do, "none") = 0
    BY <1>5, RegistryCodes
<1>6. CASE r.do = "detach"
    <2>1. DOMAIN c = 1 .. 1 /\ c[1] = w
        BY <1>1, <1>6
    <2>2. /\ DOMAIN c \subseteq 1 .. 6
          /\ \A i \in DOMAIN c : i = 1
          /\ 1 \in DOMAIN c
        BY <2>1
    <2>3. \/ e = "none" /\ ~w[1]
          \/ e = w[2] /\ w[1]
        BY <2>1, <2>2, FirstHit DEF c
    <2> QED BY <1>2, <1>3, <1>5, <1>6, <2>3 DEF Honest
<1>7. CASE r.do = "attach"
    <2>1. DOMAIN c = 1 .. 2 /\ c[1] = w /\ c[2] = x
        BY <1>1, <1>7
    <2>2. /\ DOMAIN c \subseteq 1 .. 6
          /\ \A i \in DOMAIN c : i = 1 \/ i = 2
          /\ 1 \in DOMAIN c /\ 2 \in DOMAIN c
          /\ 1 \in 1 .. 2 - 1
        BY <2>1
    <2>3. \/ e = "none" /\ ~w[1] /\ ~x[1]
          \/ e = w[2] /\ w[1]
          \/ e = x[2] /\ x[1] /\ ~w[1]
        <3>1. \/ e = "none" /\ \A i \in DOMAIN c : ~c[i][1]
              \/ \E i \in DOMAIN c : /\ c[i][1] /\ e = c[i][2]
                                     /\ \A j \in 1 .. i - 1 : j \in DOMAIN c => ~c[j][1]
            BY <2>2, FirstHit DEF c
        <3> QED BY <2>1, <2>2, <3>1
    <2>4. CASE e = "none" /\ ~w[1] /\ ~x[1]
        BY <1>2, <1>3, <2>4
    <2>5. CASE e = w[2] /\ w[1]
        BY <1>2, <1>3, <1>5, <1>7, <2>5 DEF Honest
    <2>6. CASE e = x[2] /\ x[1] /\ ~w[1]
        BY <1>2, <1>3, <1>5, <1>7, <2>6 DEF Honest
    <2> QED BY <2>3, <2>4, <2>5, <2>6
<1> QED BY <1>4, <1>6, <1>7

\* A fault excuses a code, and accuses none.
LEMMA ToldOfAFault ==
    ASSUME NEW r, NEW b, NEW w, NEW s, NEW n, NEW e, NEW f, NEW g, f => g,
           Told(r, b, w, s, n, e, f)
    PROVE  Told(r, b, w, s, n, e, g)
BY DEF Told

\* The faults to come are counted down to none.
LEMMA LuckStays ==
    ASSUME KtConstants, KtShape, NEW f, Mishap(f)
    PROVE  luck' \in [faults : 0 .. MaxMishaps, kills : 0 .. MaxKills]
<1>1. CASE f
    <2>1. luck.faults \in 0 .. MaxMishaps /\ luck.kills \in 0 .. MaxKills
        BY DEF KtShape
    <2>2. luck.faults > 0 /\ luck' = [luck EXCEPT !.faults = @ - 1]
        BY <1>1 DEF Mishap
    <2>3. luck.faults - 1 \in 0 .. MaxMishaps
        BY <2>1, <2>2 DEF KtConstants
    <2> QED BY <2>1, <2>2, <2>3 DEF KtShape
<1>2. CASE ~f
    BY <1>2 DEF Mishap, KtShape
<1> QED BY <1>1, <1>2

\* The inventory of a state in which a call is made.
LEMMA CallIsCalled ==
    ASSUME KtShape, KtInv, asked.at = "call"
    PROVE  Called
<1>1. world \in World /\ session \in Sessions /\ adapter \in Declarations
    BY DEF KtShape, Sessions
<1>2. InSight(world)
    BY DEF KtInv, ProcessIsKnown, RemovedAlive, InSight
<1>3. world.process # "none" => session = world.record
    BY DEF KtInv, SessionHolds
<1>4. world.process = "suspended" => adapter.pause = "guaranteed"
    BY DEF KtInv, SuspendedByGuarantee
<1>5. world.row = "absent" => world.backing = "none"
    BY DEF KtInv, NoRowNoBacking
<1>6. Sound(world, session)
    BY <1>1, <1>3, <1>4, <1>5 DEF Sound
<1> QED BY <1>1, <1>2, <1>3, <1>6 DEF Called

\* An answer that is told truly keeps the invariant.
LEMMA AnsweredStep ==
    ASSUME KtShape, KtInv, asked.at # "idle", UNCHANGED adapter,
           luck' \in [faults : 0 .. MaxMishaps, kills : 0 .. MaxKills],
           NEW e, NEW f \in BOOLEAN, Answered(e, f),
           exit_code(asked.do.do, e) \in 0 .. 6,
           world' \in World, session' \in Sessions,
           asked.opened /\ world'.process # "none" /\ world'.record = "attached"
               => session' = "attached",
           world'.process = "suspended" => adapter.pause = "guaranteed",
           world'.row = "absent" => world'.backing = "none",
           \/ world'.process # "none" => world'.record # "none" /\ world'.row \in RowsOfTheLiving
           \/ /\ asked.do.do = "remove" /\ world.row \in {"starting", "stopping"}
              /\ world'.record = "none",
           Told(asked.do, world, world', session', exit_code(asked.do.do, e), e,
                asked.fault \/ f)
    PROVE  KtShape' /\ KtInv'
<1> DEFINE n == exit_code(asked.do.do, e)
           g == asked.fault \/ f
<1>1. /\ DOMAIN asked' = {"at", "do", "error", "code", "fault", "before", "opened"}
      /\ asked'.at = "answered" /\ asked'.error = e /\ asked'.before = world
      /\ asked'.code = n /\ asked'.fault = g /\ asked'.do = asked.do
      /\ asked'.opened = asked.opened
    BY DEF Answered, KtShape
<1>2. n \in 0 .. 6 /\ g \in BOOLEAN /\ asked.do \in CommandLines /\ world \in World
      /\ asked.opened \in BOOLEAN
    BY DEF KtShape
<1>3. Told(asked.do, world, world', session', n, e, g)
    OBVIOUS
<1> HIDE DEF n, g
<1>4. KtShape'
    BY <1>1, <1>2 DEF KtShape, Stages, Sessions
<1>5. CodeIsHonest'
    BY <1>1, <1>3, CodeIsToldNext
<1>6. ProcessIsKnown'
    BY <1>1 DEF ProcessIsKnown, RemovedAlive
<1>7. SessionHolds'
    BY <1>1 DEF SessionHolds
<1>8. SuspendedByGuarantee' /\ NoRowNoBacking'
    BY DEF SuspendedByGuarantee, NoRowNoBacking
<1>9. ReadBackIsAttached' /\ NothingIsLeftRunning' /\ OpenedAtCall' /\ Validated'
    BY <1>1 DEF ReadBackIsAttached, NothingIsLeftRunning, OpenedAtCall, Validated
<1> QED BY <1>4, <1>5, <1>6, <1>7, <1>8, <1>9 DEF KtInv

\* An answer that leaves everything as it was.
LEMMA AnsweredInPlace ==
    ASSUME KtShape, KtInv, asked.at \in {"open", "call"}, UNCHANGED <<adapter, world, session>>,
           luck' \in [faults : 0 .. MaxMishaps, kills : 0 .. MaxKills],
           NEW e, NEW f \in BOOLEAN, Answered(e, f),
           exit_code(asked.do.do, e) \in 0 .. 6, asked.at = "open" => ~asked.opened,
           Told(asked.do, world, world, session, exit_code(asked.do.do, e), e, f)
    PROVE  KtShape' /\ KtInv'
<1>1. world \in World /\ session \in Sessions /\ asked.fault \in BOOLEAN
    BY DEF KtShape, Sessions
<1>2. Told(asked.do, world, world', session', exit_code(asked.do.do, e), e, asked.fault \/ f)
    BY ToldOfAFault
<1>3. /\ world.process # "none" => world.record # "none" /\ world.row \in RowsOfTheLiving
      /\ asked.opened /\ world.process # "none" /\ world.record = "attached"
           => session = "attached"
      /\ world.process = "suspended" => adapter.pause = "guaranteed"
      /\ world.row = "absent" => world.backing = "none"
    BY DEF KtInv, ProcessIsKnown, RemovedAlive, SessionHolds, SuspendedByGuarantee,
           NoRowNoBacking
<1> QED BY <1>1, <1>2, <1>3, AnsweredStep

\* One lemma for each step.
LEMMA InvokeStep ==
    ASSUME KtShape, KtInv, NEW r \in CommandLines, invoke(r)
    PROVE  KtShape' /\ KtInv'
<1> DEFINE e == Refusal(validate_instance_name(r))
           n == exit_code(r.do, e)
<1>1. /\ e = "none" => /\ r.do = "attach" => r.kind \in {"filesystem", "native"}
                       /\ r.do \in {"attach", "detach"} => r.name = "sound"
      /\ e # "none" => Honest(r, e)
    BY ValidationRefuses
<1>2. /\ asked.at = "idle" /\ UNCHANGED <<adapter, world, session, luck>>
      /\ asked' = [at |-> IF e = "none" THEN "open" ELSE "answered", do |-> r, error |-> e,
                   code |-> n, fault |-> FALSE, before |-> world, opened |-> FALSE]
    BY DEF invoke
<1>3. e = Refusal(validate_instance_name(r)) /\ n = exit_code(r.do, e)
    OBVIOUS
<1> HIDE DEF e, n
<1>4. /\ DOMAIN asked' = {"at", "do", "error", "code", "fault", "before", "opened"}
      /\ asked'.at = IF e = "none" THEN "open" ELSE "answered"
      /\ asked'.do = r /\ asked'.error = e /\ asked'.code = n /\ asked'.fault = FALSE
      /\ asked'.before = world /\ asked'.opened = FALSE
    BY <1>2
<1>5. n \in 0 .. 6
    <2>1. CASE e = "none"
        BY <1>3, <2>1, FailureCodes
    <2>2. CASE e # "none"
        BY <1>1, <1>3, <2>2 DEF Honest
    <2> QED BY <2>1, <2>2
<1>6. KtShape'
    BY <1>2, <1>4, <1>5 DEF KtShape, Stages
<1>7. CodeIsHonest'
    <2>1. CASE e = "none"
        BY <1>2, <1>4, <2>1, CodeIsToldNext
    <2>2. CASE e # "none"
        <3>1. Told(r, world, world, session, n, e, FALSE)
            BY <1>1, <1>3, <2>2, RefusedIsTold
        <3> QED BY <1>2, <1>4, <3>1, CodeIsToldNext
    <2> QED BY <2>1, <2>2
<1>8. ProcessIsKnown'
    BY <1>2 DEF KtInv, ProcessIsKnown, RemovedAlive
<1>9. SessionHolds'
    BY <1>2, <1>4 DEF KtInv, SessionHolds
<1>10. SuspendedByGuarantee' /\ NoRowNoBacking'
    BY <1>2 DEF KtInv, SuspendedByGuarantee, NoRowNoBacking
<1>11. ReadBackIsAttached' /\ NothingIsLeftRunning' /\ OpenedAtCall'
    BY <1>4 DEF ReadBackIsAttached, NothingIsLeftRunning, OpenedAtCall
<1>12. Validated'
    BY <1>3, <1>4 DEF Validated
<1> QED BY <1>6, <1>7, <1>8, <1>9, <1>10, <1>11, <1>12 DEF KtInv


LEMMA OpenStep ==
    ASSUME KtShape, KtInv, open_engine
    PROVE  KtShape' /\ KtInv'
<1>1. /\ asked.at = "open" /\ UNCHANGED <<adapter, luck>> /\ adopt_orphans
      /\ asked' = [asked EXCEPT !.at = "call", !.opened = TRUE]
    BY DEF open_engine
<1>2. /\ DOMAIN asked' = {"at", "do", "error", "code", "fault", "before", "opened"}
      /\ asked'.at = "call" /\ asked'.do = asked.do /\ asked'.error = asked.error
      /\ asked'.code = asked.code /\ asked'.fault = asked.fault
      /\ asked'.before = asked.before /\ asked'.opened = TRUE
    BY <1>1 DEF KtShape
<1>3. /\ world \in World /\ session = "no"
      /\ world.process # "none" => world.record # "none" /\ world.row \in RowsOfTheLiving
      /\ world.process = "suspended" => adapter.pause = "guaranteed"
      /\ world.row = "absent" => world.backing = "none"
    BY <1>1 DEF KtShape, KtInv, SessionHolds, ProcessIsKnown, RemovedAlive,
                SuspendedByGuarantee, NoRowNoBacking
<1>4. /\ world' \in World /\ session' \in Sessions
      /\ world'.process # "none" =>
           /\ world'.record # "none" /\ world'.row \in RowsOfTheLiving /\ session' = world'.record
      /\ world'.process = "suspended" => adapter.pause = "guaranteed"
      /\ world'.row = "absent" => world'.backing = "none"
    <2>1. CASE world.process # "none"
        <3>1. session' = world.record /\ world' = world
            BY <1>1, <1>3, <2>1 DEF adopt_orphans
        <3>2. world.record \in Sessions
            BY <1>3, <2>1, WorldFields DEF Sessions
        <3> QED BY <1>3, <3>1, <3>2
    <2>2. CASE world.process = "none"
        <3> DEFINE row == IF world.row \in LiveStates THEN "failed" ELSE world.row
        <3>1. /\ session' = "no"
              /\ world' = [world EXCEPT !.record = "none", !.row = row]
            BY <1>1, <2>2 DEF adopt_orphans
        <3>2. row \in States \cup {"absent"} /\ (row = "absent" => world.row = "absent")
            BY <1>3, WorldFields DEF States
        <3> HIDE DEF row
        <3>3. /\ world' \in World /\ world'.process = "none" /\ world'.row = row
              /\ world'.backing = world.backing
            BY <1>3, <2>2, <3>1, <3>2 DEF World
        <3> QED BY <1>3, <3>1, <3>2, <3>3 DEF Sessions
    <2> QED BY <2>1, <2>2
<1>5. KtShape'
    BY <1>1, <1>2, <1>4 DEF KtShape, Stages, Sessions
<1>6. ProcessIsKnown' /\ SessionHolds' /\ SuspendedByGuarantee' /\ NoRowNoBacking'
    BY <1>1, <1>2, <1>4 DEF ProcessIsKnown, SessionHolds, SuspendedByGuarantee,
                            NoRowNoBacking
<1>7. /\ ReadBackIsAttached' /\ NothingIsLeftRunning' /\ CodeIsHonest' /\ OpenedAtCall'
      /\ Validated'
    BY <1>1, <1>2 DEF ReadBackIsAttached, NothingIsLeftRunning, CodeIsHonest,
                      OpenedAtCall, KtInv, Validated
<1> QED BY <1>5, <1>6, <1>7 DEF KtInv

LEMMA OpenFailsStep ==
    ASSUME KtConstants, KtShape, KtInv, open_engine_fails
    PROVE  KtShape' /\ KtInv'
<1>1. PICK e \in {"Store", "Io"} : Answered(e, TRUE)
    BY DEF open_engine_fails
<1>2. /\ asked.at = "open" /\ UNCHANGED <<adapter, world, session>> /\ Mishap(TRUE)
      /\ asked.do \in CommandLines /\ ~asked.opened
    BY DEF open_engine_fails, KtShape, KtInv, OpenedAtCall
<1>3. exit_code(asked.do.do, e) = 1
    BY <1>2, FailureCodes
<1>4. Told(asked.do, world, world, session, exit_code(asked.do.do, e), e, TRUE)
    BY <1>3, FaultIsTold
<1>5. luck' \in [faults : 0 .. MaxMishaps, kills : 0 .. MaxKills]
    BY <1>2, LuckStays
<1> DEFINE f == TRUE
<1>6. /\ f \in BOOLEAN /\ Answered(e, f)
      /\ Told(asked.do, world, world, session, exit_code(asked.do.do, e), e, f)
    BY <1>1, <1>4
<1> HIDE DEF f
<1> QED BY <1>2, <1>3, <1>5, <1>6, AnsweredInPlace

LEMMA ReaperStep ==
    ASSUME KtShape, KtInv, reaper_tick
    PROVE  KtShape' /\ KtInv'
<1> DEFINE row == IF world.row \in LiveStates THEN "failed" ELSE world.row
<1>1. /\ asked.at = "call" /\ UNCHANGED <<adapter, asked, luck>>
      /\ world.process = "none" /\ world' = [world EXCEPT !.row = row] /\ session' = "no"
    BY DEF reaper_tick
<1>2. world \in World /\ (world.row = "absent" => world.backing = "none")
    BY DEF KtShape, KtInv, NoRowNoBacking
<1>3. row \in States \cup {"absent"} /\ (row = "absent" => world.row = "absent")
    BY <1>2, WorldFields DEF States
<1> HIDE DEF row
<1>4. /\ world' \in World /\ world'.process = "none" /\ world'.row = row
      /\ world'.backing = world.backing
    BY <1>1, <1>2, <1>3 DEF World
<1>5. KtShape'
    BY <1>1, <1>4 DEF KtShape
<1>6. ProcessIsKnown' /\ SessionHolds' /\ SuspendedByGuarantee' /\ NoRowNoBacking'
    BY <1>1, <1>2, <1>3, <1>4 DEF ProcessIsKnown, SessionHolds, SuspendedByGuarantee,
                                  NoRowNoBacking
<1>7. /\ ReadBackIsAttached' /\ NothingIsLeftRunning' /\ CodeIsHonest' /\ OpenedAtCall'
      /\ Validated'
    BY <1>1 DEF ReadBackIsAttached, NothingIsLeftRunning, CodeIsHonest,
                      OpenedAtCall, KtInv, Validated
<1> QED BY <1>5, <1>6, <1>7 DEF KtInv

LEMMA RefusedStep ==
    ASSUME KtShape, KtInv, call_refused
    PROVE  KtShape' /\ KtInv'
<1> DEFINE e == Refusal(checks(asked.do))
<1>1. /\ asked.at = "call" /\ e # "none" /\ Answered(e, FALSE)
      /\ UNCHANGED <<adapter, world, session, luck>>
    BY DEF call_refused
<1>2. asked.do \in CommandLines
    BY <1>1 DEF KtShape
<1>3. Honest(asked.do, e)
    BY <1>1, <1>2, RefusalIsHonest
<1> HIDE DEF e
<1>4. exit_code(asked.do.do, e) \in 0 .. 6
    BY <1>3 DEF Honest
<1>5. Told(asked.do, world, world, session, exit_code(asked.do.do, e), e, FALSE)
    BY <1>3, RefusedIsTold
<1>6. luck' \in [faults : 0 .. MaxMishaps, kills : 0 .. MaxKills]
    BY <1>1 DEF KtShape
<1> QED BY <1>1, <1>4, <1>5, <1>6, AnsweredInPlace

LEMMA UnreadableStep ==
    ASSUME KtConstants, KtShape, KtInv, call_unreadable
    PROVE  KtShape' /\ KtInv'
<1>1. /\ asked.at = "call" /\ UNCHANGED <<adapter, world, session>> /\ Mishap(TRUE)
      /\ asked.do \in CommandLines /\ Answered("Store", TRUE)
    BY DEF call_unreadable, KtShape
<1>2. exit_code(asked.do.do, "Store") = 1
    BY <1>1, FailureCodes
<1>3. Told(asked.do, world, world, session, exit_code(asked.do.do, "Store"), "Store", TRUE)
    BY <1>2, FaultIsTold
<1>4. luck' \in [faults : 0 .. MaxMishaps, kills : 0 .. MaxKills]
    BY <1>1, LuckStays
<1> DEFINE f == TRUE
<1>5. /\ f \in BOOLEAN /\ Answered("Store", f)
      /\ Told(asked.do, world, world, session, exit_code(asked.do.do, "Store"), "Store", f)
    BY <1>1, <1>3
<1> HIDE DEF f
<1> QED BY <1>1, <1>2, <1>4, <1>5, AnsweredInPlace

LEMMA CallStep ==
    ASSUME KtConstants, KtShape, KtInv, engine_call
    PROVE  KtShape' /\ KtInv'
<1> DEFINE r == asked.do
<1>1. /\ asked.at = "call" /\ Refusal(checks(r)) = "none" /\ UNCHANGED adapter
      /\ r \in CommandLines /\ asked.opened
    BY DEF engine_call, KtShape, KtInv, OpenedAtCall
<1>2. PICK o \in effects(r) :
        /\ Mishap(o.fault) /\ world' = o.world /\ session' = o.session
        /\ IF o.error = "none" /\ ReadsBack(r)
           THEN asked' = [asked EXCEPT !.at = "read_back", !.before = world]
           ELSE Answered(o.error, o.fault)
    BY DEF engine_call
<1>3. InOrder(r)
    BY <1>1, RefusalIsHonest
<1>4. r.do = "attach" => r.kind \in {"filesystem", "native"}
    BY <1>1, ValidationRefuses DEF KtInv, Validated
<1>5. Called
    BY <1>1, CallIsCalled
<1>6. Fine(r, o.error, world', session', o.fault)
    <2>1. Fine(r, o.error, o.world, o.session, o.fault)
        BY <1>1, <1>3, <1>4, <1>5, EffectIsFine
    <2> QED BY <1>2, <2>1
<1>7. luck' \in [faults : 0 .. MaxMishaps, kills : 0 .. MaxKills]
    BY <1>2, LuckStays
<1>8. /\ world' \in World /\ session' \in Sessions
      /\ world'.process # "none" /\ world'.record = "attached" => session' = "attached"
      /\ world'.process = "suspended" => adapter.pause = "guaranteed"
      /\ world'.row = "absent" => world'.backing = "none"
      /\ \/ world'.process # "none" => world'.record # "none" /\ world'.row \in RowsOfTheLiving
         \/ /\ r.do = "remove" /\ world.row \in {"starting", "stopping"}
            /\ world'.record = "none"
    BY <1>6 DEF Fine, Sound, InSight
<1>9. CASE o.error = "none" /\ ReadsBack(r)
    <2>1. asked' = [asked EXCEPT !.at = "read_back", !.before = world]
        BY <1>2, <1>9
    <2>2. /\ DOMAIN asked' = {"at", "do", "error", "code", "fault", "before", "opened"}
          /\ asked'.at = "read_back" /\ asked'.do = r /\ asked'.error = asked.error
          /\ asked'.code = asked.code /\ asked'.fault = asked.fault
          /\ asked'.before = world /\ asked'.opened = TRUE
        BY <1>1, <2>1 DEF KtShape
    <2>3. r.do = "attach" /\ r.name = "sound" /\ Achieved(r, world, world', session')
        BY <1>3, <1>6, <1>9 DEF ReadsBack, InOrder, Fine
    <2>4. KtShape'
        BY <1>1, <1>7, <1>8, <2>2 DEF KtShape, Stages, Sessions
    <2>5. ReadBackIsAttached'
        BY <1>1, <2>2, <2>3 DEF ReadBackIsAttached, Achieved
    <2>6. ProcessIsKnown' /\ SessionHolds' /\ SuspendedByGuarantee' /\ NoRowNoBacking'
        BY <1>1, <1>8, <2>2, <2>3 DEF ProcessIsKnown, SessionHolds, SuspendedByGuarantee,
                                      NoRowNoBacking
    <2>7. NothingIsLeftRunning' /\ CodeIsHonest' /\ OpenedAtCall' /\ Validated'
        BY <1>1, <2>2 DEF NothingIsLeftRunning, CodeIsHonest, OpenedAtCall, KtInv, Validated
    <2> QED BY <2>4, <2>5, <2>6, <2>7 DEF KtInv
<1>10. CASE ~(o.error = "none" /\ ReadsBack(r))
    <2>1. Answered(o.error, o.fault)
        BY <1>2, <1>10
    <2>2. o.fault \in BOOLEAN /\ exit_code(r.do, o.error) \in 0 .. 6
        BY <1>1, <1>6, FailureCodes DEF Fine
    <2>3. r.name = "sound" /\ (exit_code(r.do, o.error) = 4 => world.row # "absent")
        <3>1. r.do \in {"register", "list"} => exit_code(r.do, o.error) # 4
            <4>1. CASE o.error = "none"
                BY <1>1, <4>1, FailureCodes
            <4>2. CASE o.error # "none"
                <5>1. exit_code(r.do, o.error) # 4 \/ o.error = "StopUnconfirmed"
                    BY <1>6, <4>2 DEF Fine
                <5>2. r.do = "register" => o.error # "StopUnconfirmed"
                    BY <1>2 DEF effects, register_effects, Answer, Fault
                <5>3. r.do = "list" => o.error # "StopUnconfirmed"
                    BY <1>2 DEF effects, Answer
                <5> QED BY <5>1, <5>2, <5>3
            <4> QED BY <4>1, <4>2
        <3> QED BY <1>3, <3>1 DEF InOrder
    <2>4. Told(r, world, world', session', exit_code(r.do, o.error), o.error, o.fault)
        BY <1>6, <2>3, OutcomeIsTold
    <2>5. asked.fault \in BOOLEAN
        BY DEF KtShape
    <2> DEFINE g == asked.fault \/ o.fault
    <2>6. o.fault => g
        BY <2>2, <2>5
    <2> HIDE DEF g
    <2>7. Told(r, world, world', session', exit_code(r.do, o.error), o.error, g)
        BY <2>4, <2>6, ToldOfAFault
    <2> HIDE DEF r
    <2> QED BY <1>1, <1>7, <1>8, <2>1, <2>2, <2>7, AnsweredStep DEF r, g
<1> QED BY <1>9, <1>10


LEMMA ReadBackStep ==
    ASSUME KtConstants, KtShape, KtInv, read_back
    PROVE  KtShape' /\ KtInv'
<1>1. PICK e \in {"none", "Io"} :
        /\ Mishap(e # "none")
        /\ asked' = [asked EXCEPT !.at = "answered", !.error = e, !.fault = e # "none",
                                  !.code = exit_code("attach", e)]
    BY DEF read_back
<1>2. asked.at = "read_back" /\ UNCHANGED <<adapter, world, session>>
    BY DEF read_back
<1> DEFINE n == exit_code("attach", e)
           f == e # "none"
<1>3. /\ DOMAIN asked' = {"at", "do", "error", "code", "fault", "before", "opened"}
      /\ asked'.at = "answered" /\ asked'.do = asked.do /\ asked'.error = e
      /\ asked'.code = n /\ asked'.fault = f
      /\ asked'.before = asked.before /\ asked'.opened = asked.opened
    BY <1>1 DEF KtShape
<1>4. n \in {0, 1} /\ f \in BOOLEAN /\ (n = 1 => f)
    BY <1>1, RegistryCodes
<1>5. /\ asked.do.do = "attach" /\ asked.do.name = "sound"
      /\ Achieved(asked.do, asked.before, world, session)
    BY <1>2 DEF KtInv, ReadBackIsAttached
<1>6. luck' \in [faults : 0 .. MaxMishaps, kills : 0 .. MaxKills]
    BY <1>1, LuckStays
<1> HIDE DEF n, f
<1>7. Told(asked.do, asked.before, world, session, n, e, f)
    BY <1>4, <1>5 DEF Told
<1>8. KtShape'
    BY <1>2, <1>3, <1>4, <1>6 DEF KtShape, Stages
<1>9. CodeIsHonest'
    BY <1>2, <1>3, <1>7, CodeIsToldNext
<1>10. ProcessIsKnown' /\ SessionHolds' /\ SuspendedByGuarantee' /\ NoRowNoBacking'
    BY <1>2, <1>3 DEF KtInv, ProcessIsKnown, RemovedAlive, SessionHolds,
                      SuspendedByGuarantee, NoRowNoBacking
<1>11. ReadBackIsAttached' /\ NothingIsLeftRunning' /\ OpenedAtCall' /\ Validated'
    BY <1>3 DEF ReadBackIsAttached, NothingIsLeftRunning, OpenedAtCall, Validated
<1> QED BY <1>8, <1>9, <1>10, <1>11 DEF KtInv

LEMMA ClosedStep ==
    ASSUME KtConstants, KtShape, KtInv, stdout_closed
    PROVE  KtShape' /\ KtInv'
<1>1. /\ asked.at = "answered" /\ asked.code = 0 /\ Mishap(TRUE)
      /\ asked' = [asked EXCEPT !.code = 101, !.fault = TRUE]
      /\ UNCHANGED <<adapter, world, session>>
    BY DEF stdout_closed
<1>2. /\ DOMAIN asked' = {"at", "do", "error", "code", "fault", "before", "opened"}
      /\ asked'.at = "answered" /\ asked'.do = asked.do /\ asked'.error = asked.error
      /\ asked'.code = 101 /\ asked'.fault = TRUE
      /\ asked'.before = asked.before /\ asked'.opened = asked.opened
    BY <1>1 DEF KtShape
<1>3. luck' \in [faults : 0 .. MaxMishaps, kills : 0 .. MaxKills]
    BY <1>1, LuckStays
<1>4. Told(asked.do, asked.before, world, session, asked.code, asked.error, asked.fault)
    BY <1>1, CodeIsTold DEF KtInv
<1>5. Told(asked.do, asked.before, world, session, 101, asked.error, TRUE)
    BY <1>1, <1>4 DEF Told
<1>6. KtShape'
    BY <1>1, <1>2, <1>3 DEF KtShape
<1>7. CodeIsHonest'
    BY <1>1, <1>2, <1>5, CodeIsToldNext
<1>8. ProcessIsKnown' /\ SessionHolds' /\ SuspendedByGuarantee' /\ NoRowNoBacking'
    BY <1>1, <1>2 DEF KtInv, ProcessIsKnown, RemovedAlive, SessionHolds,
                      SuspendedByGuarantee, NoRowNoBacking
<1>9. ReadBackIsAttached' /\ NothingIsLeftRunning' /\ OpenedAtCall' /\ Validated'
    BY <1>2 DEF ReadBackIsAttached, NothingIsLeftRunning, OpenedAtCall, Validated
<1> QED BY <1>6, <1>7, <1>8, <1>9 DEF KtInv

\* Between two commands, the session gone.
LEMMA OverStep ==
    ASSUME KtShape, KtInv, UNCHANGED adapter, session' = "no",
           NEW w \in World, w.row = world.row, w.record = world.record,
           w.backing = world.backing, w.process \in {"none", world.process},
           world' = OutOfSight(w),
           luck' \in [faults : 0 .. MaxMishaps, kills : 0 .. MaxKills],
           DOMAIN asked' = {"at", "do", "error", "code", "fault", "before", "opened"},
           asked'.at = "idle", asked'.code = 0, asked'.fault = FALSE,
           asked'.before = Nothing, asked'.opened \in BOOLEAN,
           asked'.opened /\ asked'.error # "killed" /\ w.process # "none"
               => w.record # "attached"
    PROVE  KtShape' /\ KtInv'
<1>1. /\ world' \in World /\ world'.row = world.row /\ world'.record = world.record
      /\ world'.backing = world.backing /\ world'.process \in {"none", w.process}
      /\ world'.process # "none" => world'.record # "none"
    BY DEF OutOfSight, World
<1>2. Nothing \in World
    BY DEF Nothing, World, States
<1>3. KtShape'
    <2>1. asked'.code \in 0 .. 6 \cup {101} /\ asked'.before \in World
        BY <1>2
    <2>2. asked'.fault \in BOOLEAN
        BY Zenon
    <2>3. adapter' \in Declarations
        BY DEF KtShape
    <2> QED BY <1>1, <2>1, <2>2, <2>3 DEF KtShape, Stages
<1>4. ProcessIsKnown'
    BY <1>1 DEF KtInv, ProcessIsKnown, RemovedAlive
<1>5. SuspendedByGuarantee' /\ NoRowNoBacking'
    BY <1>1 DEF KtInv, SuspendedByGuarantee, NoRowNoBacking
<1>6. NothingIsLeftRunning'
    BY <1>1, WorldFields DEF NothingIsLeftRunning
<1>7. /\ SessionHolds' /\ CodeIsHonest' /\ ReadBackIsAttached' /\ OpenedAtCall'
      /\ Validated'
    BY DEF SessionHolds, CodeIsHonest, ReadBackIsAttached, OpenedAtCall, Validated
<1> QED BY <1>3, <1>4, <1>5, <1>6, <1>7 DEF KtInv

LEMMA ExitStep ==
    ASSUME KtShape, KtInv, exit
    PROVE  KtShape' /\ KtInv'
<1> DEFINE w == drop_engine(world)
<1>1. /\ asked.at = "answered" /\ UNCHANGED <<adapter, luck>> /\ session' = "no"
      /\ world' = OutOfSight(w) /\ asked' = [NoCommand EXCEPT !.opened = asked.opened]
    BY DEF exit
<1>2. world \in World /\ asked.opened \in BOOLEAN
      /\ luck' \in [faults : 0 .. MaxMishaps, kills : 0 .. MaxKills]
    BY <1>1 DEF KtShape
<1>3. /\ w \in World /\ w.row = world.row /\ w.record = world.record
      /\ w.backing = world.backing /\ w.process \in {"none", world.process}
      /\ session = "attached" => w.process = "none"
    BY <1>2 DEF drop_engine, World
<1>4. /\ DOMAIN asked' = {"at", "do", "error", "code", "fault", "before", "opened"}
      /\ asked'.at = "idle" /\ asked'.error = "none" /\ asked'.code = 0
      /\ asked'.fault = FALSE /\ asked'.before = Nothing /\ asked'.opened = asked.opened
    BY <1>1 DEF NoCommand
<1>5. asked'.opened /\ w.process # "none" => w.record # "attached"
    BY <1>1, <1>3, <1>4 DEF KtInv, SessionHolds
<1> HIDE DEF w
<1> QED BY <1>1, <1>2, <1>3, <1>4, <1>5, OverStep

LEMMA KilledStep ==
    ASSUME KtConstants, KtShape, KtInv, kt_killed
    PROVE  KtShape' /\ KtInv'
<1>1. /\ UNCHANGED adapter /\ session' = "no" /\ world' = OutOfSight(world)
      /\ luck.kills > 0 /\ luck' = [luck EXCEPT !.kills = @ - 1]
      /\ asked' = [NoCommand EXCEPT !.error = "killed"]
    BY DEF kt_killed
<1>2. /\ DOMAIN asked' = {"at", "do", "error", "code", "fault", "before", "opened"}
      /\ asked'.at = "idle" /\ asked'.error = "killed" /\ asked'.code = 0
      /\ asked'.fault = FALSE /\ asked'.before = Nothing /\ asked'.opened = FALSE
    BY <1>1 DEF NoCommand
<1>3. luck' \in [faults : 0 .. MaxMishaps, kills : 0 .. MaxKills]
    <2>1. luck.kills - 1 \in 0 .. MaxKills
        BY <1>1 DEF KtShape, KtConstants
    <2> QED BY <1>1, <2>1 DEF KtShape
<1>4. world \in World
    BY DEF KtShape
<1> QED BY <1>1, <1>2, <1>3, <1>4, OverStep

\* What was told stays true when the agent exits.
LEMMA ToldWhenItExits ==
    ASSUME NEW r, NEW b \in World, NEW w \in World, NEW s, NEW n, NEW e, NEW f,
           NEW v, v = [w EXCEPT !.process = "none"]
    PROVE  /\ Achieved(r, b, w, s) => Achieved(r, b, v, s)
           /\ Told(r, b, w, s, n, e, f) => Told(r, b, v, s, n, e, f)
<1>1. /\ v.row = w.row /\ v.record = w.record /\ v.backing = w.backing
      /\ v.setting = w.setting /\ v.home = w.home /\ v.process = "none"
    BY DEF World
<1>2. Unchanged(b, w) => Unchanged(b, v)
    BY DEF Unchanged, World
<1>3. Achieved(r, b, w, s) => Achieved(r, b, v, s)
    BY <1>1, <1>2 DEF Achieved
<1> QED BY <1>1, <1>2, <1>3 DEF Told

LEMMA AgentExitsStep ==
    ASSUME KtShape, KtInv, agent_exits
    PROVE  KtShape' /\ KtInv'
<1>1. /\ world' = [world EXCEPT !.process = "none"]
      /\ UNCHANGED <<adapter, session, asked, luck>>
    BY DEF agent_exits
<1>2. world \in World /\ asked.before \in World
    BY DEF KtShape
<1>3. /\ world' \in World /\ world'.process = "none" /\ world'.row = world.row
      /\ world'.backing = world.backing /\ world'.record = world.record
    BY <1>1, <1>2 DEF World
<1>4. KtShape'
    BY <1>1, <1>3 DEF KtShape
<1>5. CodeIsHonest'
    <2>1. CASE asked.at = "answered"
        <3>1. Told(asked.do, asked.before, world, session, asked.code, asked.error,
                   asked.fault)
            BY <2>1, CodeIsTold DEF KtInv
        <3>2. Told(asked.do, asked.before, world', session, asked.code, asked.error,
                   asked.fault)
            BY <1>1, <1>2, <3>1, ToldWhenItExits
        <3> QED BY <1>1, <3>2, CodeIsToldNext
    <2>2. CASE asked.at # "answered"
        BY <1>1, <2>2 DEF CodeIsHonest
    <2> QED BY <2>1, <2>2
<1>6. ReadBackIsAttached'
    <2>1. CASE asked.at = "read_back"
        <3>1. Achieved(asked.do, asked.before, world, session)
            BY <2>1 DEF KtInv, ReadBackIsAttached
        <3>2. Achieved(asked.do, asked.before, world', session)
            BY <1>1, <1>2, <3>1, ToldWhenItExits
        <3> QED BY <1>1, <2>1, <3>2 DEF KtInv, ReadBackIsAttached, Achieved
    <2>2. CASE asked.at # "read_back"
        BY <1>1, <2>2 DEF ReadBackIsAttached
    <2> QED BY <2>1, <2>2
<1>7. ProcessIsKnown' /\ SessionHolds' /\ SuspendedByGuarantee' /\ NoRowNoBacking'
    BY <1>1, <1>3 DEF KtInv, ProcessIsKnown, SessionHolds, SuspendedByGuarantee,
                      NoRowNoBacking
<1>8. NothingIsLeftRunning' /\ OpenedAtCall' /\ Validated'
    BY <1>1, <1>3 DEF KtInv, NothingIsLeftRunning, OpenedAtCall, Validated
<1> QED BY <1>4, <1>5, <1>6, <1>7, <1>8 DEF KtInv

\* The invariant holds at first, and every step keeps it.
LEMMA KtStart ==
    ASSUME KtConstants, KtInit
    PROVE  KtShape /\ KtInv
<1>1. /\ adapter \in Declarations /\ world = Nothing /\ session = "no"
      /\ asked = NoCommand /\ luck = [faults |-> MaxMishaps, kills |-> MaxKills]
    BY DEF KtInit
<1>2. Nothing \in World /\ Nothing.process = "none" /\ Nothing.backing = "none"
    BY DEF Nothing, World, States
<1>3. /\ DOMAIN asked = {"at", "do", "error", "code", "fault", "before", "opened"}
      /\ asked.at = "idle" /\ asked.code = 0 /\ asked.fault = FALSE
      /\ asked.before = Nothing /\ asked.opened = FALSE
    BY <1>1 DEF NoCommand
<1>4. luck \in [faults : 0 .. MaxMishaps, kills : 0 .. MaxKills]
    BY <1>1 DEF KtConstants
<1>5. /\ asked.code \in 0 .. 6 \cup {101} /\ asked.before \in World
      /\ asked.fault \in BOOLEAN /\ asked.opened \in BOOLEAN
    <2>1. asked.code \in 0 .. 6 \cup {101} /\ asked.before \in World
        BY <1>2, <1>3
    <2>2. asked.fault \in BOOLEAN /\ asked.opened \in BOOLEAN
        BY <1>3, Zenon
    <2> QED BY <2>1, <2>2
<1>6. KtShape
    BY <1>1, <1>2, <1>3, <1>4, <1>5 DEF KtShape, Stages
<1>7. KtInv
    BY <1>1, <1>2, <1>3 DEF KtInv, ProcessIsKnown, SessionHolds, SuspendedByGuarantee,
        NoRowNoBacking, ReadBackIsAttached, NothingIsLeftRunning, CodeIsHonest,
        OpenedAtCall, Validated
<1> QED BY <1>6, <1>7

LEMMA KtStep ==
    ASSUME KtConstants, KtShape, KtInv, [KtNext]_ktVars
    PROVE  KtShape' /\ KtInv'
<1>1. CASE UNCHANGED ktVars
    <2>1. UNCHANGED adapter /\ UNCHANGED world /\ UNCHANGED session /\ UNCHANGED asked
          /\ UNCHANGED luck
        BY <1>1 DEF ktVars
    <2>2. KtShape'
        BY <2>1 DEF KtShape
    <2>3. CodeIsHonest'
        BY <2>1, CodeIsTold, CodeIsToldNext DEF KtInv
    <2>4. ReadBackIsAttached'
        BY <2>1 DEF KtInv, ReadBackIsAttached, Achieved
    <2>5. ProcessIsKnown' /\ SessionHolds' /\ SuspendedByGuarantee' /\ NoRowNoBacking'
        BY <2>1 DEF KtInv, ProcessIsKnown, RemovedAlive, SessionHolds,
                    SuspendedByGuarantee, NoRowNoBacking
    <2>6. NothingIsLeftRunning' /\ OpenedAtCall' /\ Validated'
        BY <2>1 DEF KtInv, NothingIsLeftRunning, OpenedAtCall, Validated
    <2> QED BY <2>2, <2>3, <2>4, <2>5, <2>6 DEF KtInv
<1>2. ASSUME NEW r \in CommandLines, invoke(r) PROVE KtShape' /\ KtInv'
    BY <1>2, InvokeStep
<1>3. CASE open_engine
    BY <1>3, OpenStep
<1>4. CASE open_engine_fails
    BY <1>4, OpenFailsStep
<1>5. CASE reaper_tick
    BY <1>5, ReaperStep
<1>6. CASE call_refused
    BY <1>6, RefusedStep
<1>7. CASE call_unreadable
    BY <1>7, UnreadableStep
<1>8. CASE engine_call
    BY <1>8, CallStep
<1>9. CASE read_back
    BY <1>9, ReadBackStep
<1>10. CASE stdout_closed
    BY <1>10, ClosedStep
<1>11. CASE exit
    BY <1>11, ExitStep
<1>12. CASE kt_killed
    BY <1>12, KilledStep
<1>13. CASE agent_exits
    BY <1>13, AgentExitsStep
<1> QED BY <1>1, <1>2, <1>3, <1>4, <1>5, <1>6, <1>7, <1>8, <1>9, <1>10, <1>11, <1>12,
           <1>13 DEF KtNext

(***************************************************************************)
(* kt tells the truth: its exit code says what the command did and to      *)
(* what, a command that opened the engine leaves no agent running that was *)
(* not detached, and an agent that is alive can be found by the next       *)
(* command, whatever fails, is killed or exits on its own.                 *)
(***************************************************************************)
THEOREM CommandsAreHonest ==
    ASSUME KtConstants
    PROVE  KtSpec => []CommandIsHonest
<1>1. KtInit => KtShape /\ KtInv
    BY KtStart
<1>2. KtShape /\ KtInv /\ [KtNext]_ktVars => (KtShape /\ KtInv)'
    BY KtStep
<1>3. KtShape /\ KtInv => CommandIsHonest
    <2>1. KtInv => AgentIsFindable
        BY DEF KtInv, ProcessIsKnown, RemovedAlive, AgentIsFindable
    <2> QED BY <2>1 DEF KtInv, CommandIsHonest
<1> QED BY <1>1, <1>2, <1>3, PTL DEF KtSpec
=============================================================================
