-------------------------- MODULE PollCorroboration --------------------------
(***************************************************************************)
(* What the reaper makes of poll errors: poll_once reads every held handle *)
(* once per tick, takes errors on several handles in one tick for a        *)
(* failure of the environment, though not for ever, and takes a handle     *)
(* that keeps erring for crashed.                                          *)
(***************************************************************************)
EXTENDS Integers, FiniteSets

CONSTANTS
    Handles,
    MAX_CONSECUTIVE_POLL_ERRORS,
    MAX_CONSECUTIVE_ENVIRONMENTAL_TICKS

ASSUME PollAssumption ==
    /\ IsFiniteSet(Handles)
    /\ MAX_CONSECUTIVE_POLL_ERRORS \in Nat \ {0}
    /\ MAX_CONSECUTIVE_ENVIRONMENTAL_TICKS \in Nat

VARIABLES
    holding,             \* the names of Supervisor.running
    poll_error_streaks,
    consecutive_environmental_ticks,
    watch                \* history, see Watched

pollVars == <<holding, poll_error_streaks, consecutive_environmental_ticks, watch>>

-----------------------------------------------------------------------------
\* erred: errors of a handle since it was last read or taken; earned: those
\* that came alone in their tick, or in an outage that had lasted too long;
\* outage: consecutive ticks with several errors; unreadable: the handles the
\* last tick gave up.
NotWatched == [erred |-> [h \in Handles |-> 0], earned |-> [h \in Handles |-> 0],
               outage |-> 0, unreadable |-> {}]

NoStreaks == [h \in Handles |-> 0]

Several(erring) == Cardinality(erring) > 1

\* The count stops where nothing looks at it any more.
EnvironmentalTicks ==
    IF consecutive_environmental_ticks <= MAX_CONSECUTIVE_ENVIRONMENTAL_TICKS
    THEN consecutive_environmental_ticks + 1 ELSE consecutive_environmental_ticks

\* Mutant: a second error in a tick is no excuse.
environmental_tick_never(erring) == FALSE

environmental_tick(erring) ==
    /\ Several(erring)
    /\ consecutive_environmental_ticks + 1 <= MAX_CONSECUTIVE_ENVIRONMENTAL_TICKS

\* Mutant: an environmental tick clears the streaks.
poll_verdict_forgiving(erring, h) ==
    IF h \notin erring \/ environmental_tick(erring) THEN 0
    ELSE poll_error_streaks[h] + 1

\* The streak a handle has after the tick.
poll_verdict(erring, h) ==
    IF h \notin erring THEN 0
    ELSE IF environmental_tick(erring) THEN poll_error_streaks[h]
    ELSE poll_error_streaks[h] + 1

PersistentError(erring) ==
    {h \in erring : poll_verdict(erring, h) >= MAX_CONSECUTIVE_POLL_ERRORS}

\* A handle that goes takes its streak with it.
Kept(streak, lost) == [h \in Handles |-> IF h \in lost THEN 0 ELSE streak[h]]

\* The ticks an outage has lasted, as far as anything looks at them.
Outage(erring) ==
    IF ~Several(erring) THEN 0
    ELSE IF watch.outage > MAX_CONSECUTIVE_ENVIRONMENTAL_TICKS THEN watch.outage
    ELSE watch.outage + 1

Earned(erring) ==
    IF Several(erring) /\ Outage(erring) <= MAX_CONSECUTIVE_ENVIRONMENTAL_TICKS
    THEN 0 ELSE 1

Watched(erring, lost) ==
    [erred  |-> [h \in Handles |->
                    IF h \in erring \ lost THEN watch.erred[h] + 1 ELSE 0],
     earned |-> [h \in Handles |->
                    IF h \in erring THEN watch.earned[h] + Earned(erring) ELSE 0],
     outage |-> Outage(erring),
     unreadable |-> PersistentError(erring)]

-----------------------------------------------------------------------------
poll_once(erring, exited) ==
    LET lost == exited \cup PersistentError(erring)
    IN /\ holding' = holding \ lost
       /\ poll_error_streaks' =
             Kept([h \in Handles |-> poll_verdict(erring, h)], lost)
       /\ consecutive_environmental_ticks' = IF Several(erring) THEN EnvironmentalTicks ELSE 0
       /\ watch' = Watched(erring, lost)

tick == \E erring \in SUBSET holding : \E exited \in SUBSET (holding \ erring) :
            poll_once(erring, exited)

Clear(h) ==
    /\ poll_error_streaks' = [poll_error_streaks EXCEPT ![h] = 0]
    /\ watch' = [watch EXCEPT !.erred[h] = 0, !.earned[h] = 0, !.unreadable = {}]
    /\ UNCHANGED consecutive_environmental_ticks

\* A start, an adoption or a restart; a stop.
hold(h) == h \notin holding /\ holding' = holding \cup {h} /\ Clear(h)

release(h) == h \in holding /\ holding' = holding \ {h} /\ Clear(h)

\* The streaks live in the engine's memory only.
engine_reopened ==
    /\ holding' \in SUBSET Handles
    /\ poll_error_streaks' = NoStreaks /\ consecutive_environmental_ticks' = 0
    /\ watch' = NotWatched

PollInit ==
    /\ holding = {} /\ poll_error_streaks = NoStreaks
    /\ consecutive_environmental_ticks = 0 /\ watch = NotWatched

PollNext == tick \/ engine_reopened \/ \E h \in Handles : hold(h) \/ release(h)

PollSpec == PollInit /\ [][PollNext]_pollVars

-----------------------------------------------------------------------------
(* Properties.                                                             *)

PollTypeOK ==
    /\ holding \subseteq Handles
    /\ poll_error_streaks \in [Handles -> 0 .. MAX_CONSECUTIVE_POLL_ERRORS - 1]
    /\ consecutive_environmental_ticks \in 0 .. MAX_CONSECUTIVE_ENVIRONMENTAL_TICKS + 1
    /\ watch.erred \in [Handles -> Nat] /\ watch.earned \in [Handles -> Nat]
    /\ watch.outage \in 0 .. MAX_CONSECUTIVE_ENVIRONMENTAL_TICKS + 1
    /\ watch.unreadable \subseteq Handles

\* The longest a handle can err at every tick without being given up.
Tolerated ==
    (MAX_CONSECUTIVE_POLL_ERRORS - 1) * (MAX_CONSECUTIVE_ENVIRONMENTAL_TICKS + 1)
        + MAX_CONSECUTIVE_ENVIRONMENTAL_TICKS

\* Detection is never switched off: whatever its peers do, however they flap,
\* come and go, a handle that errs at every tick is given up after a bounded
\* number of ticks.
BrokenIsNoticed == \A h \in holding : watch.erred[h] <= Tolerated

\* An outage of the process table is no crash: a handle is given up only for
\* errors it made alone, or in an outage that had outlasted the trust in it.
OutageIsNoCrash ==
    \A h \in watch.unreadable : watch.earned[h] >= MAX_CONSECUTIVE_POLL_ERRORS
=============================================================================
