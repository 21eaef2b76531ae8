------------------------------- MODULE Budget -------------------------------
(***************************************************************************)
(* Token Budgets and dollar Cost Caps of one Agent Instance: every usage   *)
(* row that commits is priced, totalled and held against the ceilings, and *)
(* a breach is latched, recorded and acted on, inside the commit.          *)
(*                                                                         *)
(* Enforcement runs under the mutexes but not at once: a stop it takes     *)
(* drains the agent's log again, which commits rows and enforces in turn.  *)
(* op is the stack of what is under way.  The engine may be killed between *)
(* any two of its steps.                                                   *)
(***************************************************************************)
EXTENDS Integers, Sequences, Functions

CONSTANTS
    Configs,        \* the effective configurations an operator may set
    Usages,         \* the <<input, output>> token counts an agent reports
    U64MAX, I64MAX, MICROS_PER_DOLLAR,
    MaxRows, MaxRuns, MaxChanges       \* bounds

Scopes     == {"per-run", "cumulative"}
Dimensions == {"tokens", "dollars"}
Actions    == {"pause", "stop", "warn"}

\* What a configuration of this module gives them.
BudgetConstants ==
    /\ I64MAX \in Nat \ {0} /\ U64MAX \in Nat /\ I64MAX < U64MAX
    /\ MICROS_PER_DOLLAR \in Nat \ {0}
    /\ MaxRows \in Nat /\ MaxRuns \in Nat /\ MaxChanges \in Nat
    /\ Usages \subseteq (0 .. U64MAX) \X (0 .. U64MAX)
    /\ \A c \in Configs :
          /\ \A s \in Scopes : c.budget[s] \subseteq Nat /\ c.cap[s] \subseteq Nat
          /\ c.input_rate \subseteq Nat /\ c.output_rate \subseteq Nat
          /\ c.action \in Actions

VARIABLES
    effective,  \* the effective configuration
    changes,    \* how often it has changed, or the store could not be read
    ledger,     \* the usage_events rows
    run,        \* the Run id of the handle, minted upwards
    state,      \* the lifecycle state of the row
    held,       \* the engine holds the handle
    latch,      \* breached_scopes of the handle
    op,         \* the stack of frames under way
    breaches,   \* breaches.log
    past        \* history

budgetVars == <<effective, changes, ledger, run, state, held, latch, op, breaches, past>>

-----------------------------------------------------------------------------
(* An Option is a set of at most one element.                              *)

\* A half-configured Rate is no Rate.
Rate(c) == c.input_rate \X c.output_rate

Ceilings(c, d) == IF d = "tokens" THEN c.budget ELSE c.cap

is_set(ceiling) == \E s \in Scopes : ceiling[s] # {}

\* A cap cannot be enforced without a Rate.
Armed(c, d) == is_set(Ceilings(c, d)) /\ (d = "dollars" => Rate(c) # {})

Upto(n, max) == IF n <= max THEN n ELSE max

\* Mutant: a count beyond the column's range goes in as it is.
unclamped_tokens(n) == n

clamp_tokens(n) == Upto(n, I64MAX)

saturating_add(a, b) == Upto(a + b, U64MAX)

\* Each direction at its own price, to the nearest micro-dollar, ties upwards.
PerDirection(tokens, price) ==
    Upto((tokens * price + MICROS_PER_DOLLAR \div 2) \div MICROS_PER_DOLLAR, I64MAX)

cost_micros(input, output, rate) ==
    Upto(PerDirection(input, rate[1]) + PerDirection(output, rate[2]), I64MAX)

\* Mutant: a row is priced at the Rate of the day.
RowCostLive(e) ==
    IF Rate(effective) = {} THEN 0
    ELSE cost_micros(e.input, e.output, CHOOSE r \in Rate(effective) : TRUE)

\* A row is priced at the Rate it was committed with, or not at all.
RowCost(e) ==
    IF e.rate = {} THEN 0
    ELSE cost_micros(e.input, e.output, CHOOSE r \in e.rate : TRUE)

\* The numbers of a sequence added one by one, never beyond a bound if one is
\* given.
Capped(n, bound) == IF bound = {} THEN n ELSE Upto(n, CHOOSE max \in bound : TRUE)

Sum(v, bound) ==
    LET sum[n \in Nat] == IF n = 0 THEN 0 ELSE Capped(sum[n - 1] + v[n], bound)
    IN sum[Len(v)]

\* The Runs a scope totals.
RunsOf(scope) == IF scope = "per-run" THEN {run} ELSE Nat

\* What each row gives to a total over some Runs.
Of(R, i, n) == IF ledger[i].run \in R THEN n ELSE 0

Inputs(R)  == [i \in DOMAIN ledger |-> Of(R, i, ledger[i].input)]
Outputs(R) == [i \in DOMAIN ledger |-> Of(R, i, ledger[i].output)]
Costs(R)   == [i \in DOMAIN ledger |-> Of(R, i, RowCost(ledger[i]))]

sum_tokens_saturating(R) ==
    saturating_add(Sum(Inputs(R), {U64MAX}), Sum(Outputs(R), {U64MAX}))

sum_cost_saturating(R) == Sum(Costs(R), {I64MAX})

Total(d, scope) ==
    IF d = "tokens" THEN sum_tokens_saturating(RunsOf(scope))
    ELSE sum_cost_saturating(RunsOf(scope))

-----------------------------------------------------------------------------
Breach(d, scope) == [run |-> run, dimension |-> d, scope |-> scope]

Frame(at)      == [at |-> at, breach |-> {}]
ActOn(at, b)   == [at |-> at, breach |-> {b}]
Doing(at)      == op # <<>> /\ Head(op).at = at
Unoccupied == op = <<>>
Pop        == op' = Tail(op)

\* A total that cannot be read counts as none.
Observed(d, scope, unread) == IF scope \in unread THEN 0 ELSE Total(d, scope)

\* The ceilings a dimension has reached.
ReachedBut(d, unread) ==
    {s \in Scopes :
        \E limit \in Ceilings(effective, d)[s] : Observed(d, s, unread) >= limit}

Reached(d) == ReachedBut(d, {})

\* BudgetEvaluator.evaluate and CostEvaluator.evaluate: per-run first.
evaluate(d, unread) ==
    LET reached == ReachedBut(d, unread)
    IN  IF "per-run" \in reached THEN {"per-run"} ELSE reached

\* n reads of the store fail.
ReadsFail(n) == changes + n <= MaxChanges /\ changes' = changes + n

\* enforce_budget starts on top of a stack, after n failed reads, and writes into
\* the history `kept`.  The configuration is read for both dimensions, or cannot
\* be read, and nothing is evaluated.
enforcement_starts(stack, kept, n) ==
    \/ /\ op' = <<Frame("tokens"), Frame("dollars")>> \o stack
       /\ past' = [kept EXCEPT !.evaluated = TRUE] /\ ReadsFail(n)
    \/ op' = stack /\ past' = [kept EXCEPT !.evaluated = FALSE] /\ ReadsFail(n + 1)

\* A row that fails to commit changes nothing, see Metering.  A commit falls
\* into a poll's drain, or into the drains of a stop.  A Rate that cannot be read
\* is none.
ingest_usage(usage) ==
    /\ held /\ (Unoccupied \/ Doing("stop")) /\ Len(ledger) < MaxRows
    /\ \E rate \in {Rate(effective), {}} :
          /\ ledger' = Append(ledger,
                  [run |-> run, input |-> clamp_tokens(usage[1]),
                   output |-> clamp_tokens(usage[2]), rate |-> rate])
          /\ enforcement_starts(op,
                  [past EXCEPT !.reported = Append(@, usage), !.rates = Append(@, rate)],
                  IF rate = Rate(effective) THEN 0 ELSE 1)
    /\ UNCHANGED <<effective, run, state, held, latch, breaches>>

Consequence(b) ==
    CASE effective.action = "warn"  -> <<>>
      [] effective.action = "pause" -> <<ActOn("pause", b)>>
      [] effective.action = "stop"  -> <<ActOn("halt", b)>>

Entry(b) == [breach |-> b, action |-> effective.action]

Record(b) == breaches' = Append(breaches, Entry(b))

\* Mutant: the action comes before the record.
apply_breach_acts_first(d, scope) ==
    LET b == Breach(d, scope)
    IN /\ held /\ <<d, scope>> \notin latch
       /\ latch' = latch \cup {<<d, scope>>}
       /\ op' = Consequence(b) \o <<ActOn("record", b)>> \o Tail(op)
       /\ UNCHANGED <<breaches, past>>

\* Latched, then recorded, and then acted on, recorded or not.
apply_breach(d, scope) ==
    LET b == Breach(d, scope)
    IN /\ held /\ <<d, scope>> \notin latch
       /\ latch' = latch \cup {<<d, scope>>}
       /\ \/ Record(b) /\ UNCHANGED past
          \/ past' = [past EXCEPT !.unrecorded = @ \cup {Entry(b)}] /\ UNCHANGED breaches
       /\ op' = Consequence(b) \o Tail(op)

\* Nothing is reached, or it has fired in this Run, or a stop has taken the
\* handle away.
passes(d, unread) ==
    /\ \A scope \in evaluate(d, unread) : ~held \/ <<d, scope>> \in latch
    /\ past' = [past EXCEPT !.evaluated = @ /\ unread = {}]
    /\ Pop /\ UNCHANGED <<latch, breaches>>

\* enforce_budget, one dimension after the other.
enforce_budget(d) ==
    /\ Doing(d)
    /\ IF Armed(effective, d)
       THEN \E unread \in SUBSET Scopes :
               /\ \/ passes(d, unread)
                  \/ \E scope \in evaluate(d, unread) : apply_breach(d, scope)
               /\ ReadsFail(IF unread = {} THEN 0 ELSE 1)
       ELSE Pop /\ UNCHANGED <<changes, latch, breaches, past>>
    /\ UNCHANGED <<effective, ledger, run, state, held>>

Cause == CHOOSE b \in Head(op).breach : TRUE

Stamp == past' = [past EXCEPT !.acted = @ \cup {Cause}]

\* An action the lifecycle refuses, the adapter does not support or the
\* backend fails is a diagnostic; the latch is spent.
Excuse == past' = [past EXCEPT !.excused = TRUE]

enforce_pause ==
    /\ Doing("pause") /\ Pop
    /\ \/ state = "running" /\ state' = "paused" /\ Stamp
       \/ Excuse /\ UNCHANGED state
    /\ UNCHANGED <<effective, changes, ledger, run, held, latch, breaches>>

enforce_stop ==
    /\ Doing("halt")
    /\ \/ /\ state \in {"running", "paused"} /\ state' = "stopping"
          /\ op' = <<Frame("stop")>> \o Tail(op) /\ Stamp
       \/ Pop /\ Excuse /\ UNCHANGED state
    /\ UNCHANGED <<effective, changes, ledger, run, held, latch, breaches>>

\* The stop's last step: the handle goes, or the death is not confirmed.
stop_ends ==
    /\ Doing("stop") /\ Pop
    /\ \/ held' = FALSE /\ latch' = {} /\ state' = "stopped" /\ UNCHANGED past
       \/ Excuse /\ UNCHANGED <<held, latch, state>>
    /\ UNCHANGED <<effective, changes, ledger, run, breaches>>

-----------------------------------------------------------------------------
(* The operator, the agent and the engine's end.                           *)

NewRun == run < MaxRuns /\ run' = run + 1 /\ latch' = {}

start_inner ==
    /\ Unoccupied /\ ~held /\ state \in {"stopped", "failed"} /\ NewRun
    /\ held' = TRUE /\ state' = "running"
    /\ past' = [past EXCEPT !.excused = FALSE, !.evaluated = FALSE]
    /\ UNCHANGED <<effective, changes, ledger, op, breaches>>

stop_inner ==
    /\ Unoccupied /\ held /\ state \in {"running", "paused"}
    /\ state' = "stopping" /\ op' = <<Frame("stop")>>
    /\ UNCHANGED <<effective, changes, ledger, run, held, latch, breaches, past>>

resume ==
    /\ Unoccupied /\ held /\ state = "paused" /\ state' = "running" /\ Excuse
    /\ UNCHANGED <<effective, changes, ledger, run, held, latch, op, breaches>>

set_ceilings ==
    /\ Unoccupied /\ changes < MaxChanges /\ changes' = changes + 1
    /\ effective' \in Configs
    /\ past' = [past EXCEPT !.evaluated = FALSE]
    /\ UNCHANGED <<ledger, run, state, held, latch, op, breaches>>

reap ==
    /\ Unoccupied /\ held
    /\ held' = FALSE /\ latch' = {}
    /\ state' = IF state = "stopping" THEN "stopped" ELSE "failed"
    /\ UNCHANGED <<effective, changes, ledger, run, op, breaches, past>>

\* Mutant: an adoption waits for the next usage event.
reopen_quietly ==
    /\ NewRun
    /\ held' = TRUE /\ op' = <<>> /\ UNCHANGED state
    /\ past' = [past EXCEPT !.excused = FALSE, !.evaluated = TRUE] /\ UNCHANGED changes

\* The process is adopted under a new Run and held against the ceilings at
\* once, or is gone.
reopen ==
    \/ /\ NewRun
       /\ held' = TRUE /\ enforcement_starts(<<>>, [past EXCEPT !.excused = FALSE], 0)
       /\ UNCHANGED state
    \/ /\ held' = FALSE /\ latch' = {} /\ op' = <<>>
       /\ state' = IF state \in {"running", "paused"} THEN "failed" ELSE state
       /\ UNCHANGED <<changes, run, past>>

\* The engine is killed wherever it is, and another is opened.
engine_killed ==
    /\ held /\ reopen
    /\ UNCHANGED <<effective, ledger, breaches>>

BudgetInit ==
    /\ effective \in Configs /\ changes = 0
    /\ ledger = <<>> /\ run = 0 /\ state = "stopped" /\ held = FALSE
    /\ latch = {} /\ op = <<>> /\ breaches = <<>>
    /\ past = [reported |-> <<>>, rates |-> <<>>, unrecorded |-> {}, acted |-> {},
               excused |-> FALSE, evaluated |-> FALSE]

BudgetNext ==
    \/ \E usage \in Usages : ingest_usage(usage)
    \/ \E d \in Dimensions : enforce_budget(d)
    \/ enforce_pause \/ enforce_stop \/ stop_ends
    \/ start_inner \/ stop_inner \/ resume \/ set_ceilings \/ reap \/ engine_killed

BudgetSpec == BudgetInit /\ [][BudgetNext]_budgetVars

-----------------------------------------------------------------------------
(* Properties.                                                             *)

RateType   == {Rate(c) : c \in Configs} \cup {{}}
RowType    == [run : 0 .. MaxRuns, input : 0 .. I64MAX, output : 0 .. I64MAX,
               rate : RateType]
BreachType == [run : 0 .. MaxRuns, dimension : Dimensions, scope : Scopes]
EntryType  == [breach : BreachType, action : Actions]
FrameType  == [at : Dimensions \cup {"stop"}, breach : {{}}]
                \cup [at : {"pause", "halt"}, breach : {{b} : b \in BreachType}]
PastType   == [reported : Seq(Usages), rates : Seq(RateType),
               unrecorded : SUBSET EntryType, acted : SUBSET BreachType,
               excused : BOOLEAN, evaluated : BOOLEAN]

BudgetTypeOK ==
    /\ effective \in Configs /\ changes \in 0 .. MaxChanges
    /\ ledger \in Seq(RowType) /\ run \in 0 .. MaxRuns
    /\ state \in {"running", "paused", "stopping", "stopped", "failed"}
    /\ held \in BOOLEAN
    /\ latch \subseteq Dimensions \X Scopes
    /\ op \in Seq(FrameType)
    /\ breaches \in Seq(EntryType)
    /\ past \in PastType

\* What is recorded, and what the engine log announces as unwritten.
Noted == Range(breaches) \cup past.unrecorded

\* A breach is recorded once per dimension, scope and Run, although every
\* later row and every row a nested stop drains breaches the same ceiling, and
\* it is recorded first: no row is paused or stopped for a breach that
\* breaches.log does not hold and the engine log has not announced as
\* unwritten, wherever the engine is killed.
RecordedOnceAndFirst ==
    /\ \A i, j \in DOMAIN breaches :
          breaches[i].breach = breaches[j].breach => i = j
    /\ past.acted \subseteq {e.breach : e \in Noted}

\* What the agent really reported in some Runs, summed without a bound.
Consumed(R) ==
    Sum([i \in DOMAIN ledger |-> Of(R, i, past.reported[i][1] + past.reported[i][2])], {})

\* Where the configuration and the totals could be read, a ceiling that is
\* crossed is latched.
CrossingIsLatched ==
    (Unoccupied /\ held /\ past.evaluated) =>
        /\ (\E s \in Scopes : \E limit \in effective.budget[s] :
                limit <= I64MAX /\ Consumed(RunsOf(s)) >= limit)
             => \E s \in Scopes : <<"tokens", s>> \in latch
        /\ (Armed(effective, "dollars") /\ Reached("dollars") # {})
             => \E s \in Scopes : <<"dollars", s>> \in latch

NobodyRunsOn ==
    (Unoccupied /\ held /\ state = "running" /\ ~past.excused) =>
        \A e \in Noted :
            e.breach.run = run => e.action = "warn"

\* What a row costs at the Rate in force when it was committed, in micro-dollars
\* times MICROS_PER_DOLLAR and not rounded.
ExactRowCost(e, rate) ==
    IF rate = {} THEN 0
    ELSE LET r == CHOOSE r \in rate : TRUE IN e.input * r[1] + e.output * r[2]

ExactCost == Sum([i \in DOMAIN ledger |-> ExactRowCost(ledger[i], past.rates[i])], {})

\* The total is within one micro-dollar per row of the exact cost at the
\* historic Rates, or it has saturated: later Rates reprice nothing, and
\* neither rounding nor overflow hides more than that.
CostIsClose ==
    LET cost  == Total("dollars", "cumulative") * MICROS_PER_DOLLAR
        slack == Len(ledger) * MICROS_PER_DOLLAR
    IN /\ cost - ExactCost <= slack
       /\ \/ ExactCost - cost <= slack
          \/ Total("dollars", "cumulative") = I64MAX

\* The guardrail holds.  A breach is recorded, once and before its action.
\* Nothing crosses unseen: after a row or an adoption whose configuration and
\* totals could be read, a dimension whose real consumption is at a ceiling has
\* fired in this Run.  An agent that runs on has
\* breached nothing in this Run but under warn, unless an action was refused
\* and said so, or the operator has resumed it; a record that cannot be written
\* excuses nothing.  The cost it is judged by is off by less than the rounding
\* allows, at the Rates that could be read.
GuardrailHolds ==
    RecordedOnceAndFirst /\ CrossingIsLatched /\ NobodyRunsOn /\ CostIsClose

(* Two sentences of the code's comments that the behaviours above refute.  *)

\* sum_cost_saturating: the total of the rounded rows never under-counts.
CostIsUpperBound ==
    Total("dollars", "cumulative") < I64MAX
        => Total("dollars", "cumulative") * MICROS_PER_DOLLAR >= ExactCost

\* ingest_usage: a breach is always recorded, regardless of the action.  A
\* ceiling that consumption has reached has a record, or one was announced
\* as unwritten.
BreachAlwaysRecorded ==
    (Unoccupied /\ held /\ past.evaluated /\ changes = 0) =>
        \A d \in Dimensions : Armed(effective, d) =>
            \A s \in Reached(d) :
                Breach(d, s) \in {e.breach : e \in Noted}
=============================================================================
