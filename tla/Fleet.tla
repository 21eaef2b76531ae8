-------------------------------- MODULE Fleet --------------------------------
(***************************************************************************)
(* The Fleet view: what `kt agent list', `usage' and `show' say of the     *)
(* Agent Instances.  It is composed under both mutexes from many reads,    *)
(* each of which may fail on its own and then leaves a default in its      *)
(* place.                                                                  *)
(*                                                                         *)
(* A view changes nothing: it is an operator over the state and the reads  *)
(* that fail, looked at in every state.  The actions are what changes the  *)
(* state it reads; restart count and policy are Supervisor's.              *)
(***************************************************************************)
EXTENDS Integers, FiniteSets, FiniteSetsExt

CONSTANTS
    Names,
    Configs,    \* effective configurations: budget, cap, rate, action
    Broken,     \* the sets of reads that may fail together
    U64MAX,     \* where token and dollar sums saturate
    Bounds      \* how often each instance meters, is configured and fails

VARIABLES
    fleet,      \* the instances: row, record, event log, ledger, handle
    spent       \* how much of the bounds is used up

fleetVars == <<fleet, spent>>

Scopes == {"per-run", "cumulative"}

\* The one read all rows share, and those of each row.
Batch == <<"all", "records">>
Reads == {"record", "events", "totals", "run totals", "config", "cost", "run cost",
          "config again", "source"}

-----------------------------------------------------------------------------
(* The view.  An Option is a set of at most one element.                   *)

Upto(n, max) == IF n <= max THEN n ELSE max

saturating_sub(n, m) == IF m >= n THEN 0 ELSE n - m

is_set(ceilings) == \E s \in Scopes : ceilings[s] # {}

Headroom(limits, used) ==
    [s \in Scopes |->
        {[limit |-> c, remaining |-> saturating_sub(c, used[s])] : c \in limits[s]}]

\* Mutant: a cap stands by itself.
any_cap(budget, cap, action, tokens, has_rate, dollars) ==
    {[tokens |-> Headroom(budget, tokens), dollars |-> Headroom(cap, dollars),
      action |-> action]}

\* A cap without a Rate is inert.
from_budget_and_cost(budget, cap, action, tokens, has_rate, dollars) ==
    LET active == has_rate /\ is_set(cap) IN
    IF ~is_set(budget) /\ ~active THEN {}
    ELSE {[tokens  |-> Headroom(budget, tokens),
           dollars |-> Headroom(IF active THEN cap ELSE [s \in Scopes |-> {}], dollars),
           action  |-> action]}

\* Mutant: only a crash has a cause.
failed_cause_of_record(x, record, events) == record.cause

\* The cause a record carries, or that of the last event into failed.
failed_cause(x, record, events) ==
    IF record.cause > 0 THEN record.cause
    ELSE IF x.row = "failed" /\ events THEN x.event ELSE 0

NoRecord == [pid |-> FALSE, cause |-> 0]
NoCap    == [s \in Scopes |-> {}]

\* Mutant: without the batch no row has a record.
ReadRecord_batch_only(i, bad) == IF Batch \in bad THEN NoRecord ELSE fleet[i].record

\* One read for all rows; should it fail, each row makes its own.
ReadRecord(i, bad) ==
    IF Batch \in bad /\ <<i, "record">> \in bad THEN NoRecord ELSE fleet[i].record

Used(ok, x, all, this, part) ==
    [s \in Scopes |-> IF s = "cumulative" THEN (IF ok[all] THEN x[part] ELSE 0)
                      ELSE IF x.held /\ ok[this] THEN x.run[part] ELSE 0]

fleet_entry_for(i, bad) ==
    LET x      == fleet[i]
        ok     == [k \in Reads |-> <<i, k>> \notin bad]
        rate   == IF ok["config"] THEN x.config.rate ELSE {}
        cap    == IF ok["config"] THEN x.config.cap ELSE NoCap
        action == IF ok["config"] THEN x.config.action ELSE "pause"
        tokens == Used(ok, x, "totals", "run totals", "tokens")
        costs  == IF rate = {} THEN [s \in Scopes |-> 0]
                               ELSE Used(ok, x, "cost", "run cost", "cost")
    IN  [row     |-> x.row,
         cause   |-> failed_cause(x, ReadRecord(i, bad), ok["events"]),
         tokens  |-> tokens,
         dollars |-> [s \in Scopes |-> IF rate = {} THEN {} ELSE {costs[s]}],
         budget  |-> IF ~ok["config again"] THEN {}
                     ELSE from_budget_and_cost(x.config.budget, cap, action, tokens,
                                               rate # {}, costs),
         source  |-> IF ok["source"] THEN "declared" ELSE "unknown"]

View(bad) == [i \in Names |-> fleet_entry_for(i, bad)]

Priced(entries) == {i \in DOMAIN entries : entries[i].dollars["cumulative"] # {}}

Unpriced(entries) ==
    {i \in DOMAIN entries \ Priced(entries) : entries[i].tokens["cumulative"] > 0}

TotalTokens(entries) ==
    Upto(MapThenSumSet(LAMBDA i : entries[i].tokens["cumulative"], DOMAIN entries), U64MAX)

TotalDollars(entries) ==
    Upto(MapThenSumSet(LAMBDA i : Max(entries[i].dollars["cumulative"]), Priced(entries)),
         U64MAX)

\* Mutant: an instance without a Rate costs nothing.
from_entries_free(entries) ==
    [tokens |-> TotalTokens(entries),
     dollars |-> IF Priced(entries) = {} THEN {} ELSE {TotalDollars(entries)},
     dollars_partial |-> FALSE, unpriced_count |-> 0]

\* An instance that has used tokens at no Rate makes the sum a lower bound.
from_entries(entries) ==
    LET partial == Priced(entries) # {} /\ Unpriced(entries) # {} IN
    [tokens |-> TotalTokens(entries),
     dollars |-> IF Priced(entries) = {} THEN {} ELSE {TotalDollars(entries)},
     dollars_partial |-> partial,
     unpriced_count |-> IF partial THEN Cardinality(Unpriced(entries)) ELSE 0]

-----------------------------------------------------------------------------
(* What changes what is read.                                              *)

Spend(i, what) ==
    /\ spent[i][what] < Bounds[i][what]
    /\ spent' = [spent EXCEPT ![i][what] = @ + 1]

Becomes(i, x) == fleet' = [fleet EXCEPT ![i] = x]

Zero == [tokens |-> 0, cost |-> 0]

set_config(i) ==
    /\ Spend(i, "edits")
    /\ \E c \in Configs \ {fleet[i].config} : Becomes(i, [fleet[i] EXCEPT !.config = c])

\* A row is priced by the Rate of its commit, or not at all.
record_usage_event(i) ==
    LET x == fleet[i] IN
    /\ x.held /\ Spend(i, "rows")
    /\ \E n \in {1, 2} :
         LET cost == IF x.config.rate = {} THEN 0 ELSE n * Max(x.config.rate) IN
         Becomes(i, [x EXCEPT !.tokens = Upto(@ + n, U64MAX), !.cost = Upto(@ + cost, U64MAX),
                              !.run = [tokens |-> Upto(@.tokens + n, U64MAX),
                                       cost |-> Upto(@.cost + cost, U64MAX)]])

\* The row says failed; its event is appended after that, or not at all.
Failed(x, how, logged) ==
    [x EXCEPT !.row = "failed", !.held = FALSE, !.run = Zero, !.count = @ + 1,
              !.event = IF logged THEN x.count + 1 ELSE @,
              !.how = IF logged THEN how ELSE "unlogged"]

\* A start, by the operator or after a backoff: the record is new.
start(i) ==
    LET x == fleet[i] IN
    /\ x.row # "running"
    /\ Becomes(i, [x EXCEPT !.row = "running", !.held = TRUE, !.run = Zero,
                            !.record = [pid |-> TRUE, cause |-> 0]])
    /\ UNCHANGED spent

\* A launch that fails leaves the record as it was.
fail_launch(i) ==
    /\ fleet[i].row # "running" /\ Spend(i, "failures")
    /\ \E logged \in BOOLEAN : Becomes(i, Failed(fleet[i], "launch", logged))

settle_terminal_record(x) == [x EXCEPT !.record = NoRecord]

\* A crash that is to be restarted is noted in the record, if the write does not
\* fail; one that is not clears it.  The row may then fail to follow.
crash(i) ==
    LET x == fleet[i]
        planned == [x EXCEPT !.record = [pid |-> TRUE, cause |-> x.count + 1]]
    IN  /\ x.held /\ Spend(i, "failures")
        /\ \E y \in {planned, settle_terminal_record(x), x}, logged \in BOOLEAN :
             \/ Becomes(i, Failed(y, "crash", logged))
             \/ Becomes(i, [y EXCEPT !.held = FALSE, !.run = Zero, !.count = @ + 1,
                                     !.how = "unlogged"])

stop(i) ==
    /\ fleet[i].row = "running"
    /\ Becomes(i, [fleet[i] EXCEPT !.row = "stopped", !.held = FALSE, !.run = Zero,
                                   !.record = NoRecord])
    /\ UNCHANGED spent

\* One engine goes and another opens: a survivor is adopted under a new Run.
reconcile_orphan_failed(x) ==
    [IF x.row = "running" THEN Failed(x, "orphan", TRUE) ELSE x EXCEPT !.record = NoRecord]

adopt_orphans ==
    \E alive \in SUBSET {i \in Names : fleet[i].held} :
        LET gone == {i \in Names \ alive : fleet[i].record.pid}
            lost == {i \in gone : fleet[i].row = "running"}
        IN
        /\ \A i \in lost : spent[i].failures < Bounds[i].failures
        /\ spent' = [i \in Names |-> IF i \in lost THEN [spent[i] EXCEPT !.failures = @ + 1]
                                                   ELSE spent[i]]
        /\ fleet' = [i \in Names |->
               IF i \in alive THEN [fleet[i] EXCEPT !.run = Zero]
               ELSE IF i \in gone THEN reconcile_orphan_failed(fleet[i])
               ELSE [fleet[i] EXCEPT !.held = FALSE, !.run = Zero]]

FleetInit ==
    /\ fleet \in [Names -> {[row |-> "stopped", held |-> FALSE, config |-> c, tokens |-> 0,
                             cost |-> 0, run |-> Zero, record |-> NoRecord,
                             event |-> 0, count |-> 0, how |-> "none"] : c \in Configs}]
    /\ spent = [i \in Names |-> [rows |-> 0, edits |-> 0, failures |-> 0]]

FleetNext ==
    \/ \E i \in Names : \/ set_config(i) \/ record_usage_event(i) \/ start(i)
                        \/ fail_launch(i) \/ crash(i) \/ stop(i)
    \/ adopt_orphans

FleetSpec == FleetInit /\ [][FleetNext]_fleetVars

-----------------------------------------------------------------------------
FleetTypeOK ==
    /\ \A i \in Names :
         LET x == fleet[i] IN
         /\ x.row \in {"stopped", "running", "failed"} /\ x.held \in BOOLEAN
         /\ x.config \in Configs /\ {x.tokens, x.cost, x.run.tokens, x.run.cost} \subseteq 0 .. U64MAX
         /\ x.record.pid \in BOOLEAN
         /\ {x.record.cause, x.event, x.count} \subseteq 0 .. Bounds[i].failures
         /\ x.how \in {"none", "crash", "launch", "orphan", "unlogged"}
         /\ \A what \in DOMAIN Bounds[i] : spent[i][what] \in 0 .. Bounds[i][what]

Sum(part) == Upto(MapThenSumSet(LAMBDA i : fleet[i][part], Names), U64MAX)

(***************************************************************************)
(* The totals are those of the ledger, whatever fails never more; dollars  *)
(* are there iff some instance has a Rate, and are all of the cost unless  *)
(* the view says they are not (FleetTotals::from_entries).  A row from     *)
(* before there was a Rate costs nothing, here and in the view.            *)
(***************************************************************************)
TotalsAreTrue(bad, view) ==
    LET t == from_entries(view) IN
    /\ t.tokens <= Sum("tokens") /\ \A d \in t.dollars : d <= Sum("cost")
    /\ bad = {} =>
         /\ t.tokens = Sum("tokens")
         /\ t.dollars = {} <=> \A i \in Names : fleet[i].config.rate = {}
         /\ \A d \in t.dollars :
              ~t.dollars_partial =>
                 d = Sum("cost") /\ \A i \in Names : fleet[i].config.rate # {} \/ fleet[i].tokens = 0
         /\ t.unpriced_count = IF t.dollars = {} THEN 0
              ELSE Cardinality({i \in Names : fleet[i].config.rate = {} /\ fleet[i].tokens > 0})

\* A read that fails for one instance changes nothing in the row of another, and
\* the shared one nothing at all, as long as each row can still be read by itself.
RowsAreIndependent(bad, view, whole) ==
    \A i \in Names : (\A k \in Reads : <<i, k>> \notin bad) => view[i] = whole[i]

(***************************************************************************)
(* A scope has nothing left exactly when enforcement counts it as reached, *)
(* and a read that fails accuses nobody; the current Run is one that is    *)
(* held; a dollar figure stands beside a Rate.                             *)
(***************************************************************************)
HeadroomIsTrue(bad, i, e) ==
    LET x == fleet[i] IN
    \A b \in e.budget, s \in Scopes :
        LET spending(part) == IF s = "cumulative" THEN x[part] ELSE x.run[part] IN
        /\ \A h \in b.tokens[s] : h.remaining = 0 => spending("tokens") >= h.limit
        /\ \A h \in b.dollars[s] : x.config.rate # {}
                                   /\ (h.remaining = 0 => spending("cost") >= h.limit)
        /\ bad = {} =>
             /\ \A h \in b.tokens[s] : spending("tokens") >= h.limit => h.remaining = 0
             /\ \A h \in b.dollars[s] : spending("cost") >= h.limit => h.remaining = 0
             /\ b.action = x.config.action

(***************************************************************************)
(* The cause shown is that of the failure the row is in, if the failure    *)
(* could be logged.  A launch that fails after a crash is the exception:   *)
(* the record of the crash is still there and hides it.                    *)
(***************************************************************************)
CauseIsTrue(bad, i, e) ==
    LET x == fleet[i] IN
    /\ e.cause > 0 => x.row = "failed" \/ (x.row = "running" /\ ~x.held)
    /\ bad = {} /\ x.row = "failed" =>
         /\ x.how \in {"crash", "orphan"} => e.cause = x.count
         /\ x.how = "launch" =>
              e.cause = x.count \/ (x.record.pid /\ e.cause \in 1 .. x.count - 1)

RunIsHeld(i, e) ==
    e.tokens["per-run"] > 0 => fleet[i].held /\ e.tokens["per-run"] <= fleet[i].tokens

ViewIsTrue(bad, view, whole) ==
    /\ TotalsAreTrue(bad, view) /\ RowsAreIndependent(bad, view, whole)
    /\ \A i \in Names : /\ HeadroomIsTrue(bad, i, view[i])
                        /\ CauseIsTrue(bad, i, view[i]) /\ RunIsHeld(i, view[i])

\* What the Fleet view says is so.  (A view in a set is evaluated once.)
FleetIsHonest ==
    \A whole \in {View({})}, bad \in Broken :
        \A view \in {View(bad)} : ViewIsTrue(bad, view, whole)

=============================================================================
