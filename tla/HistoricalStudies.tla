--------------------------- MODULE HistoricalStudies ---------------------------
(***************************************************************************)
(* The studies built from backtests of consecutive windows of one bundle,  *)
(* with the universe as it was at the time, and the reports derived from a *)
(* study: shared capital, dependence and statistics.                       *)
(*                                                                         *)
(* A bundle is a record of its specs (in the order declared), its series   *)
(* and its universe; a master maps instrument ids to symbols.  Averages,   *)
(* ratios, R multiples, regimes and correlation values are left out: no    *)
(* decision the platform takes depends on them but a report's own label.   *)
(***************************************************************************)
EXTENDS HistoricalBacktest

CONSTANTS
    MinimumSample,      \* MINIMUM_SAMPLE_EXECUTED_TRADES
    TradeThresholds,    \* insufficient, limited, moderate
    WindowThresholds,
    Lookback,           \* lookback_bar_count
    MinimumOverlap      \* minimum_overlapping_observations

ASSUME StudiesAssumption ==
    /\ MinimumSample \in Nat /\ Lookback \in Nat /\ MinimumOverlap \in Nat
    /\ TradeThresholds \in [1..3 -> Nat] /\ WindowThresholds \in [1..3 -> Nat]

------------------------------------------------------------------------------
(* Windows *)

total_bar_count(spec) == spec.warmup + spec.scoring + spec.buffer

\* The cursor after each window.
Cursor(specs) ==
    LET cursor[k \in 0..Len(specs)] == IF k = 0 THEN 0 ELSE cursor[k - 1] + total_bar_count(specs[k])
    IN  cursor

Ranges(specs) ==
    [k \in DOMAIN specs |-> [first |-> Cursor(specs)[k - 1] + 1, last |-> Cursor(specs)[k]]]

ordered_window_specs(bundle) ==
    [k \in DOMAIN bundle.specs |-> bundle.specs[CHOOSE j \in DOMAIN bundle.specs : bundle.specs[j].index = k - 1]]

_window_bar_ranges(bundle)  == Ranges(ordered_window_specs(bundle))
_segment_bar_ranges(bundle) == Ranges(bundle.specs)

\* What a bundle checks of itself.
RobustnessDatasetBundle(bundle) ==
    /\ HistoricalDataset(bundle.series)
    /\ bundle.specs # <<>>
    /\ {bundle.specs[k].index : k \in DOMAIN bundle.specs} = 0..(Len(bundle.specs) - 1)
    /\ \A j, k \in DOMAIN bundle.specs : bundle.specs[j].id = bundle.specs[k].id => j = k

BundleType(bundle) ==
    /\ DatasetType(bundle.series)
    /\ Len(bundle.specs) \in Nat
    /\ DOMAIN bundle.specs = 1..Len(bundle.specs)
    /\ \A k \in DOMAIN bundle.specs :
          {bundle.specs[k].warmup, bundle.specs[k].scoring, bundle.specs[k].buffer} \subseteq Nat

\* The warm-up is the reference window, the buffer the holding horizon, and the
\* windows use up the bars.
SpecsFit(specs, series) ==
    /\ \A k \in DOMAIN specs : /\ specs[k].warmup = ReferenceWindow
                               /\ specs[k].buffer = Horizon
                               /\ specs[k].scoring >= 1
    /\ Cursor(specs)[Len(specs)] = bars_per_instrument(series)

_validate_bundle_windows(bundle) == SpecsFit(ordered_window_specs(bundle), bundle.series)

Roles == <<"DEVELOPMENT_REFERENCE", "HOLDOUT_1", "HOLDOUT_2">>

_validate_bundle_segments(bundle) ==
    /\ [k \in DOMAIN bundle.specs |-> bundle.specs[k].role] = Roles
    /\ SpecsFit(bundle.specs, bundle.series)

Slice(bundle, range, symbols) == [u \in symbols |-> SubSeq(bundle.series[u], range.first, range.last)]

_window_dataset(bundle, k)  == Slice(bundle, _window_bar_ranges(bundle)[k], DOMAIN bundle.series)
_segment_dataset(bundle, k) == Slice(bundle, _segment_bar_ranges(bundle)[k], DOMAIN bundle.series)

\* The day of bar i of a range; every instrument is on the same days.
DayOf(bundle, i) == bundle.series[CHOOSE u \in DOMAIN bundle.series : TRUE][i].day

\* scoring_start_timestamp and data_end_timestamp
ScoringStart(bundle, spec, range) == DayOf(bundle, range.first + spec.warmup)
DataEnd(bundle, range)            == DayOf(bundle, range.last)

------------------------------------------------------------------------------
(* Studies.  A builder is given its datasets, one per window in order, and   *)
(* the identity of each run; a window's result copies its run's.             *)

NoRun == [gov |-> 0, runtime |-> <<>>, executed |-> 0, net |-> 0, trades |-> <<>>]

WindowResult(spec, end, run) ==
    [window |-> spec.id, gov |-> run.gov, runtime |-> run.runtime, end |-> end,
     executed |-> run.executed, net |-> run.net]

ExecutedIn(windows) == SumFunction([k \in DOMAIN windows |-> windows[k].executed])
NetIn(windows)      == SumFunction([k \in DOMAIN windows |-> windows[k].net])

\* A study; identity names it and its bundle.
StudyOf(identity, windows, classification) ==
    [gov |-> identity.gov, runtime |-> identity.runtime, bundle |-> identity.bundle,
     windows |-> windows, classification |-> classification,
     executed |-> ExecutedIn(windows), net |-> NetIn(windows)]

ValidationClassification(windows) ==
    IF windows[2].executed > 0 /\ windows[3].executed > 0 THEN "HOLDOUT_RESULTS_RECORDED"
    ELSE "INSUFFICIENT_EVIDENCE"

build_validation_study(identity, bundle, runs) ==
    LET range == _segment_bar_ranges(bundle)
        windows == [k \in DOMAIN runs |-> WindowResult(bundle.specs[k], DataEnd(bundle, range[k]), runs[k])]
    IN  StudyOf(identity, windows, ValidationClassification(windows))

RobustnessClassification(windows) ==
    LET positive == \E k \in DOMAIN windows : windows[k].net > 0
        negative == \E k \in DOMAIN windows : windows[k].net < 0
    IN  IF ExecutedIn(windows) < MinimumSample THEN "INSUFFICIENT_SAMPLE"
        ELSE IF positive /\ negative THEN "ROBUSTNESS_EVIDENCE_MIXED"
        ELSE IF positive THEN "ROBUSTNESS_EVIDENCE_RECORDED"
        ELSE "ROBUSTNESS_EVIDENCE_WEAK"

WindowResults(bundle, runs) ==
    LET specs == ordered_window_specs(bundle)
        range == _window_bar_ranges(bundle)
    IN  [k \in DOMAIN runs |-> WindowResult(specs[k], DataEnd(bundle, range[k]), runs[k])]

build_robustness_study(identity, bundle, runs) ==
    LET windows == WindowResults(bundle, runs)
    IN  StudyOf(identity, windows, RobustnessClassification(windows))

------------------------------------------------------------------------------
(* Membership *)

Forever == 1000000   \* effective_to of an open-ended record

covers(record, cutoff) == record.from <= cutoff /\ cutoff < record.to

MembershipManifest(manifest) ==
    /\ manifest.records # {}
    /\ \A r \in manifest.records : r.from < r.to
    /\ \A r, s \in manifest.records :
          r # s /\ r.instrument = s.instrument => r.to <= s.from \/ s.to <= r.from

validate_against_master(manifest, master) ==
    \A r \in manifest.records : r.instrument \in DOMAIN master

universe_at(manifest, cutoff) ==
    {r.instrument : r \in {q \in manifest.records : q.status = "ACTIVE" /\ covers(q, cutoff)}}

\* Mutant: membership is looked up when the window's data ends.
UniverseAtDataEnd(bundle, master, manifest, k) ==
    LET spec == ordered_window_specs(bundle)[k]
        range == _window_bar_ranges(bundle)[k]
        eligible == universe_at(manifest, DataEnd(bundle, range))
    IN  [eligible |-> eligible, start |-> ScoringStart(bundle, spec, range),
         evaluated |-> {i \in eligible : master[i] \in DOMAIN bundle.series}]

\* The instruments of each window: eligible by membership when its scoring
\* starts, evaluated when the bundle has their bars.
WindowUniverseSnapshot(bundle, master, manifest, k) ==
    LET spec == ordered_window_specs(bundle)[k]
        start == ScoringStart(bundle, spec, _window_bar_ranges(bundle)[k])
        eligible == universe_at(manifest, start)
    IN  [eligible |-> eligible, start |-> start,
         evaluated |-> {i \in eligible : master[i] \in DOMAIN bundle.series}]

SurvivorshipDataset(bundle, master, manifest, k) ==
    LET evaluated == WindowUniverseSnapshot(bundle, master, manifest, k).evaluated
    IN  Slice(bundle, _window_bar_ranges(bundle)[k], {master[i] : i \in evaluated})

\* The study raises when nothing was evaluated anywhere, and when an evaluated
\* window scores a single bar (its volatility needs a series of two).
SurvivorshipBuildable(bundle, master, manifest) ==
    LET windows == DOMAIN bundle.specs
        evaluated(k) == WindowUniverseSnapshot(bundle, master, manifest, k).evaluated # {}
    IN  /\ validate_against_master(manifest, master)
        /\ manifest.universe = bundle.universe
        /\ _validate_bundle_windows(bundle)
        /\ DOMAIN bundle.series \subseteq {master[i] : i \in DOMAIN master}
        /\ \E k \in windows : evaluated(k)
        /\ \A k \in windows : evaluated(k) => ordered_window_specs(bundle)[k].scoring >= 2
        /\ \A k \in windows : /\ Runnable(_window_dataset(bundle, k))
                              /\ evaluated(k) => Runnable(SurvivorshipDataset(bundle, master, manifest, k))

SurvivorshipWindow(result, universe) ==
    [window |-> result.window, gov |-> result.gov, runtime |-> result.runtime, end |-> result.end,
     executed |-> result.executed, net |-> result.net,
     eligible |-> universe.eligible, start |-> universe.start, evaluated |-> universe.evaluated]

\* runs has NoRun for a window in which nothing was evaluated.  identity also
\* names the study's universe, stress study, policies and input files.
build_survivorship_aware_robustness_study(identity, bundle, master, manifest, runs) ==
    LET windows == [k \in DOMAIN runs |->
                       SurvivorshipWindow(WindowResults(bundle, runs)[k],
                                          WindowUniverseSnapshot(bundle, master, manifest, k))]
    IN  [gov |-> identity.gov, runtime |-> identity.runtime, bundle |-> identity.bundle,
         universe |-> identity.universe, stress |-> identity.stress, policy |-> identity.policy,
         master |-> identity.master, manifest |-> identity.manifest,
         windows |-> windows,
         classification |-> IF ExecutedIn(windows) < MinimumSample THEN "INSUFFICIENT_SAMPLE"
                            ELSE "SURVIVORSHIP_AWARE_MEMBERSHIP_MECHANICS_PROVEN",
         executed |-> ExecutedIn(windows), net |-> NetIn(windows)]

------------------------------------------------------------------------------
(* The portfolio report.  Capital, equity and results are in millionths of a *)
(* dollar, to which the code quantizes all of them; risk is in whole dollars. *)

Million == 1000000

\* The millionths nearest to the quotient n / d of millionths, half away from
\* zero.  Sums of millionths are whole (d = 1): only halving loses anything.
_quantize_money(n, d) ==
    IF n >= 0 THEN (2 * n + d) \div (2 * d) ELSE -((d - 2 * n) \div (2 * d))

\* The most capital that may be occupied: floor of capital * utilization / 100,
\* written so that TLC's integers hold it.
UtilizationLimit(policy) ==
    (policy.capital \div 100) * policy.utilization
      + ((policy.capital % 100) * policy.utilization) \div 100

PortfolioCapitalPolicy(policy) ==
    policy.capital > 0 /\ policy.concurrent >= 1 /\ policy.utilization \in 1..100

\* Mutant: the runs are paired with the windows by position.
PoolByPosition(study, runs) ==
    LET of(k) == {[window |-> study.windows[k].gov, sequence |-> i, trade |-> runs[k].trades[i]] :
                     i \in Executed(runs[k].trades)}
    IN  UNION {of(k) : k \in DOMAIN runs \cap DOMAIN study.windows}

\* Every executed trade of the study's own runs, whatever the order of runs.
Pooled(study, runs) ==
    LET matching(k) == {j \in DOMAIN runs : runs[j].runtime = study.windows[k].runtime}
        of(k, j) == {[window |-> study.windows[k].gov, sequence |-> i, trade |-> runs[j].trades[i]] :
                        i \in Executed(runs[j].trades)}
    IN  UNION {UNION {of(k, j) : j \in matching(k)} : k \in DOMAIN study.windows}

_pool_opportunities(study, runs) ==
    InOrder([o \in Pooled(study, runs) |-> <<o.trade.entry, o.window, o.sequence>>])

\* An exit frees its capital before an entry of the same instant, but not its
\* own.  The sort is stable, so opportunities that tie keep their order.
_build_event_timeline(pool) ==
    LET open(i) == [kind |-> "OPEN", of |-> i,
                    key |-> <<pool[i].trade.entry, 1, pool[i].trade.rank, pool[i].trade.symbol, pool[i].sequence, i>>]
        close(i) == [kind |-> "CLOSE", of |-> i,
                     key |-> <<pool[i].trade.exit, IF pool[i].trade.exit = pool[i].trade.entry THEN 2 ELSE 0,
                               pool[i].trade.rank, pool[i].trade.symbol, pool[i].sequence, i>>]
        events == {open(i) : i \in DOMAIN pool} \cup {close(i) : i \in DOMAIN pool}
    IN  InOrder([e \in events |-> e.key])

\* Mutant: a closed position returns its result but not its reservation.
CloseKeepingReserve(s, i, trade) ==
    [s EXCEPT !.available = @ + trade.net, !.held = @ \ {i}, !.realized = @ + trade.net]

\* The reservation and the result return to the available capital together.
Close(s, i, trade) ==
    [s EXCEPT !.available = @ + Million * trade.risk + trade.net, !.occupied = @ - trade.risk,
              !.held = @ \ {i}, !.realized = @ + trade.net]

Open(s, i, trade, policy) ==
    LET reject(reason) == [s EXCEPT !.outcomes[i] = reason]
    IN  IF s.available < Million * trade.risk THEN reject("INSUFFICIENT_AVAILABLE_CAPITAL")
        ELSE IF Cardinality(s.held) >= policy.concurrent THEN reject("MAX_CONCURRENT_POSITIONS")
        ELSE IF Million * (s.occupied + trade.risk) > UtilizationLimit(policy)
             THEN reject("MAX_CAPITAL_UTILIZATION_EXCEEDED")
        ELSE [s EXCEPT !.available = @ - Million * trade.risk, !.occupied = @ + trade.risk,
                       !.held = @ \cup {i}, !.outcomes[i] = "ALLOCATED"]

\* The equity after each allocated event is kept with the decisions.
_simulate_capital_allocation(pool, policy) ==
    FoldLeft(LAMBDA s, event :
               LET trade == pool[event.of].trade
                   after == IF event.kind = "OPEN" THEN Open(s, event.of, trade, policy)
                            ELSE IF event.of \in s.held THEN Close(s, event.of, trade)
                            ELSE s
                   equity == _quantize_money(policy.capital + after.realized, 1)
               IN  IF after.held = s.held THEN after
                   ELSE [after EXCEPT !.curve = Append(@, equity), !.peak = Max({@, Cardinality(after.held)})],
             [available |-> policy.capital, occupied |-> 0, held |-> {}, realized |-> 0,
              outcomes |-> [i \in DOMAIN pool |-> "PENDING"], curve |-> <<>>, peak |-> 0],
             _build_event_timeline(pool))

EndingCapital(simulation, policy) ==
    IF simulation.curve = <<>> THEN _quantize_money(policy.capital, 1) ELSE Last(simulation.curve)

_max_drawdown_from_equity_curve(curve, policy) ==
    LET observed == FoldLeft(LAMBDA acc, equity :
                                LET peak == Max({acc.peak, equity})
                                IN  [peak |-> peak, worst |-> Max({acc.worst, peak - equity})],
                             [peak |-> policy.capital, worst |-> 0], curve)
    IN  _quantize_money(observed.worst, 1)

Allocated(outcomes) == {i \in DOMAIN outcomes : outcomes[i] = "ALLOCATED"}

_capital_sensitivity_view(pool, policy) ==
    LET simulation == _simulate_capital_allocation(pool, policy)
    IN  [allocated |-> Cardinality(Allocated(simulation.outcomes)),
         ending |-> EndingCapital(simulation, policy),
         drawdown |-> _max_drawdown_from_equity_curve(simulation.curve, policy)]

ReducedCapital(policy)     == [policy EXCEPT !.capital = _quantize_money(@, 2)]
TighterConcurrency(policy) == [policy EXCEPT !.concurrent = Max({1, @ \div 3})]

Decided(opportunity, outcome) ==
    [window |-> opportunity.window, sequence |-> opportunity.sequence, trade |-> opportunity.trade,
     decision |-> outcome]

build_portfolio_evidence_report(identity, study, runs, policy) ==
    LET pool == _pool_opportunities(study, runs)
        simulation == _simulate_capital_allocation(pool, policy)
    IN  [gov |-> identity.gov, runtime |-> identity.runtime,
         study |-> study.runtime, bundle |-> study.bundle, policy |-> policy,
         decisions |-> [i \in DOMAIN pool |-> Decided(pool[i], simulation.outcomes[i])],
         ending |-> EndingCapital(simulation, policy),
         drawdown |-> _max_drawdown_from_equity_curve(simulation.curve, policy),
         peak |-> simulation.peak,
         views |-> [CANONICAL |-> _capital_sensitivity_view(pool, policy),
                    REDUCED_CAPITAL |-> _capital_sensitivity_view(pool, ReducedCapital(policy)),
                    TIGHTER_MAX_CONCURRENCY |-> _capital_sensitivity_view(pool, TighterConcurrency(policy))]]

------------------------------------------------------------------------------
(* The dependence report: which positions were open together, and for which  *)
(* pairs of instruments a correlation exists.                                *)

AllocatedIn(report) == {d \in Range(report.decisions) : d.decision = "ALLOCATED"}
OpenInstants(report) == {d.trade.entry : d \in AllocatedIn(report)}

\* The closed interval: a position that left at an instant is still counted.
ConcurrentAt(report, instant) ==
    {d \in AllocatedIn(report) : d.trade.entry <= instant /\ instant <= d.trade.exit}

build_concurrent_exposure_states(report) ==
    [instant \in OpenInstants(report) |->
        LET at == ConcurrentAt(report, instant)
        IN  [instruments |-> {d.trade.symbol : d \in at}, positions |-> Cardinality(at),
             risk |-> SumFunction([d \in at |-> d.trade.risk])]]

\* The returns of the last bars up to an instant, as pairs of closes, by day.
_derive_return_series(bars, as_of) ==
    LET known == {i \in DOMAIN bars : bars[i].day <= as_of}
        last == {i \in known : i > Cardinality(known) - (Lookback + 1)}
    IN  [i \in {j \in last : j - 1 \in last} |-> <<bars[i - 1].close, bars[i].close>>]

\* Whether a correlation is defined; its value is left out.
_pearson_correlation(a, b) ==
    LET shared == DOMAIN a \cap DOMAIN b
        flat(f) == \A i, j \in shared : f[i][2] * f[j][1] = f[j][2] * f[i][1]
    IN  CASE Cardinality(shared) < MinimumOverlap -> "INSUFFICIENT_OBSERVATIONS"
          [] Cardinality(shared) >= MinimumOverlap /\ (flat(a) \/ flat(b)) -> "UNDEFINED_ZERO_VARIANCE"
          [] OTHER -> "DEFINED"

build_pairwise_dependence(series, symbols, as_of) ==
    [pair \in {p \in symbols \X symbols : p[1] <= p[2]} |->
        _pearson_correlation(_derive_return_series(series[pair[1]], as_of),
                             _derive_return_series(series[pair[2]], as_of))]

\* Without two positions open together, or a pair with a correlation, there is
\* nothing to measure; how the measured is graded is left out.
DependenceClassification(states, pairs) ==
    IF (\E t \in DOMAIN states : states[t].positions >= 2) /\ (\E p \in DOMAIN pairs : pairs[p] = "DEFINED")
    THEN "OBSERVED_DEPENDENCE" ELSE "INSUFFICIENT_DEPENDENCE_EVIDENCE"

build_portfolio_dependence_report(identity, report, series) ==
    LET states == build_concurrent_exposure_states(report)
        symbols == {d.trade.symbol : d \in AllocatedIn(report)} \cap DOMAIN series
        pairs == IF OpenInstants(report) = {} THEN <<>>
                 ELSE build_pairwise_dependence(series, symbols, Max(OpenInstants(report)))
    IN  [gov |-> identity.gov, runtime |-> identity.runtime,
         portfolio |-> report.runtime, study |-> report.study, bundle |-> report.bundle,
         states |-> states, pairs |-> pairs, classification |-> DependenceClassification(states, pairs)]

------------------------------------------------------------------------------
(* The statistical report *)

\* Tenths of a thousandth, half up.
_quantize(millionths) ==
    IF millionths >= 0 THEN (millionths + 50) \div 100 ELSE -((50 - millionths) \div 100)

Breadth(n, thresholds) == Cardinality({i \in 1..3 : n >= thresholds[i]})

\* 0 insufficient, 1 limited, 2 moderate, 3 broader: the weaker of the two
\* samples, at most limited when the interval does not exclude zero.
StatisticalClassification(trades, windows, excludes_zero) ==
    Min({Breadth(trades, TradeThresholds), Breadth(windows, WindowThresholds),
         IF excludes_zero THEN 3 ELSE 1})

\* The executed trades, by run and sequence.
AllTrades(runs) ==
    LET places == UNION {{<<k, i>> : i \in Executed(runs[k].trades)} : k \in DOMAIN runs}
    IN  [at \in places |-> runs[at[1]].trades[at[2]]]

_historical_realized_drawdown(runs) ==
    LET tagged == UNION {{[run |-> k, sequence |-> i, trade |-> runs[k].trades[i]] :
                             i \in Executed(runs[k].trades)} : k \in DOMAIN runs}
        ordered == InOrder([a \in tagged |-> <<a.trade.cutoff, a.sequence, a.run>>])
    IN  _quantize(DrawdownOf([k \in DOMAIN ordered |-> ordered[k].trade.net]))

\* excludes_zero is the bootstrap's answer for the mean R of a trade: a fixed
\* seed draws it, so either answer is possible unless the trades agree in sign.
BootstrapAnswers(trades) ==
    IF \A k \in DOMAIN trades : trades[k].net = 0 THEN {FALSE} ELSE BOOLEAN

build_statistical_evidence_report(identity, study, runs, excludes_zero) ==
    LET trades == AllTrades(runs)
        count == Cardinality(DOMAIN trades)
        nets == {trades[k].net : k \in DOMAIN trades}
        windows == {study.windows[k].net : k \in DOMAIN study.windows}
    IN  [gov |-> identity.gov, runtime |-> identity.runtime,
         study |-> study.runtime, bundle |-> study.bundle,
         trades |-> count, windows |-> Len(study.windows),
         winning |-> Cardinality({k \in DOMAIN trades : trades[k].net > 0}),
         losing |-> Cardinality({k \in DOMAIN trades : trades[k].net < 0}),
         net |-> _quantize(NetOf(trades)),
         views |-> [EXCLUDING_BEST_TRADE |-> _quantize(NetOf(trades) - Max(nets)),
                    EXCLUDING_WORST_TRADE |-> _quantize(NetOf(trades) - Min(nets)),
                    EXCLUDING_BEST_WINDOW |-> _quantize(study.net - Max(windows)),
                    EXCLUDING_WORST_WINDOW |-> _quantize(study.net - Min(windows))],
         drawdown |-> _historical_realized_drawdown(runs),
         classification |-> StatisticalClassification(count, Len(study.windows), excludes_zero)]

==============================================================================
