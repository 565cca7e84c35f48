-------------------------- MODULE HistoricalBacktest --------------------------
(***************************************************************************)
(* The historical backtest: the research chain of ResearchChain replayed   *)
(* at every cutoff of a fixed dataset, each approved position entered at   *)
(* the next open and closed by its stop, its target or the holding         *)
(* horizon.                                                                *)
(*                                                                         *)
(* A dataset is a function from its symbols to their bars, all on one grid *)
(* of days.  Prices are whole; a trade's prices are in hundredths and its  *)
(* results in millionths, so that targets and slippage are exact.          *)
(***************************************************************************)
EXTENDS ResearchChain

CONSTANTS
    Horizon,         \* holding_horizon_bars
    AccountEquity,   \* supplied_account_equity
    RiskPercent      \* supplied_risk_percent, in hundredths of a percent

ASSUME HorizonAssumption ==
    /\ Horizon \in Nat \ {0}
    /\ AccountEquity \in Nat /\ RiskPercent \in Nat

Precedes(a, b) ==
    \E i \in DOMAIN a : a[i] < b[i] /\ \A j \in 1..(i - 1) : a[j] = b[j]

\* sorted(): what key is defined for, in the order of the keys.
InOrder(key) ==
    [k \in 1..Cardinality(DOMAIN key) |->
        CHOOSE x \in DOMAIN key : Cardinality({y \in DOMAIN key : Precedes(key[y], key[x])}) = k - 1]

bars_per_instrument(dataset) == Len(dataset[CHOOSE u \in DOMAIN dataset : TRUE])

\* Non-empty, one grid of strictly later days, at least two bars.
HistoricalDataset(dataset) ==
    /\ DOMAIN dataset # {}
    /\ \A u, v \in DOMAIN dataset :
          [i \in DOMAIN dataset[u] |-> dataset[u][i].day] = [i \in DOMAIN dataset[v] |-> dataset[v][i].day]
    /\ \A u \in DOMAIN dataset :
          /\ Len(dataset[u]) >= 2
          /\ \A i \in 2..Len(dataset[u]) : dataset[u][i - 1].day < dataset[u][i].day

\* A bar, in whole numbers; symbols are numbers in alphabetical order.
BarType == [day : Nat, open : Nat, high : Nat, low : Nat, close : Nat, volume : Nat]

DatasetType(dataset) ==
    /\ IsFiniteSet(DOMAIN dataset)
    /\ DOMAIN dataset \subseteq Nat
    /\ \A u \in DOMAIN dataset : dataset[u] \in Seq(BarType)

------------------------------------------------------------------------------
(* One trade *)

executed(trade) == trade.outcome # "NO_ENTRY"

Stop(plan)   == 100 * (plan.geometry.entry - plan.geometry.risk)
Target(plan) == 102 * (plan.geometry.entry - plan.geometry.risk)

\* Five basis points on either side.
_net_costs(quantity, entry, exit) == 5 * quantity * (entry + exit)

Stopped(plan, bar)  == 100 * bar.low <= Stop(plan)
Targeted(plan, bar) == 100 * bar.high >= Target(plan)

\* The first bar that reaches the stop or the target, or the last one.
ExitBar(plan, bars) ==
    CHOOSE i \in 1..Horizon :
        /\ Stopped(plan, bars[i]) \/ Targeted(plan, bars[i]) \/ i = Horizon
        /\ \A j \in 1..(i - 1) : ~Stopped(plan, bars[j]) /\ ~Targeted(plan, bars[j])

\* The stop when a bar reaches both.
ExitAt(plan, bar) ==
    LET Exit(outcome, price) == [outcome |-> outcome, day |-> bar.day, price |-> price]
    IN  IF Stopped(plan, bar) THEN Exit("STOP_HIT", Stop(plan))
        ELSE IF Targeted(plan, bar) THEN Exit("TARGET_HIT", Target(plan))
        ELSE Exit("TIME_EXIT", 100 * bar.close)

ExitOf(plan, bars) == ExitAt(plan, bars[ExitBar(plan, bars)])

\* A trade planned, and what became of it.
HistoricalBacktestTrade(order, cutoff, outcome) ==
    [symbol |-> order.symbol, cutoff |-> cutoff, rank |-> order.rank,
     quantity |-> order.position.quantity, risk |-> order.position.at_risk,
     outcome |-> outcome.outcome, entry |-> outcome.entry, exit |-> outcome.exit,
     gross |-> outcome.gross, net |-> outcome.net]

NoEntry == [outcome |-> "NO_ENTRY", entry |-> 0, exit |-> 0, gross |-> 0, net |-> 0]

Settled(quantity, day, entry, exit) ==
    LET gross == 10000 * (exit.price - entry) * quantity
    IN  [outcome |-> exit.outcome, entry |-> day, exit |-> exit.day, gross |-> gross,
         net |-> gross - _net_costs(quantity, entry, exit.price)]

\* order is the ranked opportunity with its two plans; bars are the bars after
\* the cutoff.
_simulate_trade(order, cutoff, bars) ==
    LET entry == 100 * bars[1].open
    IN  HistoricalBacktestTrade(order, cutoff,
            IF entry <= Stop(order.plan) \/ entry >= Target(order.plan) THEN NoEntry
            ELSE Settled(order.position.quantity, bars[1].day, entry, ExitOf(order.plan, bars)))

------------------------------------------------------------------------------
(* One run *)

\* The cutoffs are the bars with a reference window before them and a holding
\* horizon after them.
evaluated_cutoffs(dataset) == ReferenceWindow + 1 .. bars_per_instrument(dataset) - Horizon

\* Mutant: the bar after the cutoff is in the window already.
WindowWithNextBar(bars, c) == SubSeq(bars, 1, c + 1)

\* series.bars[: cutoff_index + 1]
WindowAt(bars, c) == SubSeq(bars, 1, c)

UniverseAt(dataset, symbols, c) ==
    [i \in DOMAIN symbols |->
        [symbol |-> symbols[i], candidate |-> i, outcome |-> evaluate(WindowAt(dataset[symbols[i]], c))]]

Alphabetical(symbols) == InOrder([u \in symbols |-> <<u>>])

ScanAt(dataset, c) == build_scan(UniverseAt(dataset, Alphabetical(DOMAIN dataset), c))

PlanFor(scan, entry) == build_trade_plan(scan, entry.candidate, entry.outcome)

OrderFor(entry, plan) ==
    [symbol |-> entry.symbol, rank |-> entry.rank, plan |-> plan,
     position |-> build_position_plan(plan, AccountEquity, RiskPercent)]

OrderOf(scan, i) == OrderFor(scan[i], PlanFor(scan, scan[i]))

\* The ranked entries of a scan whose position plan is approved.
Approved(scan) ==
    {i \in DOMAIN scan : /\ scan[i].rank > 0
                         /\ OrderOf(scan, i).position.status = "APPROVED_POSITION_PLAN"}

\* The trade of an order of cutoff c; bars are its symbol's.
Simulated(order, bars, c) ==
    _simulate_trade(order, bars[c].day, SubSeq(bars, c + 1, c + Horizon))

TradeOf(dataset, scan, c, i) ==
    LET order == OrderOf(scan, i) IN Simulated(order, dataset[order.symbol], c)

TradesAt(dataset, c) ==
    LET scan == ScanAt(dataset, c) IN {TradeOf(dataset, scan, c, i) : i \in Approved(scan)}

\* build_historical_backtest_run() raises on too few bars, and when a ranking
\* score divides by zero.
Runnable(dataset) ==
    /\ HistoricalDataset(dataset)
    /\ bars_per_instrument(dataset) > ReferenceWindow + Horizon
    /\ \A c \in evaluated_cutoffs(dataset) : Rankable(ScanAt(dataset, c))

Executed(trades) == {k \in DOMAIN trades : executed(trades[k])}
NetOf(trades)    == SumFunction([k \in DOMAIN trades |-> trades[k].net])

\* The deepest fall of the running total of results below its peak, or below 0.
DrawdownOf(results) ==
    FoldLeft(LAMBDA acc, net :
               LET running == acc.running + net
                   peak == Max({acc.peak, running})
               IN  [running |-> running, peak |-> peak, worst |-> Max({acc.worst, peak - running})],
             [running |-> 0, peak |-> 0, worst |-> 0], results).worst

\* In the order of the exits, ties in the order of the trades.
_drawdown(trades) ==
    LET order == InOrder([i \in Executed(trades) |-> <<trades[i].exit, i>>])
    IN  DrawdownOf([k \in DOMAIN order |-> trades[order[k]].net])

RunTotals(identity, of, trades) ==
    [gov |-> identity.gov, runtime |-> identity.runtime, of |-> of,
     trades |-> trades,
     executed |-> Cardinality(Executed(trades)),
     wins |-> Cardinality({k \in Executed(trades) : trades[k].net > 0}),
     losses |-> Cardinality({k \in Executed(trades) : trades[k].net < 0}),
     net |-> NetOf(trades),
     drawdown |-> _drawdown(trades)]

\* By cutoff and rank.  No two entries of a scan have the same rank, so their
\* place in the scan never decides.
TradesOf(dataset) ==
    LET scan == [c \in evaluated_cutoffs(dataset) |-> ScanAt(dataset, c)]
        chances == UNION {{<<c, i>> : i \in Approved(scan[c])} : c \in DOMAIN scan}
        order == InOrder([o \in chances |-> <<o[1], scan[o[1]][o[2]].rank, o[2]>>])
    IN  [k \in DOMAIN order |-> TradeOf(dataset, scan[order[k][1]], order[k][1], order[k][2])]

\* of says which bars the run saw.
build_historical_backtest_run(identity, dataset, of) == RunTotals(identity, of, TradesOf(dataset))

------------------------------------------------------------------------------
(* Hindsight *)

\* The dataset as it would be had every bar after position c repeated bar c.
Forgetting(dataset, c) ==
    [u \in DOMAIN dataset |->
        [i \in DOMAIN dataset[u] |->
            IF i <= c THEN dataset[u][i] ELSE [dataset[u][c] EXCEPT !.day = dataset[u][i].day]]]

BarOn(dataset, day) ==
    LET bars == dataset[CHOOSE u \in DOMAIN dataset : TRUE]
    IN  CHOOSE i \in DOMAIN bars : bars[i].day = day

Planned(trade) == [symbol |-> trade.symbol, cutoff |-> trade.cutoff, rank |-> trade.rank,
                   quantity |-> trade.quantity, risk |-> trade.risk]

\* The trades of a run are planned from the bars up to their cutoff, and their
\* results are settled by those up to their exit: the bars after either could
\* be any others.
FreeOfHindsight(dataset, trades) ==
    LET at(day) == BarOn(dataset, day)
        from(day) == {k \in DOMAIN trades : trades[k].cutoff = day}
        exits == {<<trades[k].cutoff, trades[k].exit>> : k \in Executed(trades)}
        again(cutoff, day) == TradesAt(Forgetting(dataset, at(day)), at(cutoff))
    IN  /\ \A day \in {trades[k].cutoff : k \in DOMAIN trades} :
              {Planned(trades[k]) : k \in from(day)} = {Planned(t) : t \in again(day, day)}
        /\ \A e \in exits :
              {trades[k] : k \in {j \in from(e[1]) : trades[j].exit = e[2]}} \subseteq again(e[1], e[2])

==============================================================================
