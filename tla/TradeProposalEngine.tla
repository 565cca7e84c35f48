------------------------- MODULE TradeProposalEngine -------------------------
(***************************************************************************)
(* The trade proposal engine (decision_candidate/trade_proposal.py) with   *)
(* the two types it reads: the operator's configuration                    *)
(* (operator_trading_configuration.py) and the market snapshots            *)
(* (product_market_inputs.py).  The operator amends one setting at a time, *)
(* the providers report one changed observation at a time, and             *)
(* evaluate_trade_proposal runs in any state these reach.                  *)
(*                                                                         *)
(* Amounts are whole units (Decimals), percentages whole numbers, instants *)
(* and times of day whole numbers on one day.  `jump` is how far the       *)
(* operator's clocks go forward at JumpAt, 0 on almost every day.          *)
(* Identifiers, lengths and texts are left out.                            *)
(***************************************************************************)
EXTENDS Decimals, SequencesExt

CONSTANTS
    Absent,               \* an absent maximum_price or cost estimate
    Configurations,       \* configurations the operator starts from
    Markets,              \* observations the day starts from
    Amendments,           \* field -> values the operator may change it to
    Observations,         \* field -> values the providers may report
    MaxChanges,           \* bound on the changes before an evaluation
    JumpAt                \* the instant at which clocks may go forward

VARIABLES configuration, market, changes, outcome

enginevars == <<configuration, market, changes, outcome>>

\* The record with the fields of both; TLC's f @@ g, which provers do not expand.
Join(f, g) == [x \in DOMAIN f \cup DOMAIN g |-> IF x \in DOMAIN f THEN f[x] ELSE g[x]]

------------------------------------------------------------------------------
(* The types *)

MarketStatus == {"OPEN", "CLOSED", "HALTED", "EARLY_CLOSE", "UNKNOWN"}
DataFeedKind == {"REAL_TIME", "DELAYED", "FIXTURE"}
LimitPricePolicy == {"LAST_TRADE", "MID_QUOTE", "ASK"}

\* What the annotations of the two types say of the fields the arithmetic reads.
Amounts ==
    {"maximum_deployable_capital", "maximum_capital_per_trade", "maximum_percent_per_trade",
     "minimum_cash_reserve", "mandatory_liquidation_time", "proposal_expiry_seconds",
     "stop_loss_percent", "profit_exit_percent"}
Readings ==
    {"bid", "ask", "last_trade", "observed_at", "evaluated_at", "lot_size", "cash_available",
     "jump"}

Settings(c) ==
    /\ \A f \in Amounts : f \in DOMAIN c /\ c[f] \in Int
    /\ "limit_price_policy" \in DOMAIN c /\ c.limit_price_policy \in LimitPricePolicy

Estimate(e) == e # Absent => e.commission \in Int /\ e.estimated_slippage_percent \in Int

Snapshot(m) ==
    /\ \A f \in Readings : f \in DOMAIN m /\ m[f] \in Int
    /\ "cost_estimate" \in DOMAIN m /\ Estimate(m.cost_estimate)

ASSUME SettingsAssumption ==
    /\ \A c \in Configurations : Settings(c)
    /\ \A f \in DOMAIN Amendments : \A v \in Amendments[f] :
          /\ f \in Amounts => v \in Int
          /\ f = "limit_price_policy" => v \in LimitPricePolicy

ASSUME SnapshotsAssumption ==
    /\ \A m \in Markets : Snapshot(m)
    /\ \A f \in DOMAIN Observations : \A v \in Observations[f] :
          /\ f \in Readings => v \in Int
          /\ f = "cost_estimate" => Estimate(v)

\* What __post_init__ of the configuration accepts; the switches it pins
\* (unleveraged, long only, intraday, preparation, regular session) are fixed.
OperatorTradingConfiguration(c) ==
    /\ c.watchlist # {} /\ c.permitted_markets # {}
    /\ c.watchlist \cap c.prohibited_instruments = {}
    /\ 0 < c.maximum_capital_per_trade
    /\ c.maximum_capital_per_trade <= c.maximum_deployable_capital
    /\ c.minimum_cash_reserve \in 0..(c.maximum_deployable_capital - 1)
    /\ c.minimum_price > 0
    /\ c.maximum_price # Absent => c.maximum_price > c.minimum_price
    /\ c.earliest_entry_time < c.latest_entry_time
    /\ c.latest_entry_time < c.mandatory_liquidation_time
    /\ c.approval_expiry_seconds \in 1..c.proposal_expiry_seconds
    /\ c.default_order_type \in c.permitted_order_types

\* Which fields have which range, the part of __post_init__ each helper checks.
_require_percent(c) ==
    \A f \in {"maximum_percent_per_trade", "maximum_spread_percent", "stop_loss_percent",
              "maximum_estimated_slippage_percent", "profit_exit_percent"} : c[f] \in 1..100

_require_positive(c) ==
    \A f \in {"maximum_daily_loss", "maximum_daily_order_count", "minimum_liquidity_shares",
              "maximum_simultaneous_positions", "maximum_evidence_age_seconds",
              "maximum_market_data_age_seconds"} : c[f] > 0

Accepted(c) == OperatorTradingConfiguration(c) /\ _require_percent(c) /\ _require_positive(c)

\* What the snapshots' __post_init__ accept.
QuoteSnapshot(m) == 0 < m.bid /\ m.bid <= m.ask /\ m.last_trade > 0 /\ m.feed_kind \in DataFeedKind
AccountSnapshot(m) == m.cash_available >= 0 /\ m.orders_submitted_today >= 0
TradingCostEstimate(e) ==
    e # Absent => e.commission >= 0 /\ e.estimated_slippage_percent \in 0..100

Observable(m) ==
    /\ QuoteSnapshot(m) /\ AccountSnapshot(m) /\ TradingCostEstimate(m.cost_estimate)
    /\ m.status \in MarketStatus
    /\ m.lot_size >= 1 /\ m.average_daily_volume_shares >= 0 /\ m.evidence_age_seconds >= 0

is_tradeable(m) == m.status = "OPEN"

\* The quote's age; observed after the evaluation it is refused.
_age_seconds(m) == m.evaluated_at - m.observed_at

\* The spread, in percent of the mid price, is at most p.
spread_percent_within(m, p) == (m.ask - m.bid) * 200 <= p * (m.bid + m.ask)

------------------------------------------------------------------------------
(* Time of day *)

\* The operator's wall clock at an instant, and the instant of a wall time.
Wall(m, t) == IF t >= JumpAt THEN t + m.jump ELSE t
AtWall(m, w) == IF w - m.jump >= JumpAt THEN w - m.jump ELSE w

\* datetime arithmetic within one zone is arithmetic on the wall clock.
proposal_dies_at(c, m) == Wall(m, m.evaluated_at) + c.proposal_expiry_seconds

------------------------------------------------------------------------------
(* Sizing *)

_limit_price(c, m) ==
    CASE c.limit_price_policy = "LAST_TRADE" -> ToCent(m.last_trade, 1)
      [] c.limit_price_policy = "MID_QUOTE"  -> ToCent(m.bid + m.ask, 2)
      [] c.limit_price_policy = "ASK"        -> ToCent(m.ask, 1)

entry_price(c, m) == IF c.default_order_type = "LIMIT" THEN _limit_price(c, m) ELSE m.ask

spendable_cash(c, m) == m.cash_available - c.minimum_cash_reserve

\* The budget in hundredths of a unit, for the percentage.
budget(c, m) ==
    LeastOf(LeastOf(100 * c.maximum_capital_per_trade,
                    c.maximum_deployable_capital * c.maximum_percent_per_trade),
            100 * GreatestOf(spendable_cash(c, m), 0))

\* Mutant: lots are rounded to the nearest instead of down.
sized_to_nearest(c, m) ==
    IF entry_price(c, m) > 0 /\ budget(c, m) > 0
    THEN RoundHalfEven(RoundDown(budget(c, m), 100 * entry_price(c, m)), m.lot_size) * m.lot_size
    ELSE 0

sized_quantity(c, m) ==
    IF entry_price(c, m) > 0 /\ budget(c, m) > 0
    THEN RoundDown(RoundDown(budget(c, m), 100 * entry_price(c, m)), m.lot_size) * m.lot_size
    ELSE 0

notional(c, m) == ToCent(sized_quantity(c, m) * entry_price(c, m), 1)
fees(m) == IF m.cost_estimate = Absent THEN 0 ELSE ToCent(m.cost_estimate.commission, 1)
slippage_amount(c, m) ==
    IF m.cost_estimate = Absent THEN 0
    ELSE ToCent(notional(c, m) * m.cost_estimate.estimated_slippage_percent, 100)
total_cash(c, m) == notional(c, m) + fees(m) + slippage_amount(c, m)

------------------------------------------------------------------------------
(* The checks *)

\* The reasons to decline and when each applies: a check that fails, or whose
\* input is unknown.  (Nothing records NO_ELIGIBLE_CANDIDATE.)  First the
\* global stop, the market's state and the quality of the data ...
StateDeclines(c, m) ==
    [KILL_SWITCH_ENGAGED |-> c.kill_switch = "ENGAGED",
     MARKET_STATUS_UNKNOWN |-> m.status = "UNKNOWN",
     MARKET_NOT_OPEN |-> m.status # "UNKNOWN" /\ ~is_tradeable(m),
     OUTSIDE_ENTRY_WINDOW |->
        Wall(m, m.evaluated_at) \notin c.earliest_entry_time..c.latest_entry_time,
     LIQUIDATION_DEADLINE_UNREACHABLE |-> c.mandatory_liquidation_time < proposal_dies_at(c, m),
     MARKET_DATA_NOT_REAL_TIME |-> m.feed_kind # "REAL_TIME",
     MARKET_DATA_STALE |-> _age_seconds(m) > c.maximum_market_data_age_seconds,
     EVIDENCE_STALE |-> m.evidence_age_seconds > c.maximum_evidence_age_seconds,
     COST_ESTIMATE_MISSING |-> m.cost_estimate = Absent]

\* ... then the instrument ...
InstrumentDeclines(c, m) ==
    [INSTRUMENT_PROHIBITED |-> m.symbol \in c.prohibited_instruments,
     INSTRUMENT_NOT_WATCHLISTED |-> m.symbol \notin c.watchlist,
     MARKET_NOT_PERMITTED |-> m.market \notin c.permitted_markets,
     CURRENCY_MISMATCH |-> ~(m.currency = c.base_currency /\ c.base_currency = m.base_currency),
     PRICE_OUTSIDE_BOUNDS |->
        \/ m.last_trade < c.minimum_price
        \/ c.maximum_price # Absent /\ m.last_trade > c.maximum_price,
     SPREAD_TOO_WIDE |-> ~spread_percent_within(m, c.maximum_spread_percent),
     LIQUIDITY_INSUFFICIENT |-> m.average_daily_volume_shares < c.minimum_liquidity_shares,
     SLIPPAGE_TOO_HIGH |->
        /\ m.cost_estimate # Absent
        /\ m.cost_estimate.estimated_slippage_percent > c.maximum_estimated_slippage_percent]

\* ... then the portfolio and the capital.
PortfolioDeclines(c, m) ==
    [EXISTING_POSITION_CONFLICT |-> Contains(m.positions, m.symbol),
     OPEN_ORDER_CONFLICT |-> Contains(m.open_orders, m.symbol),
     POSITION_LIMIT_REACHED |-> Len(m.positions) >= c.maximum_simultaneous_positions,
     DAILY_LOSS_LIMIT_REACHED |-> -m.realized_pnl_today >= c.maximum_daily_loss,
     DAILY_ORDER_LIMIT_REACHED |-> m.orders_submitted_today >= c.maximum_daily_order_count,
     CASH_RESERVE_BREACHED |-> spendable_cash(c, m) <= 0,
     CASH_INSUFFICIENT |-> total_cash(c, m) > spendable_cash(c, m),
     QUANTITY_ZERO_AFTER_SIZING |-> sized_quantity(c, m) = 0]

Declines(c, m) ==
    Join(StateDeclines(c, m), Join(InstrumentDeclines(c, m), PortfolioDeclines(c, m)))

_REASON_PRECEDENCE ==
    <<"KILL_SWITCH_ENGAGED", "MARKET_STATUS_UNKNOWN", "MARKET_NOT_OPEN", "OUTSIDE_ENTRY_WINDOW",
      "LIQUIDATION_DEADLINE_UNREACHABLE", "MARKET_DATA_NOT_REAL_TIME", "MARKET_DATA_STALE",
      "EVIDENCE_STALE", "COST_ESTIMATE_MISSING", "INSTRUMENT_PROHIBITED",
      "INSTRUMENT_NOT_WATCHLISTED", "MARKET_NOT_PERMITTED", "CURRENCY_MISMATCH",
      "PRICE_OUTSIDE_BOUNDS", "SPREAD_TOO_WIDE", "LIQUIDITY_INSUFFICIENT", "SLIPPAGE_TOO_HIGH",
      "EXISTING_POSITION_CONFLICT", "OPEN_ORDER_CONFLICT", "POSITION_LIMIT_REACHED",
      "DAILY_LOSS_LIMIT_REACHED", "DAILY_ORDER_LIMIT_REACHED", "CASH_RESERVE_BREACHED",
      "CASH_INSUFFICIENT", "QUANTITY_ZERO_AFTER_SIZING", "NO_ELIGIBLE_CANDIDATE">>

_first_reason(reasons) == SelectInSeq(_REASON_PRECEDENCE, LAMBDA r : r \in reasons)

------------------------------------------------------------------------------
(* The outcome *)

stop_loss(c, m) == ToCent(entry_price(c, m) * (100 - c.stop_loss_percent), 100)

\* Mutant: the profit exit is rounded down.
profit_exit_down(c, m) ==
    Cent * RoundDown(entry_price(c, m) * (100 + c.profit_exit_percent), 100 * Cent)

profit_exit(c, m) == ToCent(entry_price(c, m) * (100 + c.profit_exit_percent), 100)

\* The terms an approval authorizes, of those modelled; status, checks and
\* created_at are not among them.  A digest stands for the terms it covers,
\* amounts by value: _money renders 200.10 and 200.10000000 alike.
_AuthorizedTerms ==
    {"quantity", "limit_price", "estimated_notional", "estimated_total_cash_required",
     "stop_loss_price", "profit_exit_price", "mandatory_liquidation_at", "expires_at"}

_fingerprint_digest(terms) == [f \in _AuthorizedTerms |-> terms[f]]

compute_fingerprint(p) == _fingerprint_digest(p)

\* The terms of the proposal, and the proposal with their digest.
Drafted(c, m) ==
    [kind |-> "proposal",
     quantity |-> sized_quantity(c, m),
     limit_price |-> IF c.default_order_type = "LIMIT" THEN _limit_price(c, m) ELSE Absent,
     estimated_notional |-> notional(c, m),
     estimated_total_cash_required |-> total_cash(c, m),
     stop_loss_price |-> stop_loss(c, m),
     profit_exit_price |-> profit_exit(c, m),
     mandatory_liquidation_at |-> AtWall(m, c.mandatory_liquidation_time),
     created_at |-> m.evaluated_at,
     expires_at |-> m.evaluated_at + c.proposal_expiry_seconds]

_assemble(c, m) ==
    Join(Drafted(c, m), [content_fingerprint |-> _fingerprint_digest(Drafted(c, m))])

\* What TradeProposal.__post_init__ still refuses of an assembled proposal.
TradeProposal(p) ==
    /\ p.quantity > 0
    /\ p.stop_loss_price > 0
    /\ p.profit_exit_price > p.stop_loss_price
    /\ p.mandatory_liquidation_at > p.created_at
    /\ p.content_fingerprint = compute_fingerprint(p)

Raised == [kind |-> "raised"]
NoTrade(reason) == [kind |-> "no_trade", reason |-> reason]

\* A ValueError when the quote is from the future or the assembled proposal is
\* refused, otherwise exactly one of a NO_TRADE reason and a proposal.
evaluate_trade_proposal(c, m) ==
    LET declines == Declines(c, m)
        reasons == {r \in DOMAIN declines : declines[r]}
        proposal == _assemble(c, m)
    IN  CASE _age_seconds(m) < 0 -> Raised
          [] _age_seconds(m) >= 0 /\ reasons # {} ->
                NoTrade(_REASON_PRECEDENCE[_first_reason(reasons)])
          [] _age_seconds(m) >= 0 /\ reasons = {} ->
                IF TradeProposal(proposal) THEN proposal ELSE Raised

------------------------------------------------------------------------------
Pending == [kind |-> "pending"]

EngineInit ==
    /\ configuration \in {c \in Configurations : Accepted(c)}
    /\ market \in {m \in Markets : Observable(m)}
    /\ changes = 0
    /\ outcome = Pending

\* A new configuration version, which must be accepted.
Amend(f, v) ==
    /\ outcome = Pending
    /\ changes < MaxChanges
    /\ configuration' = [configuration EXCEPT ![f] = v]
    /\ Accepted(configuration')
    /\ changes' = changes + 1
    /\ UNCHANGED <<market, outcome>>

\* A new observation (external), which the snapshot types must accept.
Observe(f, v) ==
    /\ outcome = Pending
    /\ changes < MaxChanges
    /\ market' = [market EXCEPT ![f] = v]
    /\ Observable(market')
    /\ changes' = changes + 1
    /\ UNCHANGED <<configuration, outcome>>

Evaluate ==
    /\ outcome = Pending
    /\ outcome' = evaluate_trade_proposal(configuration, market)
    /\ UNCHANGED <<configuration, market, changes>>

EngineNext ==
    \/ \E f \in DOMAIN Amendments : \E v \in Amendments[f] : Amend(f, v)
    \/ \E f \in DOMAIN Observations : \E v \in Observations[f] : Observe(f, v)
    \/ Evaluate

EngineSpec == EngineInit /\ [][EngineNext]_enginevars

------------------------------------------------------------------------------
(* Properties *)

\* A proposal keeps what its policy promises, whatever was rounded on the way:
\* paying for it leaves the cash reserve alone, it is made of whole lots, and it
\* is dead before the day's mandatory liquidation unless the clocks go forward in
\* between.  Of the cap per trade and the policy's share of the capital it keeps
\* only what rounding to the cent leaves of them: the notional is rounded half
\* even after they were applied (NotionalWithinCap says the stricter thing that
\* the code claims).
ProposalWithinPolicy ==
    outcome.kind = "proposal" =>
        /\ market.cash_available - outcome.estimated_total_cash_required
             >= configuration.minimum_cash_reserve
        /\ outcome.estimated_notional <= ToCent(configuration.maximum_capital_per_trade, 1)
        /\ outcome.estimated_notional
             <= ToCent(configuration.maximum_deployable_capital
                          * configuration.maximum_percent_per_trade, 100)
        /\ outcome.quantity % market.lot_size = 0
        /\ market.jump = 0 => outcome.expires_at <= outcome.mandatory_liquidation_at

\* What a comment in the engine gives as the reason for having no check of the
\* notional: "both roundings above are downward, so `notional <=
\* maximum_capital_per_trade` holds for every input this engine accepts".  The
\* code breaks it when the cap has a fraction of a cent, which the configuration
\* accepts: the quantity is rounded down, the notional is not.
NotionalWithinCap ==
    outcome.kind = "proposal" =>
        outcome.estimated_notional <= configuration.maximum_capital_per_trade

\* The engine answers: with a quote that is not from the future and clocks that
\* stand still, it raises only when every check passed and a cent is too coarse
\* for the exits, that is when the stop loss is less than a cent or the exits
\* are at most a cent apart before they are rounded.
AnswersWhenExitsFit ==
    outcome = Raised /\ _age_seconds(market) >= 0 /\ market.jump = 0 =>
        LET entry == entry_price(configuration, market)
        IN  /\ \A r \in DOMAIN Declines(configuration, market) :
                  ~Declines(configuration, market)[r]
            /\ \/ entry * (100 - configuration.stop_loss_percent) < 100 * Cent
               \/ entry * (configuration.stop_loss_percent + configuration.profit_exit_percent)
                    <= 100 * Cent

=============================================================================
