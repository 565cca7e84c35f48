------------------------ MODULE MCOperatorCalculations ------------------------
(* The two parts that compute without storing: the reports over the operator *)
(* ledger, and one evaluation of the trade proposal engine.  Nothing is      *)
(* shared between the two, so they are explored one beside the other (the    *)
(* ledgers beside the base policy and market, before any change; the         *)
(* engine beside the empty ledger of one session) and not interleaved.       *)
EXTENDS OperatorReports, TradeProposalEngine

Reference(id, instrument, rank) == [id |-> id, instrument |-> instrument, rank |-> rank]

\* Nothing tells the two positions apart.
Symmetry == Permutations(Position)

OnePlan == {Reference("P1", "I1", 1), Reference("P1", "I1", 2)}

\* One plan, named twice with different ranks; another plan only; and an
\* identity that names two instruments.
MCSessionPlans ==
    {OnePlan,
     {Reference("P2", "I1", 1)},
     {Reference("P1", "I1", 1), Reference("P1", "I2", 2)}}

\* A policy and a market from which every reason, rounding case and boundary is
\* a few changes away.
BaseConfiguration ==
    [kill_switch |-> "DISENGAGED", base_currency |-> "USD", permitted_markets |-> {"NYSE"},
     watchlist |-> {"AAA"}, prohibited_instruments |-> {"ZZZ"},
     maximum_deployable_capital |-> 4000, maximum_capital_per_trade |-> 1000,
     maximum_percent_per_trade |-> 25, minimum_cash_reserve |-> 200,
     maximum_simultaneous_positions |-> 2, maximum_daily_loss |-> 100,
     maximum_daily_order_count |-> 2, minimum_price |-> 4, maximum_price |-> Absent,
     minimum_liquidity_shares |-> 10, maximum_spread_percent |-> 5,
     maximum_estimated_slippage_percent |-> 2, maximum_evidence_age_seconds |-> 5,
     maximum_market_data_age_seconds |-> 2, earliest_entry_time |-> 10,
     latest_entry_time |-> 20, mandatory_liquidation_time |-> 24,
     proposal_expiry_seconds |-> 5, approval_expiry_seconds |-> 3,
     default_order_type |-> "LIMIT", permitted_order_types |-> {"LIMIT", "MARKET"},
     limit_price_policy |-> "LAST_TRADE", stop_loss_percent |-> 5, profit_exit_percent |-> 5]

BaseMarket ==
    [symbol |-> "AAA", status |-> "OPEN", feed_kind |-> "REAL_TIME", evaluated_at |-> 15,
     observed_at |-> 14, evidence_age_seconds |-> 5, bid |-> 100, ask |-> 103,
     last_trade |-> 102, currency |-> "USD", base_currency |-> "USD", market |-> "NYSE",
     lot_size |-> 1, average_daily_volume_shares |-> 10, cash_available |-> 2000,
     realized_pnl_today |-> -99, orders_submitted_today |-> 1, positions |-> <<"BBB">>,
     open_orders |-> <<"BBB">>, jump |-> 0,
     cost_estimate |-> [commission |-> 5, estimated_slippage_percent |-> 1]]

MCConfigurations ==
    {BaseConfiguration,
     [BaseConfiguration EXCEPT !.minimum_cash_reserve = 0, !.default_order_type = "MARKET"]}

\* The same day with an instrument that trades at two cents.
MCMarkets == {BaseMarket, [BaseMarket EXCEPT !.bid = 8, !.ask = 8, !.last_trade = 8]}

MCAmendments ==
    [kill_switch |-> {"ENGAGED"}, watchlist |-> {{"BBB"}}, prohibited_instruments |-> {{"AAA"}},
     permitted_markets |-> {{"XETR"}}, maximum_capital_per_trade |-> {102, 103, 999, 1050},
     maximum_percent_per_trade |-> {1, 3}, minimum_cash_reserve |-> {1000, 2000},
     minimum_price |-> {102, 103}, maximum_price |-> {101, 103}, maximum_spread_percent |-> {2},
     latest_entry_time |-> {14, 15}, earliest_entry_time |-> {16},
     mandatory_liquidation_time |-> {21}, proposal_expiry_seconds |-> {6, 9},
     default_order_type |-> {"MARKET"}, limit_price_policy |-> {"ASK", "MID_QUOTE"},
     stop_loss_percent |-> {20, 50, 100}, profit_exit_percent |-> {1, 35}]

MCObservations ==
    [status |-> {"UNKNOWN", "CLOSED", "EARLY_CLOSE"}, feed_kind |-> {"DELAYED"},
     evaluated_at |-> {10, 20}, observed_at |-> {13, 16}, evidence_age_seconds |-> {6},
     bid |-> {2, 98, 103}, ask |-> {102, 106, 410}, last_trade |-> {4, 105, 998}, symbol |-> {"BBB"},
     currency |-> {"EUR"}, base_currency |-> {"EUR"}, lot_size |-> {2, 5, 100},
     average_daily_volume_shares |-> {9}, cash_available |-> {200, 213, 310, 1207, 1200},
     realized_pnl_today |-> {-100}, orders_submitted_today |-> {2},
     positions |-> {<<>>, <<"AAA">>, <<"BBB", "BBB">>}, open_orders |-> {<<"AAA">>}, jump |-> {4},
     cost_estimate |-> {Absent, [commission |-> 0, estimated_slippage_percent |-> 2],
                        [commission |-> 2, estimated_slippage_percent |-> 3]}]

NothingAsked ==
    configuration = BaseConfiguration /\ market = BaseMarket /\ changes = 0 /\ outcome = Pending

NothingRecorded == ledger = {} /\ approved_plans = OnePlan

MCNext ==
    \/ NothingAsked /\ ReportsNext /\ UNCHANGED enginevars
    \/ NothingRecorded /\ EngineNext /\ UNCHANGED reportvars

MCInit == ReportsInit /\ EngineInit /\ (NothingAsked \/ NothingRecorded)

MCSpec == MCInit /\ [][MCNext]_<<reportvars, enginevars>>
==============================================================================
