----------------------------- MODULE ResearchChain -----------------------------
(***************************************************************************)
(* The arithmetic of the daily research chain: the breakout strategy, the  *)
(* ranking of its candidates, the risk gate, position sizing, and the two  *)
(* assessments of whether a session's position plans fit its capital.      *)
(*                                                                         *)
(* A symbol is a number, in alphabetical order.  Prices are whole; what    *)
(* the code divides is compared here by cross-multiplication, exactly.     *)
(***************************************************************************)
EXTENDS Integers, Sequences, FiniteSets, SequencesExt

CONSTANTS
    ReferenceWindow,   \* reference_window_size
    MaxConcurrent,     \* max_concurrent_positions of the capital policy
    Utilization        \* max_capital_utilization_percent, in percent

ASSUME ChainAssumption ==
    /\ ReferenceWindow \in Nat \ {0}
    /\ MaxConcurrent \in Nat \ {0}
    /\ Utilization \in 1..100

------------------------------------------------------------------------------
(* Strategy and ranking *)

\* evaluate(): the last bar against the highest high and the average volume of
\* the bars before it.  The measurements keep the sum of the volumes.
evaluate(window) ==
    LET n == Len(window)
        reference == SubSeq(window, n - ReferenceWindow, n - 1)
        high == Max({reference[i].high : i \in DOMAIN reference})
        volumes == SumFunction([i \in DOMAIN reference |-> reference[i].volume])
        current == window[n]
    IN  [long    |-> /\ current.close > high
                     /\ current.volume * ReferenceWindow > volumes,
         close   |-> current.close,
         high    |-> high,
         volume  |-> current.volume,
         volumes |-> volumes]

\* The score as a fraction.  Its denominator is 0 for a breakout on bars that
\* all traded nothing, where the division raises.
Numerator(o)   == (o.close - o.high) * o.volumes + o.volume * ReferenceWindow * o.high
Denominator(o) == o.high * o.volumes
Higher(a, b)   == Numerator(a) * Denominator(b) > Numerator(b) * Denominator(a)

rank_sort_key(a, b) ==
    \/ Higher(a.outcome, b.outcome)
    \/ ~Higher(b.outcome, a.outcome) /\ a.symbol < b.symbol

\* build_scan() raises when a score does.
Rankable(universe) ==
    \A i \in DOMAIN universe : universe[i].outcome.long => Denominator(universe[i].outcome) # 0

\* The entries in universe order; rank 0 is None.
build_scan(universe) ==
    LET longs == {i \in DOMAIN universe : universe[i].outcome.long}
    IN  [i \in DOMAIN universe |->
            [symbol |-> universe[i].symbol, candidate |-> universe[i].candidate,
             outcome |-> universe[i].outcome,
             rank |-> IF i \notin longs THEN 0
                      ELSE 1 + Cardinality({j \in longs : rank_sort_key(universe[j], universe[i])})]]

------------------------------------------------------------------------------
(* The risk gate: target 2% above the reference high, reward:risk at least 2 *)

NoGeometry == [entry |-> 0, risk |-> 0]

\* build_geometry() and the threshold, with the target in hundredths.
build_trade_plan(scan, candidate, outcome) ==
    LET entry == outcome.close
        stop == outcome.high
        target == outcome.high * 102
        reward == target - entry * 100
        risk == (entry - stop) * 100
        Plan(status, reason, geometry) ==
            [status |-> status, reason |-> reason, geometry |-> geometry]
        geometry == [entry |-> entry, risk |-> entry - stop]
    IN  CASE ~\E i \in DOMAIN scan : scan[i].candidate = candidate ->
                Plan("REJECTED_PLAN", "PROVENANCE_MISMATCH", NoGeometry)
          [] OTHER ->
        CASE ~outcome.long -> Plan("REJECTED_PLAN", "SOURCE_NOT_LONG_CANDIDATE", NoGeometry)
          [] outcome.long /\ stop >= entry ->
                Plan("REJECTED_PLAN", "INVALID_STOP_GEOMETRY", NoGeometry)
          [] outcome.long /\ stop < entry /\ target <= entry * 100 ->
                Plan("REJECTED_PLAN", "INVALID_TARGET_GEOMETRY", NoGeometry)
          [] outcome.long /\ stop < entry /\ target > entry * 100 /\ reward < 2 * risk ->
                Plan("REJECTED_PLAN", "REWARD_RISK_BELOW_MINIMUM", geometry)
          [] OTHER -> Plan("APPROVED_PLAN", "none", geometry)

------------------------------------------------------------------------------
(* Sizing: at most 2% of the equity at risk, at most 25% of it in one position *)

_floor_quantity(numerator, denominator) == numerator \div denominator

\* risk is risk_percent in hundredths of a percent.
build_position_plan(plan, equity, risk) ==
    LET g == plan.geometry
        by_risk == _floor_quantity(equity * risk, 10000 * g.risk)
        by_capital == _floor_quantity(equity * 25, 100 * g.entry)
        Rejected(reason) == [status |-> "REJECTED_POSITION_PLAN", reason |-> reason, quantity |-> 0,
                             notional |-> 0, at_risk |-> 0, equity |-> equity]
        quantity == Min({by_risk, by_capital})
    IN  IF plan.status # "APPROVED_PLAN" THEN Rejected("SOURCE_PLAN_NOT_APPROVED")
        ELSE IF equity <= 0     THEN Rejected("INVALID_EQUITY")
        ELSE IF risk <= 0       THEN Rejected("INVALID_RISK_BUDGET")
        ELSE IF risk > 200      THEN Rejected("POLICY_VIOLATION")
        ELSE IF by_risk <= 0    THEN Rejected("ZERO_POSITION_SIZE")
        ELSE IF by_capital <= 0 THEN Rejected("CAPITAL_LIMIT_EXCEEDED")
        ELSE [status |-> "APPROVED_POSITION_PLAN", reason |-> "none", quantity |-> quantity,
              notional |-> quantity * g.entry, at_risk |-> quantity * g.risk, equity |-> equity]

------------------------------------------------------------------------------
(* Capital feasibility.  A request is one approved position plan.            *)

Usable(requests) == {r \in requests : r.notional > 0 /\ r.equity > 0}

\* The smallest equity the plans were sized against.
capital_base(requests) ==
    IF Usable(requests) = {} THEN 0 ELSE Min({r.equity : r \in Usable(requests)})

\* In hundredths, as is every notional it is compared with.
Ceiling(requests) == capital_base(requests) * Utilization

\* One turn of the loop: a plan that does not fit is passed over, and later
\* ones may still fit.
Consider(acc, due, ceiling) ==
    LET fitting == {r \in due : /\ acc.count < MaxConcurrent
                                /\ acc.committed + r.notional * 100 <= ceiling}
        r == CHOOSE q \in fitting : TRUE
    IN  IF fitting = {} THEN acc
        ELSE [count |-> acc.count + 1, committed |-> acc.committed + r.notional * 100,
              fits |-> acc.fits \cup {r}]

\* Mutant: the cap on positions counts only the plans admitted today.
AdmitIgnoringHeld(requests, held, held_count, ceiling) ==
    LET last == Max({0} \cup {r.rank : r \in requests})
        after[k \in 0..last] ==
            IF k = 0 THEN [count |-> 0, committed |-> held * 100, fits |-> {}]
            ELSE Consider(after[k - 1], {r \in requests : r.rank = k}, ceiling)
    IN  after[last]

\* The loop of both assessments, from the exposure already held and in the
\* order of _ordering_key: every plan of a session that the brief asks about
\* carries a rank, and no two the same.
Admit(requests, held, held_count, ceiling) ==
    LET last == Max({0} \cup {r.rank : r \in requests})
        after[k \in 0..last] ==
            IF k = 0 THEN [count |-> held_count, committed |-> held * 100, fits |-> {}]
            ELSE Consider(after[k - 1], {r \in requests : r.rank = k}, ceiling)
    IN  after[last]

Withheld == [outcome |-> "NOT_ASSESSABLE", fits |-> {}, committed |-> 0]

assess_same_day_capital_feasibility(requests, completed) ==
    LET admitted == Admit(Usable(requests), 0, 0, Ceiling(requests))
    IN  CASE ~completed \/ (requests # {} /\ Usable(requests) = {}) -> Withheld
          [] completed /\ requests = {} ->
                [outcome |-> "NO_APPROVED_POSITION_PLANS", fits |-> {}, committed |-> 0]
          [] OTHER ->
                [outcome |-> IF admitted.fits = Usable(requests) THEN "FITS_WITHIN_CAPITAL"
                             ELSE "EXCEEDS_CAPITAL",
                 fits |-> admitted.fits, committed |-> admitted.committed]

\* held is the set of open positions as the ledger derives them, each with the
\* plan it cites.
assess_portfolio_aware_capital_feasibility(requests, held, completed) ==
    LET inputs == Usable(requests)
        acted == {r \in inputs : \E p \in held : p.plan = r.plan}
        proposed == inputs \ acted
        notional == SumFunction([p \in held |-> p.notional])
        ceiling == Ceiling(requests)
        admitted == Admit(proposed, notional, Cardinality(held), ceiling)
        Outcome(o, fits, committed) == [outcome |-> o, fits |-> fits, committed |-> committed]
    IN  IF ~completed THEN Withheld
        ELSE IF proposed = {} THEN
             IF inputs = {} /\ requests # {} THEN Withheld
             ELSE Outcome(IF acted # {} THEN "ALL_PLANS_ALREADY_ACTED_UPON"
                          ELSE "NO_APPROVED_POSITION_PLANS", {}, notional * 100)
        ELSE IF held # {} /\ notional * 100 >= ceiling THEN
             Outcome("ALREADY_AT_OR_OVER_CAPITAL", {}, notional * 100)
        ELSE Outcome(IF admitted.fits = proposed THEN "FITS_WITHIN_REMAINING_CAPITAL"
                     ELSE "EXCEEDS_REMAINING_CAPITAL", admitted.fits, admitted.committed)

==============================================================================
