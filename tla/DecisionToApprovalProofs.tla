----------------------- MODULE DecisionToApprovalProofs -----------------------
(***************************************************************************)
(* From a proposal to an order intent.                                     *)
(*                                                                         *)
(* TradeProposalEngine, for every policy, every market and every size of a *)
(* cent: an evaluation is of the configuration and the market as they      *)
(* stand, and nothing changes after it, so what has to be known of a state *)
(* is that the outcome is the engine's on that state and that the settings *)
(* and the readings are numbers; the rest is arithmetic: how               *)
(* ROUND_HALF_EVEN to the cent and ROUND_DOWN to the lot combine.          *)
(*                                                                         *)
(* DecisionToApproval, for any number of clients, proposals, terms,        *)
(* versions and instants.  IntentAuthorized is not inductive: a            *)
(* decide handler that has recorded its decision and an issue handler that *)
(* has loaded its rows act on what they read in an earlier transaction.    *)
(* The inductive invariant says that what the open handlers rely on is     *)
(* still so (HandlersFit), and that the stored rows fit together (Cited).  *)
(***************************************************************************)
EXTENDS DecisionToApproval, TradeProposalEngine, TLAPS

(* Rounding *)

\* The quotient and the remainder of a division.
LEMMA Division ==
    ASSUME NEW n \in Int, NEW d \in Nat \ {0}
    PROVE  /\ n \div d \in Int /\ n % d \in 0..(d - 1)
           /\ n = d * (n \div d) + (n % d)
<1>1. n \div d \in Int
  OBVIOUS
<1>2. n % d \in 0..(d - 1)
  OBVIOUS
<1>3. n = d * (n \div d) + (n % d)
  OBVIOUS
<1>. QED  BY <1>1, <1>2, <1>3

\* A multiple of a positive number that is nearer to 0 than the number is 0.
LEMMA Multiple ==
    ASSUME NEW d \in Nat \ {0}, NEW x \in Int, NEW y \in Int, d * x < d * y + d
    PROVE  x <= y
<1>1. SUFFICES ASSUME x >= y + 1 PROVE FALSE
  OBVIOUS
<1>2. d * x >= d * (y + 1)
  BY <1>1
<1>3. d * (y + 1) = d * y + d
  OBVIOUS
<1>. QED  BY <1>2, <1>3

LEMMA Quotient ==
    ASSUME NEW d \in Nat \ {0}, NEW q \in Int, NEW r \in 0..(d - 1)
    PROVE  (d * q + r) \div d = q /\ (d * q + r) % d = r
<1>. DEFINE n == d * q + r
            p == n \div d
<1>0. n \in Int
  OBVIOUS
<1>1. p \in Int /\ n % d \in 0..(d - 1) /\ n = d * p + (n % d)
  BY <1>0, Division
<1>2. d * p \in Int /\ d * q \in Int
  BY <1>1
<1>3. d * p < d * q + d /\ d * q < d * p + d
  BY <1>1, <1>2
<1>4. p <= q /\ q <= p
  BY <1>1, <1>3, Multiple
<1>. QED  BY <1>1, <1>4

\* RoundHalfEven is one of the two whole numbers around the quotient, and at
\* most half a unit away from it.
LEMMA Nearest ==
    ASSUME NEW n \in Int, NEW d \in Nat \ {0}
    PROVE  /\ RoundHalfEven(n, d) \in {n \div d, (n \div d) + 1}
           /\ RoundHalfEven(n, d) \in Int
           /\ 2 * (d * RoundHalfEven(n, d)) <= 2 * n + d
           /\ 2 * n - d <= 2 * (d * RoundHalfEven(n, d))
<1>. DEFINE q == n \div d
            r == n % d
            up == 2 * r > d \/ (2 * r = d /\ q % 2 = 1)
<1>1. q \in Int /\ r \in 0..(d - 1) /\ n = d * q + r
  BY Division
<1>2. RoundHalfEven(n, d) = IF up THEN q + 1 ELSE q
  BY DEF RoundHalfEven
<1>3. up => 2 * r >= d
  BY <1>1
<1>4. ~up => 2 * r <= d
  BY <1>1
<1>. HIDE DEF q, r, up
<1>5. d * q \in Int /\ d * (q + 1) = d * q + d
  BY <1>1
<1>6. CASE up
  BY <1>1, <1>2, <1>3, <1>5, <1>6 DEF q
<1>7. CASE ~up
  BY <1>1, <1>2, <1>4, <1>5, <1>7 DEF q
<1>. QED  BY <1>6, <1>7

LEMMA HalfEvenMonotone ==
    ASSUME NEW n \in Int, NEW k \in Int, NEW d \in Nat \ {0}, n <= k
    PROVE  RoundHalfEven(n, d) <= RoundHalfEven(k, d)
<1>. DEFINE q == n \div d
            r == n % d
            p == k \div d
            s == k % d
<1>1. q \in Int /\ r \in 0..(d - 1) /\ n = d * q + r
  BY Division
<1>2. p \in Int /\ s \in 0..(d - 1) /\ k = d * p + s
  BY Division
<1>3. /\ RoundHalfEven(n, d) = IF 2 * r > d \/ (2 * r = d /\ q % 2 = 1) THEN q + 1 ELSE q
      /\ RoundHalfEven(k, d) = IF 2 * s > d \/ (2 * s = d /\ p % 2 = 1) THEN p + 1 ELSE p
  BY DEF RoundHalfEven
<1>. HIDE DEF q, r, p, s
<1>4. d * q \in Int /\ d * p \in Int
  BY <1>1, <1>2
<1>5. q <= p
  <2>1. d * q < d * p + d
    BY <1>1, <1>2, <1>4
  <2>. QED  BY <1>1, <1>2, <2>1, Multiple
<1>6. CASE q < p
  BY <1>1, <1>2, <1>3, <1>6
<1>7. CASE q = p
  <2>1. r <= s
    BY <1>1, <1>2, <1>4, <1>7
  <2>. QED  BY <1>1, <1>2, <1>3, <1>7, <2>1
<1>. QED  BY <1>1, <1>2, <1>5, <1>6, <1>7

LEMMA HalfEvenScales ==
    ASSUME NEW n \in Int, NEW d \in Nat \ {0}, NEW k \in Nat \ {0}
    PROVE  RoundHalfEven(k * n, k * d) = RoundHalfEven(n, d)
<1>. DEFINE q == n \div d
            r == n % d
<1>1. q \in Int /\ r \in 0..(d - 1) /\ n = d * q + r
  BY Division
<1>2. RoundHalfEven(n, d) = IF 2 * r > d \/ (2 * r = d /\ q % 2 = 1) THEN q + 1 ELSE q
  BY DEF RoundHalfEven
<1>. HIDE DEF q, r
<1>3. k * d \in Nat \ {0}
  OBVIOUS
<1>4. k * r \in 0..(k * d - 1)
  <2>1. r \in Nat /\ r + 1 <= d
    BY <1>1
  <2>2. k * r \in Nat /\ k * (r + 1) = k * r + k
    BY <2>1
  <2>3. k * (r + 1) <= k * d
    BY <2>1
  <2>. QED  BY <1>3, <2>2, <2>3
<1>5. k * n = (k * d) * q + k * r
  BY <1>1
<1>6. (k * n) \div (k * d) = q /\ (k * n) % (k * d) = k * r
  <2>. DEFINE D == k * d
              R == k * r
  <2>1. D \in Nat \ {0} /\ R \in 0..(D - 1) /\ k * n = D * q + R
    BY <1>3, <1>4, <1>5
  <2>. HIDE DEF D, R
  <2>2. (k * n) \div D = q /\ (k * n) % D = R
    BY <1>1, <2>1, Quotient
  <2>. QED  BY <2>2 DEF D, R
<1>7. 2 * (k * r) > k * d <=> 2 * r > d
  BY <1>1
<1>8. 2 * (k * r) = k * d <=> 2 * r = d
  BY <1>1
<1>. QED  BY <1>2, <1>6, <1>7, <1>8 DEF RoundHalfEven

\* Amounts to the cent: a number of units, in the order of the exact amounts,
\* and whatever the denominator an amount is written with.
LEMMA CentType ==
    ASSUME NEW n \in Int, NEW d \in Nat \ {0}
    PROVE  ToCent(n, d) \in Int /\ d * Cent \in Nat \ {0}
<1>1. d * Cent \in Nat \ {0}
  BY CentAssumption
<1>2. RoundHalfEven(n, d * Cent) \in Int
  BY <1>1, Nearest
<1>. QED  BY <1>1, <1>2, CentAssumption DEF ToCent

LEMMA CentMonotone ==
    ASSUME NEW n \in Int, NEW k \in Int, NEW d \in Nat \ {0}, n <= k
    PROVE  ToCent(n, d) <= ToCent(k, d)
<1>. DEFINE D == d * Cent
            x == RoundHalfEven(n, D)
            y == RoundHalfEven(k, D)
<1>1. D \in Nat \ {0}
  BY CentType
<1>2. x \in Int /\ y \in Int /\ x <= y
  BY <1>1, Nearest, HalfEvenMonotone
<1>. HIDE DEF x, y
<1>3. Cent * x <= Cent * y
  BY <1>2, CentAssumption
<1>. QED  BY <1>3 DEF ToCent, x, y, D

LEMMA CentScales ==
    ASSUME NEW n \in Int
    PROVE  ToCent(n, 1) = ToCent(100 * n, 100)
<1>1. 1 * Cent = Cent /\ 100 \in Nat \ {0}
  BY CentAssumption
<1>2. RoundHalfEven(100 * n, 100 * Cent) = RoundHalfEven(n, Cent)
  BY <1>1, CentAssumption, HalfEvenScales
<1>. QED  BY <1>1, <1>2 DEF ToCent

------------------------------------------------------------------------------
(* Sizing *)

\* Whole lots bought with a budget b in hundredths at price e stay within it.
LEMMA LotsFitBudget ==
    ASSUME NEW b \in Nat, NEW e \in Nat \ {0}, NEW lot \in Nat \ {0}
    PROVE  LET quantity == RoundDown(RoundDown(b, 100 * e), lot) * lot
           IN  quantity \in Nat /\ quantity % lot = 0 /\ 100 * (quantity * e) <= b
<1>. DEFINE E == 100 * e
            shares == b \div E
            lots == shares \div lot
            quantity == lots * lot
<1>1. E \in Nat \ {0}
  OBVIOUS
<1>. HIDE DEF E
<1>2. shares \in Int /\ b % E \in 0..(E - 1) /\ b = E * shares + (b % E)
  BY <1>1, Division
<1>. HIDE DEF shares
<1>3. shares \in Nat
  <2>1. E * shares \in Int /\ E * 0 = 0
    BY <1>1, <1>2
  <2>2. E * 0 < E * shares + E
    BY <1>1, <1>2, <2>1
  <2>. QED  BY <1>1, <1>2, <2>2, Multiple
<1>4. lots \in Int /\ shares % lot \in 0..(lot - 1) /\ shares = lot * lots + (shares % lot)
  BY <1>3, Division
<1>5. lots \in Nat
  <2>1. lot * lots \in Int /\ lot * 0 = 0
    BY <1>4
  <2>2. lot * 0 < lot * lots + lot
    BY <1>3, <1>4, <2>1
  <2>. QED  BY <1>4, <2>2, Multiple
<1>. HIDE DEF lots
<1>6. quantity \in Nat /\ quantity = lot * lots /\ quantity <= shares
  BY <1>3, <1>4, <1>5
<1>7. quantity % lot = 0
  <2>0. lots \in Int /\ 0 \in 0..(lot - 1)
    BY <1>5
  <2>1. (lot * lots + 0) % lot = 0
    BY <2>0, Quotient
  <2>2. lot * lots + 0 = quantity
    BY <1>6
  <2>. QED  BY <2>1, <2>2
<1>. HIDE DEF quantity
<1>8. 100 * (quantity * e) <= b
  <2>1. E * quantity <= E * shares
    BY <1>1, <1>3, <1>6
  <2>2. E * quantity \in Int /\ E * shares \in Int
    BY <1>1, <1>3, <1>6
  <2>3. E * quantity <= b
    BY <1>2, <2>1, <2>2
  <2>4. E * quantity = 100 * (quantity * e)
    BY <1>6 DEF E
  <2>. QED  BY <2>3, <2>4
<1>. QED  BY <1>6, <1>7, <1>8 DEF RoundDown, quantity, lots, shares, E

\* What the types and the constructors of the configuration and of the
\* snapshots say, of what the engine computes with.
Typed(c, m) == Settings(c) /\ Accepted(c) /\ Snapshot(m) /\ Observable(m)

LEMMA Fields ==
    ASSUME NEW c, NEW m, Typed(c, m)
    PROVE  /\ c.maximum_deployable_capital \in Nat \ {0}
           /\ c.maximum_capital_per_trade \in Nat \ {0}
           /\ c.maximum_percent_per_trade \in 1..100
           /\ c.minimum_cash_reserve \in Nat
           /\ c.mandatory_liquidation_time \in Int
           /\ c.proposal_expiry_seconds \in Nat \ {0}
           /\ c.stop_loss_percent \in 1..100
           /\ c.profit_exit_percent \in 1..100
           /\ c.limit_price_policy \in LimitPricePolicy
           /\ m.bid \in Nat \ {0} /\ m.ask \in Nat \ {0} /\ m.last_trade \in Nat \ {0}
           /\ m.lot_size \in Nat \ {0} /\ m.cash_available \in Nat /\ m.jump \in Int
           /\ m.observed_at \in Int /\ m.evaluated_at \in Int
           /\ m.cost_estimate # Absent =>
                /\ m.cost_estimate.commission \in Nat
                /\ m.cost_estimate.estimated_slippage_percent \in 0..100
<1>1. /\ c.maximum_deployable_capital \in Int /\ c.maximum_capital_per_trade \in Int
      /\ c.minimum_cash_reserve \in Int /\ c.mandatory_liquidation_time \in Int
      /\ c.proposal_expiry_seconds \in Int /\ c.limit_price_policy \in LimitPricePolicy
  BY DEF Typed, Settings, Amounts
<1>2. /\ c.maximum_percent_per_trade \in 1..100 /\ c.stop_loss_percent \in 1..100
      /\ c.profit_exit_percent \in 1..100
  BY DEF Typed, Accepted, _require_percent
<1>3. /\ c.maximum_capital_per_trade > 0
      /\ c.maximum_capital_per_trade <= c.maximum_deployable_capital
      /\ c.minimum_cash_reserve \in 0..(c.maximum_deployable_capital - 1)
      /\ c.approval_expiry_seconds \in 1..c.proposal_expiry_seconds
  BY DEF Typed, Accepted, OperatorTradingConfiguration
<1>4. /\ m.bid \in Int /\ m.ask \in Int /\ m.last_trade \in Int /\ m.lot_size \in Int
      /\ m.cash_available \in Int /\ m.jump \in Int /\ m.observed_at \in Int
      /\ m.evaluated_at \in Int
  BY DEF Typed, Snapshot, Readings
<1>5. 0 < m.bid /\ m.bid <= m.ask /\ m.last_trade > 0 /\ m.lot_size >= 1 /\ m.cash_available >= 0
  BY DEF Typed, Observable, QuoteSnapshot, AccountSnapshot
<1>6. m.cost_estimate # Absent =>
        /\ m.cost_estimate.commission \in Int /\ m.cost_estimate.commission >= 0
        /\ m.cost_estimate.estimated_slippage_percent \in 0..100
  BY DEF Typed, Snapshot, Estimate, Observable, TradingCostEstimate
<1>7. /\ c.maximum_deployable_capital \in Nat \ {0} /\ c.maximum_capital_per_trade \in Nat \ {0}
      /\ c.minimum_cash_reserve \in Nat /\ c.proposal_expiry_seconds \in Nat \ {0}
  BY <1>1, <1>3
<1>8. /\ m.bid \in Nat \ {0} /\ m.ask \in Nat \ {0} /\ m.last_trade \in Nat \ {0}
      /\ m.lot_size \in Nat \ {0} /\ m.cash_available \in Nat
  BY <1>4, <1>5
<1>. QED  BY <1>1, <1>2, <1>4, <1>6, <1>7, <1>8

LEMMA EntryPrice ==
    ASSUME NEW c, NEW m, Typed(c, m)
    PROVE  entry_price(c, m) \in Int
<1>1. m.bid \in Int /\ m.ask \in Int /\ m.last_trade \in Int /\ m.bid + m.ask \in Int
  BY Fields
<1>2. ToCent(m.last_trade, 1) \in Int /\ ToCent(m.bid + m.ask, 2) \in Int /\ ToCent(m.ask, 1) \in Int
  BY <1>1, CentType
<1>3. c.limit_price_policy \in LimitPricePolicy
  BY Fields
<1>4. _limit_price(c, m) \in Int
  BY <1>2, <1>3 DEF _limit_price, LimitPricePolicy
<1>. QED  BY <1>1, <1>4 DEF entry_price

\* The budget is within the three limits it is the least of.
LEMMA Budget ==
    ASSUME NEW c, NEW m, Typed(c, m)
    PROVE  /\ budget(c, m) \in Nat
           /\ budget(c, m) <= 100 * c.maximum_capital_per_trade
           /\ budget(c, m) <= c.maximum_deployable_capital * c.maximum_percent_per_trade
           /\ c.maximum_deployable_capital * c.maximum_percent_per_trade \in Nat
           /\ spendable_cash(c, m) \in Int
<1>1. /\ c.maximum_deployable_capital \in Nat /\ c.maximum_capital_per_trade \in Nat
      /\ c.maximum_percent_per_trade \in Nat /\ c.minimum_cash_reserve \in Nat
      /\ m.cash_available \in Nat
  BY Fields
<1>2. spendable_cash(c, m) \in Int
  BY <1>1 DEF spendable_cash
<1>3. GreatestOf(spendable_cash(c, m), 0) \in Nat
  BY <1>2 DEF GreatestOf
<1>4. c.maximum_deployable_capital * c.maximum_percent_per_trade \in Nat
  BY <1>1
<1>. QED  BY <1>1, <1>2, <1>3, <1>4 DEF budget, LeastOf

\* A quantity is a whole number of lots, and a nonzero one is worth at most
\* the cap and at most the policy's share of the capital.
LEMMA Sizing ==
    ASSUME NEW c, NEW m, Typed(c, m)
    PROVE  /\ sized_quantity(c, m) \in Nat
           /\ sized_quantity(c, m) % m.lot_size = 0
           /\ sized_quantity(c, m) # 0 =>
                LET worth == sized_quantity(c, m) * entry_price(c, m)
                IN  /\ entry_price(c, m) \in Nat \ {0}
                    /\ worth \in Nat
                    /\ worth <= c.maximum_capital_per_trade
                    /\ 100 * worth <= c.maximum_deployable_capital * c.maximum_percent_per_trade
<1>. DEFINE e == entry_price(c, m)
            b == budget(c, m)
            lot == m.lot_size
            q == sized_quantity(c, m)
<1>1. e \in Int /\ b \in Nat /\ lot \in Nat \ {0} /\ c.maximum_capital_per_trade \in Nat
  BY EntryPrice, Budget, Fields
<1>2. CASE e > 0 /\ b > 0
  <2>1. e \in Nat \ {0}
    BY <1>1, <1>2
  <2>2. q = RoundDown(RoundDown(b, 100 * e), lot) * lot
    BY <1>2 DEF sized_quantity
  <2>. HIDE DEF e, b, lot, q
  <2>3. q \in Nat /\ q % lot = 0 /\ 100 * (q * e) <= b
    <3>. DEFINE n == RoundDown(RoundDown(b, 100 * e), lot) * lot
    <3>1. n \in Nat /\ n % lot = 0 /\ 100 * (n * e) <= b
      BY <1>1, <2>1, LotsFitBudget
    <3>2. q = n
      BY <2>2
    <3>. HIDE DEF n
    <3>. QED  BY <3>1, <3>2
  <2>4. q * e \in Nat
    BY <2>1, <2>3
  <2>. DEFINE worth == q * e
  <2>5. worth \in Nat /\ 100 * worth <= b
    BY <2>3, <2>4
  <2>. HIDE DEF worth
  <2>6. /\ b <= 100 * c.maximum_capital_per_trade
        /\ b <= c.maximum_deployable_capital * c.maximum_percent_per_trade
        /\ c.maximum_deployable_capital * c.maximum_percent_per_trade \in Nat
    BY Budget DEF b
  <2>7. worth <= c.maximum_capital_per_trade
    BY <1>1, <2>5, <2>6
  <2>8. 100 * worth <= c.maximum_deployable_capital * c.maximum_percent_per_trade
    BY <1>1, <2>5, <2>6
  <2>. QED  BY <2>1, <2>3, <2>5, <2>7, <2>8 DEF e, b, lot, q, worth
<1>3. CASE ~(e > 0 /\ b > 0)
  <2>1. q = 0
    BY <1>3 DEF sized_quantity
  <2>2. 0 % lot = 0
    BY <1>1
  <2>. QED  BY <2>1, <2>2
<1>. QED  BY <1>2, <1>3

------------------------------------------------------------------------------
(* The evaluation *)

LEMMA TotalCash ==
    ASSUME NEW c, NEW m, Typed(c, m), sized_quantity(c, m) # 0
    PROVE  notional(c, m) \in Int /\ total_cash(c, m) \in Int
<1>1. sized_quantity(c, m) * entry_price(c, m) \in Int
  BY Sizing
<1>2. notional(c, m) \in Int
  BY <1>1, CentType DEF notional
<1>3. fees(m) \in Int
  <2>1. m.cost_estimate # Absent => m.cost_estimate.commission \in Int
    BY Fields
  <2>. QED  BY <2>1, CentType DEF fees
<1>4. slippage_amount(c, m) \in Int
  <2>1. m.cost_estimate # Absent => m.cost_estimate.estimated_slippage_percent \in Int
    BY Fields
  <2>2. m.cost_estimate # Absent =>
          notional(c, m) * m.cost_estimate.estimated_slippage_percent \in Int
    BY <1>2, <2>1
  <2>3. 100 \in Nat \ {0}
    OBVIOUS
  <2>. QED  BY <2>2, <2>3, CentType DEF slippage_amount
<1>. QED  BY <1>2, <1>3, <1>4 DEF total_cash

\* No check declined.
Clear(c, m) == \A r \in DOMAIN Declines(c, m) : ~Declines(c, m)[r]

\* The checks the theorems need, out of the 25.
LEMMA ClearChecks ==
    ASSUME NEW c, NEW m, Clear(c, m)
    PROVE  /\ ~(total_cash(c, m) > spendable_cash(c, m))
           /\ sized_quantity(c, m) # 0
           /\ ~(c.mandatory_liquidation_time < proposal_dies_at(c, m))
<1>1. /\ "CASH_INSUFFICIENT" \in DOMAIN PortfolioDeclines(c, m)
      /\ "QUANTITY_ZERO_AFTER_SIZING" \in DOMAIN PortfolioDeclines(c, m)
      /\ "LIQUIDATION_DEADLINE_UNREACHABLE" \in DOMAIN StateDeclines(c, m)
  BY DEF PortfolioDeclines, StateDeclines
<1>2. /\ "CASH_INSUFFICIENT" \notin DOMAIN StateDeclines(c, m) \cup DOMAIN InstrumentDeclines(c, m)
      /\ "QUANTITY_ZERO_AFTER_SIZING"
            \notin DOMAIN StateDeclines(c, m) \cup DOMAIN InstrumentDeclines(c, m)
  BY DEF StateDeclines, InstrumentDeclines
<1>3. /\ Declines(c, m)["CASH_INSUFFICIENT"] = PortfolioDeclines(c, m)["CASH_INSUFFICIENT"]
      /\ "CASH_INSUFFICIENT" \in DOMAIN Declines(c, m)
  BY <1>1, <1>2 DEF Declines, Join
<1>4. /\ Declines(c, m)["QUANTITY_ZERO_AFTER_SIZING"]
            = PortfolioDeclines(c, m)["QUANTITY_ZERO_AFTER_SIZING"]
      /\ "QUANTITY_ZERO_AFTER_SIZING" \in DOMAIN Declines(c, m)
  BY <1>1, <1>2 DEF Declines, Join
<1>5. /\ Declines(c, m)["LIQUIDATION_DEADLINE_UNREACHABLE"]
            = StateDeclines(c, m)["LIQUIDATION_DEADLINE_UNREACHABLE"]
      /\ "LIQUIDATION_DEADLINE_UNREACHABLE" \in DOMAIN Declines(c, m)
  BY <1>1 DEF Declines, Join
<1>6. ~PortfolioDeclines(c, m)["CASH_INSUFFICIENT"]
  BY <1>3 DEF Clear
<1>7. ~PortfolioDeclines(c, m)["QUANTITY_ZERO_AFTER_SIZING"]
  BY <1>4 DEF Clear
<1>8. ~StateDeclines(c, m)["LIQUIDATION_DEADLINE_UNREACHABLE"]
  BY <1>5 DEF Clear
<1>. QED  BY <1>6, <1>7, <1>8 DEF PortfolioDeclines, StateDeclines

\* The assembled proposal carries the drafted terms and their digest.
LEMMA Assembled ==
    ASSUME NEW c, NEW m
    PROVE  LET p == _assemble(c, m)
           IN  /\ p.kind = "proposal"
               /\ p.quantity = sized_quantity(c, m)
               /\ p.estimated_notional = notional(c, m)
               /\ p.estimated_total_cash_required = total_cash(c, m)
               /\ p.stop_loss_price = stop_loss(c, m)
               /\ p.profit_exit_price = profit_exit(c, m)
               /\ p.mandatory_liquidation_at = AtWall(m, c.mandatory_liquidation_time)
               /\ p.created_at = m.evaluated_at
               /\ p.expires_at = m.evaluated_at + c.proposal_expiry_seconds
               /\ p.content_fingerprint = compute_fingerprint(p)
<1>. DEFINE p == _assemble(c, m)
            d == Drafted(c, m)
            digest == [content_fingerprint |-> _fingerprint_digest(d)]
<1>1. DOMAIN d = {"kind", "quantity", "limit_price", "estimated_notional",
                  "estimated_total_cash_required", "stop_loss_price", "profit_exit_price",
                  "mandatory_liquidation_at", "created_at", "expires_at"}
  BY DEF Drafted
<1>2. DOMAIN digest = {"content_fingerprint"}
  OBVIOUS
<1>3. p = [x \in DOMAIN d \cup DOMAIN digest |-> IF x \in DOMAIN d THEN d[x] ELSE digest[x]]
  BY DEF _assemble, Join
<1>. HIDE DEF d, p
<1>4. \A x \in DOMAIN d : p[x] = d[x]
  BY <1>3
<1>5. p.content_fingerprint = _fingerprint_digest(d)
  BY <1>1, <1>2, <1>3
<1>6. _AuthorizedTerms \subseteq DOMAIN d
  BY <1>1 DEF _AuthorizedTerms
<1>7. compute_fingerprint(p) = _fingerprint_digest(d)
  BY <1>4, <1>6 DEF compute_fingerprint, _fingerprint_digest
<1>8. /\ p.kind = d.kind /\ p.quantity = d.quantity
      /\ p.estimated_notional = d.estimated_notional
      /\ p.estimated_total_cash_required = d.estimated_total_cash_required
      /\ p.stop_loss_price = d.stop_loss_price /\ p.profit_exit_price = d.profit_exit_price
      /\ p.mandatory_liquidation_at = d.mandatory_liquidation_at
      /\ p.created_at = d.created_at /\ p.expires_at = d.expires_at
  BY <1>1, <1>4
<1>9. /\ d.kind = "proposal" /\ d.quantity = sized_quantity(c, m)
      /\ d.estimated_notional = notional(c, m)
      /\ d.estimated_total_cash_required = total_cash(c, m)
      /\ d.stop_loss_price = stop_loss(c, m) /\ d.profit_exit_price = profit_exit(c, m)
      /\ d.mandatory_liquidation_at = AtWall(m, c.mandatory_liquidation_time)
      /\ d.created_at = m.evaluated_at
      /\ d.expires_at = m.evaluated_at + c.proposal_expiry_seconds
  BY DEF d, Drafted
<1>. QED  BY <1>5, <1>7, <1>8, <1>9 DEF p

\* What each kind of outcome says of the checks.
LEMMA Outcomes ==
    ASSUME NEW c, NEW m, Typed(c, m)
    PROVE  LET o == evaluate_trade_proposal(c, m)
           IN  /\ o # Pending
               /\ o.kind = "proposal" => Clear(c, m) /\ o = _assemble(c, m)
               /\ o = Raised /\ _age_seconds(m) >= 0 =>
                    Clear(c, m) /\ ~TradeProposal(_assemble(c, m))
<1>. DEFINE o == evaluate_trade_proposal(c, m)
            p == _assemble(c, m)
            reasons == {r \in DOMAIN Declines(c, m) : Declines(c, m)[r]}
            reason == _REASON_PRECEDENCE[_first_reason(reasons)]
<1>1. o = CASE _age_seconds(m) < 0 -> Raised
            [] _age_seconds(m) >= 0 /\ reasons # {} -> NoTrade(reason)
            [] _age_seconds(m) >= 0 /\ reasons = {} -> IF TradeProposal(p) THEN p ELSE Raised
  BY DEF evaluate_trade_proposal
<1>2. reasons = {} <=> Clear(c, m)
  BY DEF Clear
<1>3. _age_seconds(m) \in Int
  BY Fields DEF _age_seconds
<1>4. p.kind = "proposal"
  BY Assembled
<1>5. Raised.kind = "raised" /\ Pending.kind = "pending" /\ NoTrade(reason).kind = "no_trade"
  BY DEF Raised, Pending, NoTrade
<1>. HIDE DEF o, p, reasons, reason
<1>6. CASE _age_seconds(m) < 0
  BY <1>1, <1>3, <1>5, <1>6 DEF o, p
<1>7. CASE _age_seconds(m) >= 0 /\ reasons # {}
  BY <1>1, <1>3, <1>5, <1>7 DEF o, p
<1>8. CASE _age_seconds(m) >= 0 /\ reasons = {}
  BY <1>1, <1>2, <1>3, <1>4, <1>5, <1>8 DEF o, p
<1>. QED  BY <1>3, <1>6, <1>7, <1>8

\* On clocks that stand still the proposal dies by the mandatory liquidation.
LEMMA DiesInTime ==
    ASSUME NEW c, NEW m, Typed(c, m), Clear(c, m), m.jump = 0
    PROVE  /\ AtWall(m, c.mandatory_liquidation_time) = c.mandatory_liquidation_time
           /\ m.evaluated_at + c.proposal_expiry_seconds <= c.mandatory_liquidation_time
           /\ m.evaluated_at < c.mandatory_liquidation_time
<1>1. /\ m.evaluated_at \in Int /\ c.mandatory_liquidation_time \in Int
      /\ c.proposal_expiry_seconds \in Nat \ {0}
  BY Fields
<1>2. Wall(m, m.evaluated_at) = m.evaluated_at
  BY <1>1 DEF Wall
<1>3. AtWall(m, c.mandatory_liquidation_time) = c.mandatory_liquidation_time
  BY <1>1 DEF AtWall
<1>4. ~(c.mandatory_liquidation_time < m.evaluated_at + c.proposal_expiry_seconds)
  BY <1>2, ClearChecks DEF proposal_dies_at
<1>. QED  BY <1>1, <1>3, <1>4

\* A proposal that passed every check keeps what the policy promises.
LEMMA WithinPolicy ==
    ASSUME NEW c, NEW m, Typed(c, m), Clear(c, m)
    PROVE  /\ m.cash_available - total_cash(c, m) >= c.minimum_cash_reserve
           /\ notional(c, m) <= ToCent(c.maximum_capital_per_trade, 1)
           /\ notional(c, m)
                <= ToCent(c.maximum_deployable_capital * c.maximum_percent_per_trade, 100)
<1>. DEFINE worth == sized_quantity(c, m) * entry_price(c, m)
            share == c.maximum_deployable_capital * c.maximum_percent_per_trade
<1>1. /\ worth \in Nat
      /\ worth <= c.maximum_capital_per_trade
      /\ 100 * worth <= share
  BY ClearChecks, Sizing
<1>2. c.maximum_capital_per_trade \in Int /\ share \in Int
  BY Fields, Budget
<1>3. notional(c, m) = ToCent(worth, 1)
  BY DEF notional
<1>. HIDE DEF worth, share
<1>4. ToCent(worth, 1) <= ToCent(c.maximum_capital_per_trade, 1)
  BY <1>1, <1>2, CentMonotone
<1>5. ToCent(100 * worth, 100) <= ToCent(share, 100)
  <2>1. 100 * worth \in Int /\ 100 \in Nat \ {0}
    BY <1>1
  <2>. QED  BY <1>1, <1>2, <2>1, CentMonotone
<1>6. ToCent(worth, 1) = ToCent(100 * worth, 100)
  BY <1>1, CentScales
<1>7. m.cash_available - total_cash(c, m) >= c.minimum_cash_reserve
  <2>1. total_cash(c, m) \in Int
    BY ClearChecks, TotalCash
  <2>2. m.cash_available \in Int /\ c.minimum_cash_reserve \in Int
    BY Fields
  <2>3. ~(total_cash(c, m) > m.cash_available - c.minimum_cash_reserve)
    BY ClearChecks DEF spendable_cash
  <2>. QED  BY <2>1, <2>2, <2>3
<1>. QED  BY <1>3, <1>4, <1>5, <1>6, <1>7 DEF share

\* The exits the type refuses are those a cent is too coarse for.
LEMMA CoarseExits ==
    ASSUME NEW c, NEW m, Typed(c, m), entry_price(c, m) \in Nat \ {0},
           ~(stop_loss(c, m) > 0) \/ ~(profit_exit(c, m) > stop_loss(c, m))
    PROVE  LET e == entry_price(c, m)
           IN  \/ e * (100 - c.stop_loss_percent) < 100 * Cent
               \/ e * (c.stop_loss_percent + c.profit_exit_percent) <= 100 * Cent
<1>. DEFINE e == entry_price(c, m)
            stop == c.stop_loss_percent
            profit == c.profit_exit_percent
<1>0. e \in Nat \ {0} /\ stop \in 1..100 /\ profit \in 1..100
  BY Fields
<1>. DEFINE D == 100 * Cent
            low == e * (100 - stop)
            high == e * (100 + profit)
            x == RoundHalfEven(low, D)
            y == RoundHalfEven(high, D)
<1>1. D \in Nat \ {0}
  BY CentAssumption
<1>2. low \in Int /\ high \in Int /\ high - low = e * (stop + profit)
  <2>. HIDE DEF e, stop, profit
  <2>. QED  BY <1>0
<1>3. stop_loss(c, m) = Cent * x /\ profit_exit(c, m) = Cent * y
  BY DEF ToCent, stop_loss, profit_exit
<1>. HIDE DEF e, stop, profit, D, low, high
<1>4. /\ x \in Int /\ 2 * low - D <= 2 * (D * x) /\ 2 * (D * x) <= 2 * low + D
      /\ x \in {low \div D, (low \div D) + 1}
  BY <1>1, <1>2, Nearest
<1>5. y \in Int /\ 2 * high - D <= 2 * (D * y) /\ 2 * (D * y) <= 2 * high + D
  BY <1>1, <1>2, Nearest
<1>. HIDE DEF x, y
<1>6. D * x \in Int /\ D * y \in Int
  BY <1>1, <1>4, <1>5
<1>7. CASE ~(Cent * x > 0)
  <2>1. x <= 0
    <3>. SUFFICES ASSUME x >= 1 PROVE FALSE
      BY <1>4
    <3>. QED  BY <1>4, <1>7, CentAssumption
  <2>2. D * x <= 0
    BY <1>1, <1>4, <2>1
  <2>3. low < D
    BY <1>1, <1>2, <1>4, <1>6, <2>2
  <2>. QED  BY <2>3 DEF low, D, e, stop
<1>8. CASE ~(Cent * y > Cent * x)
  <2>1. y <= x
    <3>. SUFFICES ASSUME y >= x + 1 PROVE FALSE
      BY <1>4, <1>5
    <3>1. Cent * y >= Cent * (x + 1)
      BY <1>4, <1>5, CentAssumption
    <3>2. Cent * (x + 1) = Cent * x + Cent /\ Cent * x \in Int /\ Cent * y \in Int
      BY <1>4, <1>5, CentAssumption
    <3>. QED  BY <1>8, <3>1, <3>2, CentAssumption
  <2>2. D * y <= D * x
    BY <1>1, <1>4, <1>5, <2>1
  <2>3. high - low <= D
    BY <1>1, <1>2, <1>4, <1>5, <1>6, <2>2
  <2>. QED  BY <1>2, <2>3 DEF D, e, stop, profit
<1>. QED  BY <1>3, <1>7, <1>8

------------------------------------------------------------------------------
(* The invariant *)

\* Settings and readings are numbers the constructors accept, and an outcome
\* is the engine's answer to exactly these.
EngineInv ==
    /\ Typed(configuration, market)
    /\ outcome = Pending \/ outcome = evaluate_trade_proposal(configuration, market)

LEMMA AmendStep ==
    ASSUME EngineInv, NEW f \in DOMAIN Amendments, NEW v \in Amendments[f], Amend(f, v)
    PROVE  EngineInv'
<1>1. /\ configuration' = [configuration EXCEPT ![f] = v] /\ Accepted(configuration')
      /\ market' = market /\ outcome' = Pending
  BY DEF Amend
<1>2. Settings(configuration)
  BY DEF EngineInv, Typed
<1>3. f \in Amounts => v \in Int
  BY SettingsAssumption
<1>4. f = "limit_price_policy" => v \in LimitPricePolicy
  BY SettingsAssumption
<1>5. \A g \in Amounts : g \in DOMAIN configuration' /\ configuration'[g] \in Int
  BY <1>1, <1>2, <1>3 DEF Settings
<1>6. /\ "limit_price_policy" \in DOMAIN configuration'
      /\ configuration'.limit_price_policy \in LimitPricePolicy
  BY <1>1, <1>2, <1>4 DEF Settings
<1>7. Settings(configuration')
  BY <1>5, <1>6 DEF Settings
<1>8. Snapshot(market') /\ Observable(market')
  BY <1>1 DEF EngineInv, Typed
<1>9. Typed(configuration', market')
  BY <1>1, <1>7, <1>8 DEF Typed
<1>. QED  BY <1>1, <1>9 DEF EngineInv, Pending, Typed

LEMMA ObserveStep ==
    ASSUME EngineInv, NEW f \in DOMAIN Observations, NEW v \in Observations[f], Observe(f, v)
    PROVE  EngineInv'
<1>1. /\ market' = [market EXCEPT ![f] = v] /\ Observable(market')
      /\ configuration' = configuration /\ outcome' = Pending
  BY DEF Observe
<1>2. Snapshot(market)
  BY DEF EngineInv, Typed
<1>3. f \in Readings => v \in Int
  BY SnapshotsAssumption
<1>4. f = "cost_estimate" => Estimate(v)
  BY SnapshotsAssumption
<1>5. \A g \in Readings : g \in DOMAIN market' /\ market'[g] \in Int
  BY <1>1, <1>2, <1>3 DEF Snapshot
<1>6. "cost_estimate" \in DOMAIN market' /\ Estimate(market'.cost_estimate)
  <2>1. /\ "cost_estimate" \in DOMAIN market /\ Estimate(market.cost_estimate)
        /\ "cost_estimate" \in DOMAIN market'
    BY <1>1, <1>2 DEF Snapshot
  <2>2. CASE f = "cost_estimate"
    BY <1>1, <1>4, <2>1, <2>2
  <2>3. CASE f # "cost_estimate"
    BY <1>1, <2>1, <2>3
  <2>. QED  BY <2>1, <2>2, <2>3
<1>7. Snapshot(market')
  BY <1>5, <1>6 DEF Snapshot
<1>8. Settings(configuration') /\ Accepted(configuration')
  BY <1>1 DEF EngineInv, Typed
<1>9. Typed(configuration', market')
  BY <1>1, <1>7, <1>8 DEF Typed
<1>. QED  BY <1>1, <1>9 DEF EngineInv, Pending, Typed

LEMMA EngineInvInit == EngineInit => EngineInv
<1>. SUFFICES ASSUME EngineInit PROVE EngineInv
  OBVIOUS
<1>1. Settings(configuration) /\ Accepted(configuration)
  BY SettingsAssumption DEF EngineInit
<1>2. Snapshot(market) /\ Observable(market)
  BY SnapshotsAssumption DEF EngineInit
<1>. QED  BY <1>1, <1>2 DEF EngineInit, EngineInv, Typed

LEMMA EngineInvNext == EngineInv /\ [EngineNext]_enginevars => EngineInv'
<1>. SUFFICES ASSUME EngineInv, [EngineNext]_enginevars PROVE EngineInv'
  OBVIOUS
<1>1. CASE Evaluate
  BY <1>1 DEF Evaluate, EngineInv
<1>2. CASE UNCHANGED enginevars
  BY <1>2 DEF enginevars, EngineInv
<1>. QED  BY <1>1, <1>2, AmendStep, ObserveStep DEF EngineNext

\* Every outcome is the engine's on the policy and the market of its state.
THEOREM EngineInvariant == EngineSpec => []EngineInv
  BY EngineInvInit, EngineInvNext, PTL DEF EngineSpec

\* Whatever is rounded on the way, a proposal leaves the cash reserve alone,
\* stays within both caps to the cent, is made of whole lots and dies by the
\* mandatory liquidation on a day without a clock change.
THEOREM ProposalsStayWithinPolicy == EngineSpec => []ProposalWithinPolicy
<1>1. EngineInv => ProposalWithinPolicy
  <2>. SUFFICES ASSUME EngineInv, outcome.kind = "proposal"
                PROVE  ProposalWithinPolicy
    BY DEF ProposalWithinPolicy
  <2>. DEFINE c == configuration
              m == market
  <2>1. Typed(c, m) /\ outcome = evaluate_trade_proposal(c, m)
    BY DEF EngineInv, Pending
  <2>2. Clear(c, m) /\ outcome = _assemble(c, m)
    BY <2>1, Outcomes
  <2>3. /\ outcome.estimated_total_cash_required = total_cash(c, m)
        /\ outcome.estimated_notional = notional(c, m)
        /\ outcome.quantity = sized_quantity(c, m)
        /\ outcome.expires_at = m.evaluated_at + c.proposal_expiry_seconds
        /\ outcome.mandatory_liquidation_at = AtWall(m, c.mandatory_liquidation_time)
    BY <2>2, Assembled
  <2>4. outcome.quantity % m.lot_size = 0
    BY <2>1, <2>3, Sizing
  <2>5. m.jump = 0 => outcome.expires_at <= outcome.mandatory_liquidation_at
    BY <2>1, <2>2, <2>3, DiesInTime
  <2>. QED  BY <2>1, <2>2, <2>3, <2>4, <2>5, WithinPolicy DEF ProposalWithinPolicy
<1>. QED  BY <1>1, EngineInvariant, PTL

\* The engine raises on a quote that is not from the future, with clocks that
\* stand still, only where a cent is too coarse for the exits.
THEOREM EngineAnswers == EngineSpec => []AnswersWhenExitsFit
<1>1. EngineInv => AnswersWhenExitsFit
  <2>. SUFFICES ASSUME EngineInv, outcome = Raised, _age_seconds(market) >= 0, market.jump = 0
                PROVE  AnswersWhenExitsFit
    BY DEF AnswersWhenExitsFit
  <2>. DEFINE c == configuration
              m == market
              p == _assemble(c, m)
              e == entry_price(c, m)
  <2>1. Typed(c, m) /\ outcome = evaluate_trade_proposal(c, m)
    BY DEF EngineInv, Pending, Raised
  <2>2. Clear(c, m) /\ ~TradeProposal(p)
    BY <2>1, Outcomes
  <2>3. e \in Nat \ {0} /\ sized_quantity(c, m) \in Nat /\ sized_quantity(c, m) # 0
    BY <2>1, <2>2, ClearChecks, Sizing
  <2>4. /\ p.quantity > 0
        /\ p.mandatory_liquidation_at > p.created_at
        /\ p.content_fingerprint = compute_fingerprint(p)
    <3>1. m.evaluated_at \in Int /\ c.mandatory_liquidation_time \in Int
      BY <2>1, Fields
    <3>. QED  BY <2>1, <2>2, <2>3, <3>1, Assembled, DiesInTime
  <2>5. \/ ~(stop_loss(c, m) > 0)
        \/ ~(profit_exit(c, m) > stop_loss(c, m))
    BY <2>2, <2>4, Assembled DEF TradeProposal
  <2>6. \/ e * (100 - c.stop_loss_percent) < 100 * Cent
        \/ e * (c.stop_loss_percent + c.profit_exit_percent) <= 100 * Cent
    BY <2>1, <2>3, <2>5, CoarseExits
  <2>7. \A r \in DOMAIN Declines(c, m) : ~Declines(c, m)[r]
    BY <2>2 DEF Clear
  <2>. QED  BY <2>6, <2>7, Zenon DEF AnswersWhenExitsFit
<1>. QED  BY <1>1, EngineInvariant, PTL

------------------------------------------------------------------------------
(* The handlers of MILESTONE-084: what their rows and steps rely on *)

\* Every stored row cites stored rows, and carries over from them what the
\* handlers copied.
Cited ==
    /\ \A p \in Stored(proposals) :
          /\ configurations[proposals[p].version] # None
          /\ configurations[proposals[p].version].kill_switch = "DISENGAGED"
          /\ proposals[p].expires_at = proposals[p].created_at
                + configurations[proposals[p].version].policy.proposal_expiry_seconds
    /\ \A p \in Stored(decisions) :
          /\ proposals[p] # None
          /\ decisions[p].fingerprint = proposals[p].terms
          /\ decisions[p].action = "APPROVE" =>
                decisions[p].expires_at = decisions[p].decided_at
                   + configurations[proposals[p].version].policy.approval_expiry_seconds
    /\ \A p \in Stored(intents) :
          /\ proposals[p] # None
          /\ decisions[p] # None
          /\ intents[p].version = proposals[p].version

\* What a handler in local state s relies on.
Fits(s) ==
    /\ s.pc = "switch" => configurations[s.version] # None
    /\ s.pc \in {"decide", "admitted", "recorded", "issue"} => proposals[s.proposal] # None
    /\ s.pc = "recorded" => decisions[s.proposal] # None /\ decisions[s.proposal].action = s.action
    /\ s.pc = "issue" => decisions[s.proposal] # None
    /\ s.pc = "sweep" => \A p \in s.todo \cup s.done : proposals[p] # None

HandlersFit == \A c \in Client : Fits(session[c])

Tables == Cited /\ DecidedHasDecision /\ IntentAuthorized

IInv == TypeOK /\ Tables /\ HandlersFit

tables == <<configurations, contexts, proposals, decisions, intents>>

\* A step that only changes what one handler has read.
LEMMA LocalStep ==
    ASSUME IInv, NEW c \in Client, NEW s \in Session, Fits(s), Go(c, s), UNCHANGED tables
    PROVE  IInv'
<1>1. TypeOK'
  BY DEF IInv, TypeOK, Go, tables, Stored
<1>2. Tables'
  BY DEF IInv, Tables, Cited, DecidedHasDecision, IntentAuthorized, tables, Stored
<1>3. HandlersFit'
  BY DEF IInv, TypeOK, HandlersFit, Fits, Go, tables
<1>. QED  BY <1>1, <1>2, <1>3 DEF IInv

------------------------------------------------------------------------------
(* Local state *)

\* What the fields of a local state are, by the handler it belongs to.
LEMMA SessionFields ==
    ASSUME NEW s \in Session
    PROVE  /\ s.pc = "switch" => /\ s.version \in Version
                                 /\ s.target \in {"ENGAGED", "DISENGAGED"}
           /\ s.pc \in {"decide", "admitted", "recorded"} =>
                /\ s.proposal \in Proposal
                /\ s.action \in Action
                /\ s.decided_at \in Nat
                /\ \A pc \in {"decide", "admitted", "recorded"} : [s EXCEPT !.pc = pc] \in Session
           /\ s.pc = "issue" => /\ s.proposal \in Proposal
                                /\ s.terms \in Terms
                                /\ s.created_at \in Nat
           /\ s.pc = "sweep" => /\ s.as_of \in Nat
                                /\ s.todo \subseteq Proposal
                                /\ s.done \subseteq Proposal
<1>1. CASE s.pc = "switch"
  BY <1>1 DEF Session
<1>2. CASE s.pc \in {"decide", "admitted", "recorded"}
  BY <1>2 DEF Session
<1>3. CASE s.pc = "issue"
  BY <1>3 DEF Session
<1>4. CASE s.pc = "sweep"
  BY <1>4 DEF Session
<1>. QED  BY <1>1, <1>2, <1>3, <1>4

\* A sweep that has looked up the latest version or is done with a proposal.
LEMMA SweepForms ==
    ASSUME NEW s \in Session, s.pc = "sweep"
    PROVE  /\ \A v \in Version : [s EXCEPT !.cached = v] \in Session
           /\ \A p \in Proposal :
                [s EXCEPT !.todo = @ \ {p}, !.done = @ \cup {p}] \in Session
<1>1. s \in [pc : {"sweep"}, as_of : Nat, cached : {0} \cup Version,
             done : SUBSET Proposal, todo : SUBSET Proposal]
  BY DEF Session
<1>2. \A v \in Version : [s EXCEPT !.cached = v] \in Session
  BY <1>1 DEF Session
<1>3. ASSUME NEW p \in Proposal
      PROVE  [s EXCEPT !.todo = @ \ {p}, !.done = @ \cup {p}] \in Session
  BY <1>1 DEF Session
<1>. QED  BY <1>2, <1>3

LEMMA IdleFits == Idle \in Session /\ Fits(Idle)
  BY DEF Idle, Session, Fits

\* A handler that returns or stops.
LEMMA ReturnStep ==
    ASSUME IInv, NEW c \in Client, Go(c, Idle), UNCHANGED tables
    PROVE  IInv'
  BY IdleFits, LocalStep

LEMMA SetKillSwitchLoadStep ==
    ASSUME IInv, NEW c \in Client, NEW v \in Version, NEW target \in {"ENGAGED", "DISENGAGED"},
           SetKillSwitchLoad(c, v, target)
    PROVE  IInv'
<1>. DEFINE s == [pc |-> "switch", version |-> v, target |-> target]
<1>1. s \in Session
  BY DEF Session
<1>2. Fits(s)
  BY DEF Fits, SetKillSwitchLoad, latest, Stored
<1>. QED  BY <1>1, <1>2, LocalStep DEF SetKillSwitchLoad, tables

LEMMA DecideLoadStep ==
    ASSUME IInv, NEW c \in Client, NEW p \in Proposal, NEW a \in Action, NEW i \in Instant,
           DecideLoad(c, p, a, i)
    PROVE  IInv'
<1>. DEFINE s == [pc |-> "decide", proposal |-> p, action |-> a, decided_at |-> i]
<1>1. s \in Session
  BY BoundsAssumption DEF Session, Instant
<1>2. Fits(s)
  BY DEF Fits, DecideLoad
<1>. QED  BY <1>1, <1>2, LocalStep DEF DecideLoad, tables

LEMMA DecideAdmitStep ==
    ASSUME IInv, NEW c \in Client, DecideAdmit(c)
    PROVE  IInv'
<1>. DEFINE s == [session[c] EXCEPT !.pc = "admitted"]
<1>1. session[c] \in Session /\ session[c].pc = "decide" /\ Fits(session[c])
  BY DEF IInv, TypeOK, HandlersFit, DecideAdmit
<1>2. s \in Session
  BY <1>1, SessionFields
<1>3. s.pc = "admitted" /\ s.proposal = session[c].proposal
  BY <1>1 DEF Session
<1>4. Fits(s)
  BY <1>1, <1>3 DEF Fits
<1>. QED  BY <1>2, <1>4, LocalStep DEF DecideAdmit, tables

LEMMA IssueLoadStep ==
    ASSUME IInv, NEW c \in Client, NEW p \in Proposal, NEW i \in Instant, IssueLoad(c, p, i)
    PROVE  IInv'
<1>. DEFINE s == [pc |-> "issue", proposal |-> p, terms |-> proposals[p].terms, created_at |-> i]
<1>1. proposals[p] \in Row
  BY DEF IInv, TypeOK, IssueLoad
<1>2. s \in Session
  BY <1>1, BoundsAssumption DEF Session, Instant, Row
<1>3. Fits(s)
  BY DEF Fits, IssueLoad
<1>. QED  BY <1>2, <1>3, LocalStep DEF IssueLoad, tables

LEMMA SweepListStep ==
    ASSUME IInv, NEW c \in Client, NEW i \in Instant, SweepList(c, i)
    PROVE  IInv'
<1>. DEFINE queue == {p \in Stored(proposals) : proposals[p].status = "PREPARED"}
            s == [pc |-> "sweep", as_of |-> i, cached |-> 0, done |-> {}, todo |-> queue]
<1>1. queue \subseteq Proposal /\ \A p \in queue : proposals[p] # None
  BY DEF IInv, TypeOK, Stored
<1>2. s \in Session
  BY <1>1, BoundsAssumption DEF Session, Instant
<1>3. Fits(s)
  BY <1>1 DEF Fits
<1>. QED  BY <1>2, <1>3, LocalStep DEF SweepList, tables

LEMMA SweepLookupStep ==
    ASSUME IInv, NEW c \in Client, NEW v \in Version, SweepLookup(c, v)
    PROVE  IInv'
<1>. DEFINE s == [session[c] EXCEPT !.cached = v]
<1>1. session[c] \in Session /\ session[c].pc = "sweep" /\ Fits(session[c])
  BY DEF IInv, TypeOK, HandlersFit, SweepLookup
<1>2. s \in Session
  BY <1>1, SweepForms
<1>3. s.pc = "sweep" /\ s.todo = session[c].todo /\ s.done = session[c].done
  BY <1>1 DEF Session
<1>4. Fits(s)
  BY <1>1, <1>3 DEF Fits
<1>. QED  BY <1>2, <1>4, LocalStep DEF SweepLookup, tables

\* The local state of a sweep that is done with p still fits.
LEMMA AdvanceFits ==
    ASSUME IInv, NEW c \in Client, NEW p \in Proposal, session[c].pc = "sweep", IsHead(c, p)
    PROVE  LET s == [session[c] EXCEPT !.todo = @ \ {p}, !.done = @ \cup {p}]
           IN  s \in Session /\ Fits(s) /\ proposals[p] # None
<1>. DEFINE s == [session[c] EXCEPT !.todo = @ \ {p}, !.done = @ \cup {p}]
<1>1. session[c] \in Session /\ Fits(session[c]) /\ p \in session[c].todo
  BY DEF IInv, TypeOK, HandlersFit, IsHead
<1>2. s \in Session
  BY <1>1, SweepForms
<1>3. /\ s.pc = "sweep"
      /\ s.todo = session[c].todo \ {p}
      /\ s.done = session[c].done \cup {p}
  BY <1>1 DEF Session
<1>4. \A q \in s.todo \cup s.done : proposals[q] # None
  BY <1>1, <1>3 DEF Fits
<1>5. Fits(s)
  BY <1>3, <1>4 DEF Fits
<1>. QED  BY <1>1, <1>2, <1>5 DEF Fits

LEMMA SweepKeepStep ==
    ASSUME IInv, NEW c \in Client, NEW p \in Proposal, SweepKeep(c, p)
    PROVE  IInv'
<1>. DEFINE s == [session[c] EXCEPT !.todo = @ \ {p}, !.done = @ \cup {p}]
<1>1. s \in Session /\ Fits(s)
  BY AdvanceFits DEF SweepKeep
<1>. QED  BY <1>1, LocalStep DEF SweepKeep, Advance, tables

------------------------------------------------------------------------------
(* Tables *)

\* Rows are only added, and of a stored row only a proposal's status moves.
Grows ==
    /\ \A v \in Stored(configurations) : configurations'[v] # None
    /\ \A p \in Stored(proposals) : proposals'[p] # None
    /\ \A p \in Stored(decisions) : decisions'[p] = decisions[p]

\* When tables grow, what the handlers that take no step rely on is still so.
LEMMA FitsGrow ==
    ASSUME IInv, Grows,
           \A c \in Client : session'[c] = session[c] \/ Fits(session[c])'
    PROVE  HandlersFit'
<1>. SUFFICES ASSUME NEW d \in Client, session'[d] = session[d]
              PROVE  Fits(session[d])'
  BY DEF HandlersFit
<1>1. session'[d] = session[d] /\ session[d] \in Session /\ Fits(session[d])
  BY DEF IInv, TypeOK, HandlersFit
<1>2. /\ proposals \in [Proposal -> Row \cup {None}]
      /\ decisions \in [Proposal -> DecisionRow \cup {None}]
      /\ configurations \in [Version -> Configuration \cup {None}]
  BY DEF IInv, TypeOK
<1>3. session[d].pc = "switch" => configurations'[session[d].version] # None
  BY <1>1, <1>2, SessionFields DEF Fits, Grows, Stored
<1>4. session[d].pc \in {"decide", "admitted", "recorded", "issue"} =>
        proposals'[session[d].proposal] # None
  BY <1>1, <1>2, SessionFields DEF Fits, Grows, Stored
<1>5. session[d].pc \in {"recorded", "issue"} =>
        /\ decisions[session[d].proposal] # None
        /\ decisions'[session[d].proposal] = decisions[session[d].proposal]
  BY <1>1, <1>2, SessionFields DEF Fits, Grows, Stored
<1>6. session[d].pc = "sweep" =>
        \A p \in session[d].todo \cup session[d].done : proposals'[p] # None
  BY <1>1, <1>2, SessionFields DEF Fits, Grows, Stored
<1>. QED  BY <1>1, <1>3, <1>4, <1>5, <1>6 DEF Fits

\* Inserting a configuration version leaves every cited version as it is.
LEMMA SaveKeepsTables ==
    ASSUME IInv, NEW v \in Version, NEW k \in Configuration, Save(v, k),
           UNCHANGED <<contexts, proposals, decisions, intents>>
    PROVE  /\ Tables'
           /\ Grows
           /\ configurations' \in [Version -> Configuration \cup {None}]
           /\ contexts' \subseteq Stored(configurations')
<1>1. /\ configurations \in [Version -> Configuration \cup {None}]
      /\ configurations[v] = None
      /\ configurations' = [configurations EXCEPT ![v] = k]
      /\ k # None
  BY NoneIsNoRow DEF IInv, TypeOK, Save
<1>2. \A w \in Version : configurations[w] # None => configurations'[w] = configurations[w]
  BY <1>1
<1>3. \A p \in Stored(proposals) :
         proposals[p].version \in Version /\ configurations[proposals[p].version] # None
  BY DEF IInv, TypeOK, Row, Tables, Cited, Stored
<1>4. Cited'
  <2>1. \A p \in Stored(decisions) : p \in Stored(proposals)
    BY DEF IInv, TypeOK, Tables, Cited, Stored
  <2>. QED  BY <1>2, <1>3, <2>1 DEF IInv, Tables, Cited, Stored
<1>5. DecidedHasDecision' /\ IntentAuthorized'
  BY DEF IInv, Tables, DecidedHasDecision, IntentAuthorized, Stored
<1>6. Grows
  BY <1>1, <1>2 DEF Grows, Stored
<1>7. contexts' \subseteq Stored(configurations')
  BY <1>1, <1>2 DEF IInv, TypeOK, Stored
<1>. QED  BY <1>1, <1>4, <1>5, <1>6, <1>7 DEF Tables

LEMMA SaveOperatorTradingConfigurationStep ==
    ASSUME IInv, NEW v \in Version, NEW k \in Configuration,
           SaveOperatorTradingConfiguration(v, k)
    PROVE  IInv'
<1>1. Save(v, k) /\ UNCHANGED <<contexts, proposals, decisions, intents>> /\ UNCHANGED session
  BY DEF SaveOperatorTradingConfiguration
<1>2. HandlersFit'
  BY <1>1, SaveKeepsTables, FitsGrow
<1>. QED  BY <1>1, <1>2, SaveKeepsTables DEF IInv, TypeOK

LEMMA SetKillSwitchSaveStep ==
    ASSUME IInv, NEW c \in Client, SetKillSwitchSave(c)
    PROVE  IInv'
<1>. DEFINE v == session[c].version
            k == [configurations[v] EXCEPT !.kill_switch = session[c].target]
<1>1. session[c] \in Session /\ session[c].pc = "switch" /\ Fits(session[c])
  BY DEF IInv, TypeOK, HandlersFit, SetKillSwitchSave
<1>2. CASE Save(v + 1, k)
  <2>0. v \in Version /\ v < MaxVersion
    BY <1>1, SessionFields DEF SetKillSwitchSave
  <2>1. v \in Version /\ v + 1 \in Version
    BY <2>0, BoundsAssumption DEF Version
  <2>2. configurations[v] \in Configuration
    BY <1>1, <2>1 DEF IInv, TypeOK, Fits
  <2>3. k \in Configuration
    BY <1>1, <2>2, SessionFields DEF Configuration
  <2>4. UNCHANGED <<contexts, proposals, decisions, intents>>
    BY DEF SetKillSwitchSave
  <2>5. /\ Tables'
        /\ Grows
        /\ configurations' \in [Version -> Configuration \cup {None}]
        /\ contexts' \subseteq Stored(configurations')
    BY <1>2, <2>1, <2>3, <2>4, SaveKeepsTables
  <2>6. session' = [session EXCEPT ![c] = Idle] /\ session'[c] = Idle
    BY DEF SetKillSwitchSave, Go, IInv, TypeOK
  <2>7. Fits(session[c])'
    BY <2>6 DEF Fits, Idle
  <2>8. HandlersFit'
    <3>1. \A d \in Client : session'[d] = session[d] \/ Fits(session[d])'
      BY <2>6, <2>7 DEF IInv, TypeOK
    <3>. QED  BY <2>5, <3>1, FitsGrow
  <2>9. session' \in [Client -> Session]
    BY <2>6, IdleFits DEF IInv, TypeOK
  <2>. QED  BY <2>4, <2>5, <2>8, <2>9 DEF IInv, TypeOK
<1>3. CASE UNCHANGED configurations
  BY <1>3, ReturnStep DEF SetKillSwitchSave, tables
<1>. QED  BY <1>2, <1>3 DEF SetKillSwitchSave

LEMMA OpenEvaluationContextStep ==
    ASSUME IInv, NEW v \in Version, OpenEvaluationContext(v)
    PROVE  IInv'
<1>1. TypeOK'
  BY DEF IInv, TypeOK, OpenEvaluationContext, Stored
<1>2. Tables'
  BY DEF IInv, Tables, Cited, DecidedHasDecision, IntentAuthorized, OpenEvaluationContext, Stored
<1>3. HandlersFit'
  BY DEF IInv, HandlersFit, Fits, OpenEvaluationContext
<1>. QED  BY <1>1, <1>2, <1>3 DEF IInv

LEMMA PrepareTradeProposalStep ==
    ASSUME IInv, NEW p \in Proposal, NEW v \in Version, NEW t \in Terms, NEW i \in Instant,
           PrepareTradeProposal(p, v, t, i)
    PROVE  IInv'
<1>. DEFINE row == [terms |-> t, version |-> v, status |-> "PREPARED", created_at |-> i,
                    expires_at |-> i + configurations[v].policy.proposal_expiry_seconds]
<1>1. /\ configurations[v] \in Configuration
      /\ configurations[v].kill_switch = "DISENGAGED"
  BY DEF IInv, TypeOK, Stored, PrepareTradeProposal
<1>2. configurations[v].policy.proposal_expiry_seconds \in Nat
  BY <1>1, ExpiriesArePositive DEF Configuration, Policy
<1>3. row \in Row /\ row # None
  BY <1>2, BoundsAssumption, NoneIsNoRow DEF Row, Instant, Status
<1>4. /\ proposals \in [Proposal -> Row \cup {None}]
      /\ proposals[p] = None
      /\ proposals' = [proposals EXCEPT ![p] = row]
  BY DEF IInv, TypeOK, PrepareTradeProposal
<1>5. UNCHANGED <<configurations, contexts, decisions, intents, session>>
  BY DEF PrepareTradeProposal
<1>6. TypeOK'
  BY <1>3, <1>4, <1>5 DEF IInv, TypeOK, Stored
<1>7. decisions[p] = None /\ intents[p] = None
  BY <1>4 DEF IInv, TypeOK, Tables, Cited, Stored
<1>8. \A q \in Proposal : q # p => proposals'[q] = proposals[q]
  BY <1>4
<1>9. proposals'[p] = row
  BY <1>4
<1>10. Cited'
  <2>1. \A q \in Stored(proposals') :
          /\ configurations'[proposals'[q].version] # None
          /\ configurations'[proposals'[q].version].kill_switch = "DISENGAGED"
          /\ proposals'[q].expires_at = proposals'[q].created_at
                + configurations'[proposals'[q].version].policy.proposal_expiry_seconds
    <3>. SUFFICES ASSUME NEW q \in Proposal, proposals'[q] # None
                  PROVE  /\ configurations[proposals'[q].version] # None
                         /\ configurations[proposals'[q].version].kill_switch = "DISENGAGED"
                         /\ proposals'[q].expires_at = proposals'[q].created_at
                              + configurations[proposals'[q].version].policy.proposal_expiry_seconds
      BY <1>4, <1>5 DEF Stored
    <3>1. CASE q = p
      BY <1>1, <1>9, <3>1, NoneIsNoRow
    <3>2. CASE q # p
      BY <1>4, <1>8, <3>2 DEF IInv, Tables, Cited, Stored
    <3>. QED  BY <3>1, <3>2
  <2>2. \A q \in Stored(decisions) \cup Stored(intents) : q \in Proposal /\ q # p
    BY <1>7 DEF IInv, TypeOK, Stored
  <2>. QED  BY <1>5, <1>8, <2>1, <2>2 DEF IInv, Tables, Cited, Stored
<1>11. DecidedHasDecision'
  BY <1>4, <1>5, <1>8, <1>9 DEF IInv, Tables, DecidedHasDecision, Stored, Decided
<1>12. IntentAuthorized'
  <2>1. \A q \in Stored(intents) : q \in Proposal /\ q # p
    BY <1>7 DEF IInv, TypeOK, Stored
  <2>. QED  BY <1>5, <1>8, <2>1 DEF IInv, Tables, IntentAuthorized, Stored
<1>13. Grows
  BY <1>3, <1>4, <1>5 DEF Grows, Stored
<1>14. HandlersFit'
  BY <1>5, <1>13, FitsGrow
<1>. QED  BY <1>6, <1>10, <1>11, <1>12, <1>14 DEF IInv, Tables

\* Moving a stored, PREPARED or unmoved proposal keeps what Cited says of it.
LEMMA MoveKeeps ==
    ASSUME IInv, NEW p \in Proposal, NEW to \in Status, proposals[p] # None, set_status(p, to),
           UNCHANGED <<configurations, contexts, decisions, intents>>
    PROVE  /\ proposals' \in [Proposal -> Row \cup {None}]
           /\ \A q \in Proposal : q # p => proposals'[q] = proposals[q]
           /\ proposals'[p].status = to
           /\ proposals'[p].terms = proposals[p].terms
           /\ proposals'[p].expires_at = proposals[p].expires_at
           /\ Cited'
           /\ Grows
<1>1. proposals \in [Proposal -> Row \cup {None}] /\ proposals[p] \in Row
  BY DEF IInv, TypeOK
<1>2. proposals' = [proposals EXCEPT ![p] = [proposals[p] EXCEPT !.status = to]]
  BY <1>1 DEF set_status
<1>3. proposals'[p] = [proposals[p] EXCEPT !.status = to] /\ proposals'[p] \in Row
  BY <1>1, <1>2 DEF Row
<1>4. /\ proposals'[p].status = to
      /\ proposals'[p].terms = proposals[p].terms
      /\ proposals'[p].version = proposals[p].version
      /\ proposals'[p].created_at = proposals[p].created_at
      /\ proposals'[p].expires_at = proposals[p].expires_at
      /\ proposals'[p] # None
  BY <1>1, <1>3, NoneIsNoRow DEF Row
<1>5. /\ proposals' \in [Proposal -> Row \cup {None}]
      /\ \A q \in Proposal : q # p => proposals'[q] = proposals[q]
  BY <1>1, <1>2, <1>3
<1>6. \A q \in Proposal :
         /\ proposals'[q] # None <=> proposals[q] # None
         /\ proposals'[q].terms = proposals[q].terms
         /\ proposals'[q].version = proposals[q].version
         /\ proposals'[q].created_at = proposals[q].created_at
         /\ proposals'[q].expires_at = proposals[q].expires_at
  BY <1>4, <1>5
<1>7. /\ Stored(proposals') = Stored(proposals)
      /\ Stored(proposals) \subseteq Proposal
      /\ Stored(decisions) \subseteq Proposal
      /\ Stored(intents) \subseteq Proposal
  BY <1>1, <1>5, <1>6 DEF Stored, IInv, TypeOK
<1>8. Cited'
  BY <1>6, <1>7 DEF IInv, Tables, Cited, Stored
<1>9. Grows
  BY <1>6, <1>7 DEF Grows, Stored
<1>. QED  BY <1>4, <1>5, <1>8, <1>9

\* An APPROVED proposal stays APPROVED, so the intents stay authorized.
LEMMA MoveKeepsIntents ==
    ASSUME IInv, NEW p \in Proposal, NEW to \in Status, proposals[p] # None, set_status(p, to),
           UNCHANGED <<configurations, contexts, decisions, intents>>
    PROVE  IntentAuthorized'
<1>1. \A q \in Proposal : q # p => proposals'[q] = proposals[q]
  BY MoveKeeps
<1>2. /\ proposals'[p].status = to
      /\ proposals'[p].terms = proposals[p].terms
      /\ proposals'[p].expires_at = proposals[p].expires_at
  BY MoveKeeps
<1>3. proposals[p].status = "APPROVED" => to = "APPROVED"
  BY DEF set_status, is_transition_allowed
<1>4. Stored(intents) \subseteq Proposal /\ IntentAuthorized
  BY DEF IInv, TypeOK, Stored, Tables
<1>. QED  BY <1>1, <1>2, <1>3, <1>4 DEF IntentAuthorized, Stored

\* A sweep moves a proposal to a status no decision brings about.
LEMMA SweepMoveStep ==
    ASSUME IInv, NEW c \in Client, NEW p \in Proposal, NEW to \in {"EXPIRED", "INVALIDATED"},
           session[c].pc = "sweep", IsHead(c, p), set_status(p, to), Advance(c, p),
           UNCHANGED <<configurations, contexts, decisions, intents>>
    PROVE  IInv'
<1>. DEFINE s == [session[c] EXCEPT !.todo = @ \ {p}, !.done = @ \cup {p}]
<1>1. s \in Session /\ Fits(s) /\ proposals[p] # None
  BY AdvanceFits
<1>2. to \in Status
  BY DEF Status
<1>3. /\ proposals' \in [Proposal -> Row \cup {None}]
      /\ \A q \in Proposal : q # p => proposals'[q] = proposals[q]
      /\ proposals'[p].status = to
      /\ Cited'
      /\ Grows
  BY <1>1, <1>2, MoveKeeps
<1>4. IntentAuthorized'
  BY <1>1, <1>2, MoveKeepsIntents
<1>5. DecidedHasDecision'
  BY <1>3 DEF IInv, TypeOK, Tables, DecidedHasDecision, Stored, Decided
<1>6. session' = [session EXCEPT ![c] = s] /\ session' \in [Client -> Session]
  BY <1>1 DEF Advance, Go, IInv, TypeOK
<1>7. session'[c] = s /\ \A d \in Client : d # c => session'[d] = session[d]
  BY <1>6 DEF IInv, TypeOK
<1>8. Fits(session[c])'
  <2>1. session[c] \in Session /\ s.pc = "sweep"
    BY DEF IInv, TypeOK, Session
  <2>2. \A q \in s.todo \cup s.done : q \in Proposal /\ proposals[q] # None
    BY <1>1, <2>1, SessionFields DEF Fits
  <2>3. \A q \in s.todo \cup s.done : proposals'[q] # None
    BY <1>3, <2>2 DEF Grows, Stored, IInv, TypeOK
  <2>4. session'[c].pc = "sweep" /\ \A q \in session'[c].todo \cup session'[c].done : proposals'[q] # None
    BY <1>7, <2>1, <2>3
  <2>. QED  BY <2>4 DEF Fits
<1>9. HandlersFit'
  BY <1>3, <1>7, <1>8, FitsGrow
<1>10. TypeOK'
  BY <1>3, <1>6 DEF IInv, TypeOK, Stored
<1>. QED  BY <1>3, <1>4, <1>5, <1>9, <1>10 DEF IInv, Tables

LEMMA DecideMoveStep ==
    ASSUME IInv, NEW c \in Client, DecideMove(c)
    PROVE  IInv'
<1>. DEFINE p == session[c].proposal
            to == resulting_status(session[c].action)
<1>1. session[c] \in Session /\ session[c].pc = "recorded" /\ Fits(session[c])
  BY DEF IInv, TypeOK, HandlersFit, DecideMove
<1>2. p \in Proposal /\ session[c].action \in Action
  BY <1>1, SessionFields
<1>3. /\ proposals[p] # None
      /\ decisions[p] # None
      /\ decisions[p].action = session[c].action
  BY <1>1 DEF Fits
<1>4. to \in Status
  BY <1>2 DEF resulting_status, Action, Status, Decided
<1>5. set_status(p, to) /\ UNCHANGED <<configurations, contexts, decisions, intents>>
  BY DEF DecideMove
<1>6. /\ proposals' \in [Proposal -> Row \cup {None}]
      /\ \A q \in Proposal : q # p => proposals'[q] = proposals[q]
      /\ proposals'[p].status = to
      /\ Cited'
      /\ Grows
  BY <1>2, <1>3, <1>4, <1>5, MoveKeeps
<1>7. IntentAuthorized'
  BY <1>2, <1>3, <1>4, <1>5, MoveKeepsIntents
<1>8. DecidedHasDecision'
  <2>. SUFFICES ASSUME NEW q \in Proposal, proposals'[q] # None, proposals'[q].status \in Decided
                PROVE  /\ decisions[q] # None
                       /\ proposals'[q].status = resulting_status(decisions[q].action)
    BY <1>5, <1>6 DEF DecidedHasDecision, Stored
  <2>1. CASE q = p
    BY <1>3, <1>6, <2>1
  <2>2. CASE q # p
    BY <1>6, <2>2 DEF IInv, TypeOK, Tables, DecidedHasDecision, Stored
  <2>. QED  BY <2>1, <2>2
<1>9. session' = [session EXCEPT ![c] = Idle] /\ session'[c] = Idle
  BY DEF DecideMove, Go, IInv, TypeOK
<1>10. session' \in [Client -> Session] /\ \A d \in Client : d # c => session'[d] = session[d]
  BY <1>9, IdleFits DEF IInv, TypeOK
<1>11. Fits(session[c])'
  BY <1>9 DEF Fits, Idle
<1>12. HandlersFit'
  BY <1>6, <1>10, <1>11, FitsGrow
<1>13. TypeOK'
  BY <1>5, <1>6, <1>10 DEF IInv, TypeOK, Stored
<1>. QED  BY <1>6, <1>7, <1>8, <1>12, <1>13 DEF IInv, Tables

LEMMA DecideCommitStep ==
    ASSUME IInv, NEW c \in Client, DecideCommit(c)
    PROVE  IInv'
<1>. DEFINE p == session[c].proposal
            s == [session[c] EXCEPT !.pc = "recorded"]
            policy == configurations[proposals[p].version].policy
            row == Decision(c)
<1>1. session[c] \in Session /\ session[c].pc = "admitted" /\ Fits(session[c])
  BY DEF IInv, TypeOK, HandlersFit, DecideCommit
<1>2. p \in Proposal /\ session[c].action \in Action /\ session[c].decided_at \in Nat
  BY <1>1, SessionFields
<1>3. proposals[p] # None /\ proposals[p] \in Row
  BY <1>1, <1>2 DEF Fits, IInv, TypeOK
<1>4. policy.approval_expiry_seconds \in Nat
  <2>1. proposals[p].version \in Version /\ configurations[proposals[p].version] # None
    BY <1>2, <1>3 DEF Row, IInv, TypeOK, Tables, Cited, Stored
  <2>2. configurations[proposals[p].version] \in Configuration
    BY <2>1 DEF IInv, TypeOK
  <2>. QED  BY <2>2, ExpiriesArePositive DEF Configuration, Policy
<1>5. /\ row \in [action : {session[c].action}, fingerprint : {proposals[p].terms},
                  decided_at : {session[c].decided_at}, expires_at : Nat \cup {None}]
      /\ row.action = "APPROVE" =>
           row.expires_at = row.decided_at + policy.approval_expiry_seconds
  <2>. DEFINE expiry == IF session[c].action = "APPROVE"
                        THEN session[c].decided_at + policy.approval_expiry_seconds ELSE None
  <2>1. row = [action |-> session[c].action, fingerprint |-> proposals[p].terms,
               decided_at |-> session[c].decided_at, expires_at |-> expiry]
    BY DEF Decision
  <2>2. session[c].decided_at + policy.approval_expiry_seconds \in Nat
    <3>. HIDE DEF policy
    <3>. QED  BY <1>2, <1>4
  <2>3. expiry \in Nat \cup {None}
    BY <2>2
  <2>4. session[c].action = "APPROVE" =>
          expiry = session[c].decided_at + policy.approval_expiry_seconds
    OBVIOUS
  <2>. HIDE DEF expiry, row, policy
  <2>. QED  BY <2>1, <2>3, <2>4
<1>. HIDE DEF row
<1>6. /\ row \in DecisionRow /\ row # None
      /\ row.action = session[c].action
      /\ row.fingerprint = proposals[p].terms
  <2>1. row.action = session[c].action /\ row.fingerprint = proposals[p].terms
    BY <1>5
  <2>2. proposals[p].terms \in Terms
    BY <1>3 DEF Row
  <2>3. row \in DecisionRow
    BY <1>2, <1>5, <2>2 DEF DecisionRow
  <2>. QED  BY <2>1, <2>3, NoneIsNoRow
<1>7. /\ decisions \in [Proposal -> DecisionRow \cup {None}]
      /\ decisions[p] = None
      /\ decisions' = [decisions EXCEPT ![p] = row]
      /\ UNCHANGED <<configurations, contexts, proposals, intents>>
  BY DEF IInv, TypeOK, DecideCommit, row
<1>8. /\ decisions' \in [Proposal -> DecisionRow \cup {None}]
      /\ decisions'[p] = row
      /\ \A q \in Proposal : q # p => decisions'[q] = decisions[q]
  BY <1>2, <1>6, <1>7
<1>9. /\ Stored(intents) \subseteq Proposal \ {p}
      /\ \A q \in Stored(proposals) : proposals[q].status \in Decided => q # p
  BY <1>7 DEF IInv, TypeOK, Tables, Cited, DecidedHasDecision, Stored
<1>10. Cited'
  <2>. SUFFICES ASSUME NEW q \in Proposal, decisions'[q] # None
                PROVE  /\ proposals[q] # None
                       /\ decisions'[q].fingerprint = proposals[q].terms
                       /\ decisions'[q].action = "APPROVE" =>
                            decisions'[q].expires_at = decisions'[q].decided_at
                               + configurations[proposals[q].version].policy.approval_expiry_seconds
    BY <1>6, <1>7, <1>8, <1>9 DEF IInv, TypeOK, Tables, Cited, Stored
  <2>1. CASE q = p
    <3>1. decisions'[q] = row
      BY <1>8, <2>1
    <3>2. row.action = "APPROVE" =>
            row.expires_at = row.decided_at
               + configurations[proposals[q].version].policy.approval_expiry_seconds
      BY <1>5, <2>1
    <3>. QED  BY <1>3, <1>6, <2>1, <3>1, <3>2
  <2>2. CASE q # p
    BY <1>7, <1>8, <2>2 DEF IInv, Tables, Cited, Stored
  <2>. QED  BY <2>1, <2>2
<1>11. DecidedHasDecision'
  BY <1>7, <1>8, <1>9 DEF IInv, TypeOK, Tables, DecidedHasDecision, Stored
<1>12. IntentAuthorized'
  BY <1>7, <1>8, <1>9 DEF IInv, Tables, IntentAuthorized, Stored
<1>13. Grows
  BY <1>7, <1>8 DEF Grows, Stored
<1>14. s \in Session /\ s.pc = "recorded" /\ s.proposal = p /\ s.action = session[c].action
  <2>1. s \in Session
    BY <1>1, SessionFields
  <2>. QED  BY <1>1, <2>1 DEF Session
<1>15. /\ session' \in [Client -> Session]
       /\ session'[c] = s
       /\ \A d \in Client : d # c => session'[d] = session[d]
  BY <1>14 DEF DecideCommit, Go, IInv, TypeOK
<1>16. Fits(session[c])'
  <2>1. /\ session'[c].pc = "recorded"
        /\ session'[c].proposal = p
        /\ session'[c].action = session[c].action
    BY <1>14, <1>15
  <2>2. proposals'[p] # None
    BY <1>3, <1>7
  <2>3. decisions'[p] # None
    BY <1>6, <1>8
  <2>4. decisions'[p].action = session[c].action
    BY <1>6, <1>8
  <2>. QED  BY <2>1, <2>2, <2>3, <2>4 DEF Fits
<1>17. HandlersFit'
  BY <1>13, <1>15, <1>16, FitsGrow
<1>18. TypeOK'
  BY <1>7, <1>8, <1>15 DEF IInv, TypeOK, Stored
<1>. QED  BY <1>10, <1>11, <1>12, <1>17, <1>18 DEF IInv, Tables

LEMMA IssueStep ==
    ASSUME IInv, NEW c \in Client, Issue(c)
    PROVE  IInv'
<1>. DEFINE p == session[c].proposal
            row == [terms |-> session[c].terms, created_at |-> session[c].created_at,
                    version |-> proposals[p].version, expires_at |-> proposals[p].expires_at]
<1>1. session[c] \in Session /\ session[c].pc = "issue" /\ Fits(session[c])
  BY DEF IInv, TypeOK, HandlersFit, Issue
<1>2. p \in Proposal /\ session[c].terms \in Terms /\ session[c].created_at \in Nat
  BY <1>1, SessionFields
<1>3. /\ proposals[p] # None /\ proposals[p] \in Row
      /\ decisions[p] # None
  BY <1>1, <1>2 DEF Fits, IInv, TypeOK
<1>4. row \in Intent /\ row # None
  <2>1. row \in Intent
    BY <1>2, <1>3 DEF Intent, Row
  <2>. QED  BY <2>1, NoneIsNoRow
<1>5. /\ intents \in [Proposal -> Intent \cup {None}]
      /\ intents' = [intents EXCEPT ![p] = row]
      /\ UNCHANGED <<configurations, contexts, proposals, decisions>>
      /\ Go(c, Idle)
  BY DEF IInv, TypeOK, Issue
<1>6. /\ intents' \in [Proposal -> Intent \cup {None}]
      /\ intents'[p] = row
      /\ \A q \in Proposal : q # p => intents'[q] = intents[q]
  BY <1>2, <1>4, <1>5
<1>7. Cited'
  <2>. SUFFICES ASSUME NEW q \in Proposal, intents'[q] # None
                PROVE  /\ proposals[q] # None
                       /\ decisions[q] # None
                       /\ intents'[q].version = proposals[q].version
    BY <1>5, <1>6 DEF IInv, TypeOK, Tables, Cited, Stored
  <2>1. CASE q = p
    BY <1>3, <1>6, <2>1
  <2>2. CASE q # p
    BY <1>5, <1>6, <2>2 DEF IInv, Tables, Cited, Stored
  <2>. QED  BY <2>1, <2>2
<1>8. DecidedHasDecision'
  BY <1>5 DEF IInv, Tables, DecidedHasDecision, Stored
<1>9. IntentAuthorized'
  <2>. SUFFICES ASSUME NEW q \in Proposal, intents'[q] # None
                PROVE  /\ proposals[q].status = "APPROVED"
                       /\ decisions[q].action = "APPROVE"
                       /\ intents'[q].terms = proposals[q].terms
                       /\ intents'[q].terms = decisions[q].fingerprint
                       /\ intents'[q].created_at < proposals[q].expires_at
                       /\ intents'[q].created_at < decisions[q].expires_at
    BY <1>5, <1>6 DEF IntentAuthorized, Stored
  <2>1. CASE q = p
    <3>1. /\ session[c].created_at \in Nat
          /\ proposals[p].expires_at \in Nat
          /\ ~(session[c].created_at >= proposals[p].expires_at)
      BY <1>2, <1>3 DEF Issue, expired_at, Row
    <3>2. session[c].created_at < proposals[p].expires_at
      BY <3>1
    <3>. QED  BY <1>6, <2>1, <3>2 DEF Issue
  <2>2. CASE q # p
    BY <1>5, <1>6, <2>2 DEF IInv, Tables, IntentAuthorized, Stored
  <2>. QED  BY <2>1, <2>2
<1>10. Grows
  BY <1>5 DEF Grows, Stored
<1>11. /\ session' \in [Client -> Session]
       /\ session'[c] = Idle
       /\ \A d \in Client : d # c => session'[d] = session[d]
  BY <1>5, IdleFits DEF Go, IInv, TypeOK
<1>12. Fits(session[c])'
  BY <1>11 DEF Fits, Idle
<1>13. HandlersFit'
  BY <1>10, <1>11, <1>12, FitsGrow
<1>14. TypeOK'
  BY <1>5, <1>6, <1>11 DEF IInv, TypeOK, Stored
<1>. QED  BY <1>7, <1>8, <1>9, <1>13, <1>14 DEF IInv, Tables

------------------------------------------------------------------------------
(* The invariant *)

LEMMA InitInvariant == Init => IInv
<1>. SUFFICES ASSUME Init PROVE IInv
  OBVIOUS
<1>1. TypeOK
  BY IdleFits DEF Init, TypeOK, Stored
<1>2. Tables
  BY DEF Init, Tables, Cited, DecidedHasDecision, IntentAuthorized, Stored
<1>3. HandlersFit
  BY IdleFits DEF Init, HandlersFit
<1>. QED  BY <1>1, <1>2, <1>3 DEF IInv

LEMMA StepInvariant == IInv /\ [Next]_vars => IInv'
<1>. SUFFICES ASSUME IInv, [Next]_vars PROVE IInv'
  OBVIOUS
<1>1. ASSUME NEW v \in Version, NEW k \in Configuration, SaveOperatorTradingConfiguration(v, k)
      PROVE  IInv'
  BY <1>1, SaveOperatorTradingConfigurationStep
<1>2. ASSUME NEW v \in Version, OpenEvaluationContext(v)
      PROVE  IInv'
  BY <1>2, OpenEvaluationContextStep
<1>3. ASSUME NEW p \in Proposal, NEW v \in Version, NEW t \in Terms, NEW i \in Instant,
             PrepareTradeProposal(p, v, t, i)
      PROVE  IInv'
  BY <1>3, PrepareTradeProposalStep
<1>4. ASSUME NEW c \in Client, NEW v \in Version, NEW target \in {"ENGAGED", "DISENGAGED"},
             SetKillSwitchLoad(c, v, target)
      PROVE  IInv'
  BY <1>4, SetKillSwitchLoadStep
<1>5. ASSUME NEW c \in Client, SetKillSwitchSave(c)
      PROVE  IInv'
  BY <1>5, SetKillSwitchSaveStep
<1>6. ASSUME NEW c \in Client, NEW p \in Proposal, NEW a \in Action, NEW i \in Instant,
             DecideLoad(c, p, a, i)
      PROVE  IInv'
  BY <1>6, DecideLoadStep
<1>7. ASSUME NEW c \in Client, DecideAdmit(c) \/ DecideCommit(c) \/ DecideMove(c) \/ Issue(c)
      PROVE  IInv'
  BY <1>7, DecideAdmitStep, DecideCommitStep, DecideMoveStep, IssueStep
<1>8. ASSUME NEW c \in Client, NEW p \in Proposal, NEW i \in Instant, IssueLoad(c, p, i)
      PROVE  IInv'
  BY <1>8, IssueLoadStep
<1>9. ASSUME NEW c \in Client, NEW i \in Instant, SweepList(c, i)
      PROVE  IInv'
  BY <1>9, SweepListStep
<1>10. ASSUME NEW c \in Client, NEW p \in Proposal, SweepExpire(c, p)
       PROVE  IInv'
  BY <1>10, SweepMoveStep DEF SweepExpire
<1>11. ASSUME NEW c \in Client, NEW p \in Proposal, SweepInvalidate(c, p)
       PROVE  IInv'
  BY <1>11, SweepMoveStep DEF SweepInvalidate
<1>12. ASSUME NEW c \in Client, NEW p \in Proposal, SweepKeep(c, p)
       PROVE  IInv'
  BY <1>12, SweepKeepStep
<1>13. ASSUME NEW c \in Client, NEW v \in Version, SweepLookup(c, v)
       PROVE  IInv'
  BY <1>13, SweepLookupStep
<1>14. ASSUME NEW c \in Client, SweepReturn(c) \/ Stop(c)
       PROVE  IInv'
  BY <1>14, ReturnStep DEF SweepReturn, Stop, tables
<1>15. CASE UNCHANGED vars
  <2>1. TypeOK'
    BY <1>15 DEF vars, IInv, TypeOK, Stored
  <2>2. Tables'
    BY <1>15 DEF vars, IInv, Tables, Cited, DecidedHasDecision, IntentAuthorized, Stored
  <2>3. HandlersFit'
    BY <1>15 DEF vars, IInv, HandlersFit, Fits
  <2>. QED  BY <2>1, <2>2, <2>3 DEF IInv
<1>. QED
  BY <1>1, <1>2, <1>3, <1>4, <1>5, <1>6, <1>7, <1>8, <1>9, <1>10, <1>11, <1>12, <1>13, <1>14, <1>15
  DEF Next

\* The inductive invariant holds in every reachable state.
THEOREM Invariant == Spec => []IInv
  BY InitInvariant, StepInvariant, PTL DEF Spec

\* Tables and handlers' local states keep their types; in particular every
\* evaluation context is bound to a stored configuration version.
THEOREM TypeCorrect == Spec => []TypeOK
<1>1. IInv => TypeOK
  BY DEF IInv
<1>. QED  BY <1>1, Invariant, PTL

\* However the decide, issue and sweep handlers interleave, an intent exists
\* only for an APPROVED proposal, on its approval, with the approved terms and
\* within both expiries.
THEOREM IntentsAreAuthorized == Spec => []IntentAuthorized
<1>1. IInv => IntentAuthorized
  BY DEF IInv, Tables
<1>. QED  BY <1>1, Invariant, PTL

\* A decided status is backed by the one recorded decision that says so.
THEOREM DecidedProposalsHaveDecisions == Spec => []DecidedHasDecision
<1>1. IInv => DecidedHasDecision
  BY DEF IInv, Tables
<1>. QED  BY <1>1, Invariant, PTL

\* The configuration an intent cites is still the one that justified it.
THEOREM IntentsTraceToPolicy == Spec => []IntentTracesToPolicy
<1>1. IInv => IntentTracesToPolicy
  BY DEF IInv, TypeOK, Tables, Cited, IntentAuthorized, IntentTracesToPolicy, Stored
<1>. QED  BY <1>1, Invariant, PTL

------------------------------------------------------------------------------
(* History *)

\* What HistoryIsKept says of one step.
Kept ==
    /\ Keeps(configurations, configurations')
    /\ Keeps(decisions, decisions')
    /\ Keeps(intents, intents')
    /\ \A p \in Stored(proposals) :
          proposals'[p] # proposals[p] =>
             /\ proposals[p].status = "PREPARED"
             /\ proposals'[p] = [proposals[p] EXCEPT !.status = proposals'[p].status]

\* A step that leaves the tables alone.
LEMMA KeptUnchanged ==
    ASSUME UNCHANGED tables
    PROVE  Kept
  BY DEF Kept, Keeps, tables

LEMMA KeptSave ==
    ASSUME IInv, NEW v \in Version, NEW k, Save(v, k), UNCHANGED <<proposals, decisions, intents>>
    PROVE  Kept
  BY DEF Kept, Keeps, Save, Stored, IInv, TypeOK

\* A status update of a stored proposal.
LEMMA KeptMove ==
    ASSUME IInv, NEW p \in Proposal, NEW to \in Status, proposals[p] # None, set_status(p, to),
           UNCHANGED <<configurations, decisions, intents>>
    PROVE  Kept
<1>1. proposals \in [Proposal -> Row \cup {None}] /\ proposals[p] \in Row
  BY DEF IInv, TypeOK
<1>2. proposals' = [proposals EXCEPT ![p] = [proposals[p] EXCEPT !.status = to]]
  BY <1>1 DEF set_status
<1>3. proposals'[p] = [proposals[p] EXCEPT !.status = to] /\ proposals'[p].status = to
  BY <1>1, <1>2 DEF Row
<1>4. proposals'[p] # proposals[p] => proposals[p].status = "PREPARED"
  <2>1. CASE proposals[p].status = to
    BY <1>1, <1>3, <2>1 DEF Row
  <2>. QED  BY <2>1 DEF set_status, is_transition_allowed
<1>5. \A q \in Proposal : q # p => proposals'[q] = proposals[q]
  BY <1>1, <1>2
<1>. QED  BY <1>1, <1>3, <1>4, <1>5 DEF Kept, Keeps, Stored

LEMMA KeptStep == IInv /\ [Next]_vars => Kept \/ UNCHANGED vars
<1>. SUFFICES ASSUME IInv, Next PROVE Kept
  OBVIOUS
<1>1. ASSUME NEW v \in Version, NEW k \in Configuration, SaveOperatorTradingConfiguration(v, k)
      PROVE  Kept
  BY <1>1, KeptSave DEF SaveOperatorTradingConfiguration
<1>2. ASSUME NEW v \in Version, OpenEvaluationContext(v)
      PROVE  Kept
  BY <1>2 DEF OpenEvaluationContext, Kept, Keeps
<1>3. ASSUME NEW p \in Proposal, NEW v \in Version, NEW t \in Terms, NEW i \in Instant,
             PrepareTradeProposal(p, v, t, i)
      PROVE  Kept
  BY <1>3 DEF PrepareTradeProposal, Kept, Keeps, Stored, IInv, TypeOK
<1>4. ASSUME NEW c \in Client, SetKillSwitchSave(c)
      PROVE  Kept
  <2>1. CASE UNCHANGED configurations
    BY <1>4, <2>1, KeptUnchanged DEF SetKillSwitchSave, tables
  <2>2. CASE Save(session[c].version + 1,
                  [configurations[session[c].version] EXCEPT !.kill_switch = session[c].target])
    <3>0. session[c] \in Session /\ session[c].pc = "switch"
      BY <1>4 DEF IInv, TypeOK, SetKillSwitchSave
    <3>1. session[c].version \in Version /\ session[c].version < MaxVersion
      BY <1>4, <3>0, SessionFields DEF SetKillSwitchSave
    <3>2. session[c].version + 1 \in Version
      BY <3>1, BoundsAssumption DEF Version
    <3>. QED  BY <1>4, <2>2, <3>2, KeptSave DEF SetKillSwitchSave
  <2>. QED  BY <1>4, <2>1, <2>2 DEF SetKillSwitchSave
<1>5. ASSUME NEW c \in Client, DecideCommit(c)
      PROVE  Kept
  <2>1. session[c].proposal \in Proposal
    BY <1>5, SessionFields DEF IInv, TypeOK, DecideCommit
  <2>. QED  BY <1>5, <2>1 DEF DecideCommit, Kept, Keeps, Stored, IInv, TypeOK
<1>6. ASSUME NEW c \in Client, DecideMove(c)
      PROVE  Kept
  <2>1. session[c] \in Session /\ session[c].pc = "recorded" /\ Fits(session[c])
    BY <1>6 DEF IInv, TypeOK, HandlersFit, DecideMove
  <2>2. session[c].proposal \in Proposal /\ session[c].action \in Action
    BY <2>1, SessionFields
  <2>3. resulting_status(session[c].action) \in Status
    BY <2>2 DEF resulting_status, Action, Status, Decided
  <2>4. proposals[session[c].proposal] # None
    BY <2>1 DEF Fits
  <2>. QED  BY <1>6, <2>2, <2>3, <2>4, KeptMove DEF DecideMove
<1>7. ASSUME NEW c \in Client, Issue(c)
      PROVE  Kept
  <2>1. session[c].proposal \in Proposal
    BY <1>7, SessionFields DEF IInv, TypeOK, Issue
  <2>. QED  BY <1>7, <2>1 DEF Issue, Kept, Keeps, Stored, IInv, TypeOK
<1>8. ASSUME NEW c \in Client, NEW p \in Proposal, SweepExpire(c, p) \/ SweepInvalidate(c, p)
      PROVE  Kept
  <2>1. proposals[p] # None
    BY <1>8, AdvanceFits DEF SweepExpire, SweepInvalidate
  <2>. QED  BY <1>8, <2>1, KeptMove DEF SweepExpire, SweepInvalidate, Status
<1>9. ASSUME NEW c \in Client,
             \/ \E v \in Version, target \in {"ENGAGED", "DISENGAGED"} : SetKillSwitchLoad(c, v, target)
             \/ \E p \in Proposal, a \in Action, i \in Instant : DecideLoad(c, p, a, i)
             \/ DecideAdmit(c)
             \/ \E p \in Proposal, i \in Instant : IssueLoad(c, p, i)
             \/ \E i \in Instant : SweepList(c, i)
             \/ \E p \in Proposal : SweepKeep(c, p)
             \/ \E v \in Version : SweepLookup(c, v)
             \/ SweepReturn(c)
             \/ Stop(c)
      PROVE  Kept
  <2>1. UNCHANGED tables
    BY <1>9 DEF SetKillSwitchLoad, DecideLoad, DecideAdmit, IssueLoad, SweepList, SweepKeep,
                SweepLookup, SweepReturn, Stop, tables
  <2>. QED  BY <2>1, KeptUnchanged
<1>. QED
  BY <1>1, <1>2, <1>3, <1>4, <1>5, <1>6, <1>7, <1>8, <1>9 DEF Next

\* No handler rewrites a stored configuration, decision or intent, and of a
\* proposal only the status moves, away from PREPARED and never again.
THEOREM HistoryIsNeverRewritten == Spec => HistoryIsKept
<1>1. IInv /\ [Next]_vars => [Kept]_vars
  BY KeptStep
<1>2. Spec => [][Kept]_vars
  BY <1>1, Invariant, PTL DEF Spec
<1>. QED  BY <1>2 DEF HistoryIsKept, Kept

------------------------------------------------------------------------------
(* The sweep *)

\* SweepClearsStale for a handler in local state s, on one state of the table.
Cleared(s, rows) ==
    s.pc = "sweep" =>
       \A p \in s.done :
          rows[p].status = "PREPARED" =>
             /\ ~(s.as_of >= rows[p].expires_at)
             /\ s.cached \in 1..rows[p].version

LEMMA ClearedForAll == SweepClearsStale <=> \A c \in Client : Cleared(session[c], proposals)
  BY DEF SweepClearsStale, Cleared, expired_at

\* A sweep that takes no step stays right about the rows it is done with: all
\* another handler can do to a row in the queue is to take it out.
LEMMA StillCleared ==
    ASSUME IInv, Kept, NEW s \in Session, Fits(s), Cleared(s, proposals)
    PROVE  Cleared(s, proposals')
<1>. SUFFICES ASSUME s.pc = "sweep", NEW p \in s.done, proposals'[p].status = "PREPARED"
              PROVE  /\ ~(s.as_of >= proposals'[p].expires_at)
                     /\ s.cached \in 1..proposals'[p].version
  BY DEF Cleared
<1>1. p \in Proposal /\ p \in Stored(proposals) /\ proposals[p] \in Row
  BY SessionFields DEF Fits, Stored, IInv, TypeOK
<1>2. proposals'[p] # proposals[p] =>
        /\ proposals[p].status = "PREPARED"
        /\ proposals'[p] = [proposals[p] EXCEPT !.status = proposals'[p].status]
  BY <1>1 DEF Kept
<1>3. /\ proposals[p].status = "PREPARED"
      /\ proposals'[p].expires_at = proposals[p].expires_at
      /\ proposals'[p].version = proposals[p].version
  BY <1>1, <1>2 DEF Row
<1>. QED  BY <1>3 DEF Cleared

\* The client whose handler moved on to s is right about the rows; so are all.
LEMMA ClearedStep ==
    ASSUME IInv, SweepClearsStale, Kept, NEW c \in Client, NEW s, Go(c, s), Cleared(s, proposals')
    PROVE  SweepClearsStale'
<1>1. session' = [session EXCEPT ![c] = s] /\ session \in [Client -> Session]
  BY DEF Go, IInv, TypeOK
<1>2. ASSUME NEW d \in Client
      PROVE  Cleared(session'[d], proposals')
  <2>1. CASE d = c
    BY <1>1, <2>1
  <2>2. CASE d # c
    <3>1. session'[d] = session[d] /\ session[d] \in Session
      BY <1>1, <2>2
    <3>2. Fits(session[d]) /\ Cleared(session[d], proposals)
      BY ClearedForAll DEF IInv, HandlersFit
    <3>. QED  BY <3>1, <3>2, StillCleared
  <2>. QED  BY <2>1, <2>2
<1>. QED  BY <1>2 DEF SweepClearsStale, Cleared, expired_at

\* No handler moved.
LEMMA ClearedElsewhere ==
    ASSUME IInv, SweepClearsStale, Kept, UNCHANGED session
    PROVE  SweepClearsStale'
<1>1. ASSUME NEW d \in Client
      PROVE  Cleared(session'[d], proposals')
  <2>1. session'[d] = session[d] /\ session[d] \in Session
    BY DEF IInv, TypeOK
  <2>2. Fits(session[d]) /\ Cleared(session[d], proposals)
    BY ClearedForAll DEF IInv, HandlersFit
  <2>. QED  BY <2>1, <2>2, StillCleared
<1>. QED  BY <1>1 DEF SweepClearsStale, Cleared, expired_at

\* A handler that is in no sweep has nothing to be right about.
LEMMA NoSweepStep ==
    ASSUME IInv, SweepClearsStale, Kept, NEW c \in Client, NEW s, Go(c, s), s.pc # "sweep"
    PROVE  SweepClearsStale'
  BY ClearedStep DEF Cleared

LEMMA SweepListClears ==
    ASSUME IInv, SweepClearsStale, Kept, NEW c \in Client, NEW i \in Instant, SweepList(c, i)
    PROVE  SweepClearsStale'
<1>. DEFINE s == [pc |-> "sweep", as_of |-> i, cached |-> 0, done |-> {},
                  todo |-> {p \in Stored(proposals) : proposals[p].status = "PREPARED"}]
<1>1. Go(c, s)
  BY DEF SweepList
<1>2. s.done = {}
  OBVIOUS
<1>3. Cleared(s, proposals')
  BY <1>2 DEF Cleared
<1>. HIDE DEF s
<1>. QED  BY <1>1, <1>3, ClearedStep

\* Before the lookup nothing the sweep is done with is still in the queue.
LEMMA SweepLookupClears ==
    ASSUME IInv, SweepClearsStale, Kept, NEW c \in Client, NEW v \in Version, SweepLookup(c, v)
    PROVE  SweepClearsStale'
<1>. DEFINE s == [session[c] EXCEPT !.cached = v]
<1>1. session[c] \in Session /\ session[c].pc = "sweep" /\ session[c].cached = 0
  BY DEF IInv, TypeOK, SweepLookup
<1>2. s.pc = "sweep" /\ s.done = session[c].done
  BY <1>1 DEF Session
<1>3. Go(c, s) /\ proposals' = proposals
  BY DEF SweepLookup
<1>. HIDE DEF s
<1>4. \A p \in session[c].done : proposals[p].status # "PREPARED"
  BY <1>1, ClearedForAll DEF Cleared
<1>5. Cleared(s, proposals')
  BY <1>2, <1>3, <1>4 DEF Cleared
<1>. QED  BY <1>3, <1>5, ClearedStep

\* The row the sweep turns away from: it left the queue, or it is neither
\* expired nor superseded.
LEMMA AdvanceClears ==
    ASSUME IInv, SweepClearsStale, Kept, NEW c \in Client, NEW p \in Proposal,
           session[c].pc = "sweep", IsHead(c, p), Advance(c, p),
           proposals'[p].status = "PREPARED" =>
              /\ ~(session[c].as_of >= proposals'[p].expires_at)
              /\ session[c].cached \in 1..proposals'[p].version
    PROVE  SweepClearsStale'
<1>. DEFINE s == [session[c] EXCEPT !.todo = @ \ {p}, !.done = @ \cup {p}]
<1>1. session[c] \in Session /\ Fits(session[c]) /\ Cleared(session[c], proposals)
  BY ClearedForAll DEF IInv, TypeOK, HandlersFit
<1>2. Cleared(session[c], proposals')
  BY <1>1, StillCleared
<1>3. /\ s.pc = "sweep"
      /\ s.as_of = session[c].as_of
      /\ s.cached = session[c].cached
      /\ s.done = session[c].done \cup {p}
  BY <1>1 DEF Session
<1>4. Go(c, s)
  BY DEF Advance
<1>. HIDE DEF s
<1>5. Cleared(s, proposals')
  BY <1>2, <1>3 DEF Cleared
<1>. QED  BY <1>4, <1>5, ClearedStep

\* A status update takes the row out of the queue.
LEMMA SweepMoveClears ==
    ASSUME IInv, SweepClearsStale, Kept, NEW c \in Client, NEW p \in Proposal,
           session[c].pc = "sweep", IsHead(c, p), Advance(c, p),
           NEW to \in {"EXPIRED", "INVALIDATED"}, set_status(p, to)
    PROVE  SweepClearsStale'
<1>1. proposals \in [Proposal -> Row \cup {None}] /\ proposals[p] \in Row
  BY AdvanceFits DEF IInv, TypeOK
<1>2. proposals'[p] = [proposals[p] EXCEPT !.status = to]
  BY <1>1 DEF set_status
<1>3. proposals'[p].status = to
  BY <1>1, <1>2 DEF Row
<1>. QED  BY <1>3, AdvanceClears

LEMMA SweepKeepClears ==
    ASSUME IInv, SweepClearsStale, Kept, NEW c \in Client, NEW p \in Proposal, SweepKeep(c, p)
    PROVE  SweepClearsStale'
<1>1. /\ session[c].pc = "sweep" /\ IsHead(c, p) /\ Advance(c, p)
      /\ session[c].cached # 0
      /\ ~(session[c].as_of >= proposals[p].expires_at)
      /\ ~(session[c].cached > proposals[p].version)
      /\ proposals' = proposals
  BY DEF SweepKeep, expired_at, Superseded
<1>2. session[c] \in Session
  BY DEF IInv, TypeOK
<1>3. session[c].cached \in {0} \cup Version
  BY <1>1, <1>2 DEF Session
<1>4. proposals[p] \in Row
  BY <1>1, AdvanceFits DEF IInv, TypeOK
<1>5. proposals[p].version \in Version
  BY <1>4 DEF Row
<1>6. session[c].cached \in 1..proposals[p].version
  BY <1>1, <1>3, <1>5, BoundsAssumption DEF Version
<1>. QED  BY <1>1, <1>6, AdvanceClears

LEMMA SweepStep == IInv /\ SweepClearsStale /\ [Next]_vars => SweepClearsStale'
<1>. SUFFICES ASSUME IInv, SweepClearsStale, [Next]_vars PROVE SweepClearsStale'
  OBVIOUS
<1>1. CASE UNCHANGED vars
  BY <1>1 DEF vars, SweepClearsStale, expired_at
<1>. SUFFICES ASSUME Next, Kept PROVE SweepClearsStale'
  BY <1>1, KeptStep
<1>2. ASSUME \/ \E v \in Version, k \in Configuration : SaveOperatorTradingConfiguration(v, k)
             \/ \E v \in Version : OpenEvaluationContext(v)
             \/ \E p \in Proposal, v \in Version, t \in Terms, i \in Instant :
                   PrepareTradeProposal(p, v, t, i)
      PROVE  SweepClearsStale'
  <2>1. UNCHANGED session
    BY <1>2 DEF SaveOperatorTradingConfiguration, OpenEvaluationContext, PrepareTradeProposal
  <2>. QED  BY <2>1, ClearedElsewhere
<1>3. ASSUME NEW c \in Client,
             \/ SetKillSwitchSave(c) \/ DecideMove(c) \/ Issue(c) \/ SweepReturn(c) \/ Stop(c)
      PROVE  SweepClearsStale'
  <2>1. Go(c, Idle)
    BY <1>3 DEF SetKillSwitchSave, DecideMove, Issue, SweepReturn, Stop
  <2>2. Idle.pc # "sweep"
    BY DEF Idle
  <2>. QED  BY <2>1, <2>2, NoSweepStep
<1>4. ASSUME NEW c \in Client, NEW v \in Version, NEW target \in {"ENGAGED", "DISENGAGED"},
             SetKillSwitchLoad(c, v, target)
      PROVE  SweepClearsStale'
  <2>. DEFINE s == [pc |-> "switch", version |-> v, target |-> target]
  <2>1. Go(c, s) /\ s.pc # "sweep"
    BY <1>4 DEF SetKillSwitchLoad
  <2>. HIDE DEF s
  <2>. QED  BY <2>1, NoSweepStep
<1>5. ASSUME NEW c \in Client, NEW p \in Proposal, NEW a \in Action, NEW i \in Instant,
             DecideLoad(c, p, a, i)
      PROVE  SweepClearsStale'
  <2>. DEFINE s == [pc |-> "decide", proposal |-> p, action |-> a, decided_at |-> i]
  <2>1. Go(c, s) /\ s.pc # "sweep"
    BY <1>5 DEF DecideLoad
  <2>. HIDE DEF s
  <2>. QED  BY <2>1, NoSweepStep
<1>6. ASSUME NEW c \in Client, NEW p \in Proposal, NEW i \in Instant, IssueLoad(c, p, i)
      PROVE  SweepClearsStale'
  <2>. DEFINE s == [pc |-> "issue", proposal |-> p, terms |-> proposals[p].terms,
                    created_at |-> i]
  <2>1. Go(c, s) /\ s.pc # "sweep"
    BY <1>6 DEF IssueLoad
  <2>. HIDE DEF s
  <2>. QED  BY <2>1, NoSweepStep
<1>7. ASSUME NEW c \in Client, NEW pc \in {"admitted", "recorded"},
             session[c].pc \in {"decide", "admitted"}, Go(c, [session[c] EXCEPT !.pc = pc])
      PROVE  SweepClearsStale'
  <2>. DEFINE s == [session[c] EXCEPT !.pc = pc]
  <2>1. session[c] \in Session
    BY DEF IInv, TypeOK
  <2>2. Go(c, s) /\ s.pc # "sweep"
    BY <1>7, <2>1 DEF Session
  <2>. HIDE DEF s
  <2>. QED  BY <2>2, NoSweepStep
<1>8. ASSUME NEW c \in Client, DecideAdmit(c) \/ DecideCommit(c)
      PROVE  SweepClearsStale'
  BY <1>7, <1>8 DEF DecideAdmit, DecideCommit
<1>9. ASSUME NEW c \in Client,
             \/ \E i \in Instant : SweepList(c, i)
             \/ \E v \in Version : SweepLookup(c, v)
             \/ \E p \in Proposal : SweepKeep(c, p)
      PROVE  SweepClearsStale'
  BY <1>9, SweepListClears, SweepLookupClears, SweepKeepClears
<1>10. ASSUME NEW c \in Client, NEW p \in Proposal, SweepExpire(c, p) \/ SweepInvalidate(c, p)
       PROVE  SweepClearsStale'
  BY <1>10, SweepMoveClears DEF SweepExpire, SweepInvalidate
<1>. QED
  BY <1>2, <1>3, <1>4, <1>5, <1>6, <1>8, <1>9, <1>10 DEF Next

\* Whatever is decided, prepared or configured between the transactions of a
\* sweep, a proposal it has worked through and left in the queue had not
\* expired and was not superseded by the version it looked up.
THEOREM SweepsClearStale == Spec => []SweepClearsStale
<1>1. Init => SweepClearsStale
  BY DEF Init, SweepClearsStale, Idle
<1>. QED  BY <1>1, Invariant, SweepStep, PTL DEF Spec

==============================================================================
