---------------------------- MODULE ResearchSession ----------------------------
(***************************************************************************)
(* Daily research sessions: RunDailyResearchSessionHandler takes a session *)
(* through seven stages, each of which commits rows of its own and any of  *)
(* which may fail, and records the session once, at its end, as COMPLETED  *)
(* or FAILED.  Sessions of several operators run side by side.  Their      *)
(* candidates and plans are named by a digest of the session's runtime id, *)
(* four digits of it, so that two sessions may come up with one name.      *)
(* Briefs, comparisons and lists read what is stored.                      *)
(***************************************************************************)
EXTENDS ResearchChain

CONSTANTS
    Session,       \* runs of the command; a number is its runtime id
    Markets,       \* the histories to consider: symbol -> sequence of bars
    LastDay,       \* the last day the source has bars of
    Digests,       \* what the digest may yield for offsets 1, 2, ...
    AsOf,          \* the as-of days a session may have
    Equity,        \* account_equity values
    Risk           \* risk_percent, in hundredths of a percent

\* Bars are dated and end with LastDay; there is a name, never None, for every
\* offset a session may need.
ASSUME SessionAssumption ==
    /\ Session \subseteq Nat
    /\ LastDay \in Nat
    /\ AsOf \subseteq Nat
    /\ Equity \subseteq Int
    /\ \A m \in Markets :
          /\ Len(m) \in Nat /\ DOMAIN m = 1..Len(m)
          /\ \A u \in DOMAIN m : \A i \in DOMAIN m[u] : m[u][i].day \in 0..LastDay
    /\ \A d \in Digests, m \in Markets : \A offset \in 1..(Len(m) + 1) : d[offset] \in Nat \ {0}

VARIABLES
    market,        \* the bars of every symbol of the universe, in alphabetical order
    ask,           \* session -> what its command says
    at,            \* session -> where it is and what it holds in memory
    file,          \* artifact path -> the dataset written there
    rows,          \* governance, dataset, scan and backtest rows
    candidates,    \* DecisionCandidate rows
    plans,         \* TradePlan rows
    positions,     \* PositionPlan rows
    sessions,      \* ResearchSession rows
    held           \* positions the operator asserts to hold

vars == <<market, ask, at, file, rows, candidates, plans, positions, sessions, held>>

Stages == <<"GOVERNANCE_SETUP", "DATA_ACQUISITION", "DATASET_INTEGRITY_CHECK", "CANDIDATE_SCAN",
            "TRADE_PLANNING", "POSITION_SIZING", "BACKTEST_EVIDENCE">>

NoData == [of |-> 0, upto |-> 0]
Idle == [stage |-> 0, data |-> NoData, scan |-> << >>, decisions |-> << >>]

Init ==
    /\ market \in Markets
    /\ ask \in [Session -> [gov : Session, path : Session, as_of : AsOf, equity : Equity,
                            digest : Digests]]
    \* A session may repeat the governance id or the path of an earlier one;
    \* all size against one account.
    /\ \A s \in Session : ask[s].gov <= s /\ ask[s].path <= s
    /\ \A s, t \in Session : ask[s].equity = ask[t].equity
    /\ at = [s \in Session |-> Idle]
    /\ file = [p \in Session |-> NoData]
    /\ rows = {}
    /\ candidates = {}
    /\ plans = {}
    /\ positions = {}
    /\ sessions = {}
    /\ held = {}

------------------------------------------------------------------------------
(* Rows *)

Row(table, id, s) == [table |-> table, id |-> id, of |-> s]

Free(table, id) == \A r \in rows : ~(r.table = table /\ r.id = id)
FreeName(table, id) == \A r \in table : r.id # id

\* The rows of a function, those for the indices in I: their names are free,
\* and different.
Fresh(table, new, I) ==
    /\ \A i \in I : FreeName(table, new[i].id)
    /\ \A i, j \in I : new[i].id = new[j].id => i = j

Stored(table, new, I) == table \cup {new[i] : i \in I}

\* Mutant: a row whose name is taken is left out silently.
InsertOrIgnore(table, new) ==
    {Stored(table, new, {i \in DOMAIN new : FreeName(table, new[i].id)})}

\* add() of the rows in order, each in a transaction of its own: the results
\* it may leave when it gets through.  A taken name raises.
Insert(table, new) ==
    IF Fresh(table, new, DOMAIN new) THEN {Stored(table, new, DOMAIN new)} ELSE {}

\* The results it may leave when it raises at n, or after it: the rows before,
\* and the one at n when only its acknowledgement was lost.
Partial(table, new, n) ==
    {Stored(table, new, I) : I \in {J \in {{i \in DOMAIN new : i < n}, {i \in DOMAIN new : i <= n}} :
                                        Fresh(table, new, J)}}

\* PostgresDecisionCandidateRepository, PostgresTradePlanRepository and
\* PostgresPositionPlanRepository, whose governance ids are unique.
add_candidates(new) == Insert(candidates, new)
add_plans(new)      == Insert(plans, new)
add_positions(new)  == Insert(positions, new)

------------------------------------------------------------------------------
(* The end of a session *)

\* What is recorded of session s.  A session that fails while sizing records
\* no position plans, whatever its decisions cite.
Record(s, status, failed, decisions, sized) ==
    [gov |-> ask[s].gov, runtime |-> s, as_of |-> ask[s].as_of, status |-> status,
     failed |-> failed, data |-> at[s].data, decisions |-> decisions,
     position_plan_count |-> sized]

\* research_sessions.add(): the governance id may be taken, and then the
\* exception leaves the handler and nothing is recorded.
AddSession(record) ==
    sessions' = IF \E r \in sessions : r.gov = record.gov THEN sessions
                ELSE sessions \cup {record}

Over(s) == at' = [at EXCEPT ![s].stage = Len(Stages) + 1]

\* fail_session()
fail_session(s, decisions, sized) ==
    /\ AddSession(Record(s, "FAILED", Stages[at[s].stage], decisions, sized))
    /\ Over(s)

\* The process dies, or the last insert raises: nothing is recorded.
Abandon(s) ==
    /\ at[s].stage \in 1..Len(Stages)
    /\ Over(s)
    /\ UNCHANGED <<market, ask, file, rows, candidates, plans, positions, sessions, held>>

AtStage(s, name) == at[s].stage \in 1..Len(Stages) /\ Stages[at[s].stage] = name
GoOn(s) == at' = [at EXCEPT ![s].stage = @ + 1]

------------------------------------------------------------------------------
(* The stages *)

Start(s) ==
    /\ at[s] = Idle
    /\ at' = [at EXCEPT ![s].stage = 1]
    /\ UNCHANGED <<market, ask, file, rows, candidates, plans, positions, sessions, held>>

\* The campaign, the run and the package, by the suffix of the governance id.
governance_setup(s) ==
    /\ AtStage(s, "GOVERNANCE_SETUP")
    /\ LET new == <<Row("campaign", ask[s].gov, s), Row("run", ask[s].gov, s),
                    Row("package", ask[s].gov, s)>>
       IN  \/ /\ \A i \in DOMAIN new : Free(new[i].table, new[i].id)
              /\ rows' = rows \cup Range(new)
              /\ GoOn(s)
              /\ UNCHANGED sessions
           \/ /\ \E n \in 0..2 :
                    /\ \A i \in 1..n : Free(new[i].table, new[i].id)
                    /\ rows' = rows \cup Range(SubSeq(new, 1, n))
              /\ fail_session(s, << >>, 0)
    /\ UNCHANGED <<market, ask, file, candidates, plans, positions, held>>

\* The bars that are fetched end with the as-of day, or the source sends what
\* it has; the snapshot is stored and then the artifact written.
acquire_market_data(s) ==
    /\ AtStage(s, "DATA_ACQUISITION")
    /\ \/ \E upto \in {ask[s].as_of, LastDay} :
             /\ Free("dataset", ask[s].gov)
             /\ rows' = rows \cup {Row("dataset", ask[s].gov, s)}
             /\ file' = [file EXCEPT ![ask[s].path] = [of |-> s, upto |-> upto]]
             /\ at' = [at EXCEPT ![s].stage = @ + 1, ![s].data = [of |-> s, upto |-> upto]]
             /\ UNCHANGED sessions
       \/ /\ \/ UNCHANGED rows
             \/ Free("dataset", ask[s].gov) /\ rows' = rows \cup {Row("dataset", ask[s].gov, s)}
          /\ fail_session(s, << >>, 0)
          /\ UNCHANGED file
    /\ UNCHANGED <<market, ask, candidates, plans, positions, held>>

\* The artifact is read back and its hash compared with the one just written.
check_dataset_integrity(s) ==
    /\ AtStage(s, "DATASET_INTEGRITY_CHECK")
    /\ \/ /\ file[ask[s].path] = at[s].data
          /\ GoOn(s)
          /\ UNCHANGED sessions
       \/ fail_session(s, << >>, 0)
    /\ UNCHANGED <<market, ask, file, rows, candidates, plans, positions, held>>

Days(bars, upto) == {bars[i].day : i \in {j \in DOMAIN bars : bars[j].day <= upto}}

\* Mutant: the latest shared day of the dataset, whenever that is.
latest_shared_timestamp(series, data, as_of) ==
    LET shared == {d \in 0..LastDay : \A u \in DOMAIN series : d \in Days(series[u], data.upto)}
    IN  IF shared = {} THEN 0 ELSE Max(shared)

\* The latest day, not after as_of, of which every series has a bar; 0 if none.
derive_shared_evaluation_timestamp(series, data, as_of) ==
    LET shared == {d \in 0..as_of : \A u \in DOMAIN series : d \in Days(series[u], data.upto)}
    IN  IF shared = {} THEN 0 ELSE Max(shared)

\* The bars up to that day; too few of them is None.
derive_observation_window(bars, day) == SelectSeq(bars, LAMBDA bar : bar.day <= day)

\* What the strategy makes of each symbol; nothing if a window is missing.
Outcomes(series, data, as_of) ==
    LET day == derive_shared_evaluation_timestamp(series, data, as_of)
        window(u) == derive_observation_window(series[u], day)
    IN  IF day = 0 \/ \E u \in DOMAIN series : Len(window(u)) <= ReferenceWindow THEN << >>
        ELSE [u \in DOMAIN series |-> evaluate(window(u))]

\* The row of the candidate of symbol u.
CandidateOf(s, u, outcome) ==
    [id |-> ask[s].digest[u], of |-> s, symbol |-> u, outcome |-> outcome]

\* Every candidate is stored, then the scan that ranks them.
run_trading_opportunity_scan(s) ==
    /\ AtStage(s, "CANDIDATE_SCAN")
    /\ LET outcomes == Outcomes(market, at[s].data, ask[s].as_of)
           universe == [u \in DOMAIN outcomes |->
                           [symbol |-> u, candidate |-> ask[s].digest[u], outcome |-> outcomes[u]]]
           new == [u \in DOMAIN outcomes |-> CandidateOf(s, u, outcomes[u])]
       IN  \/ /\ outcomes # << >>
              /\ Rankable(universe)
              /\ candidates' \in add_candidates(new)
              /\ Free("scan", ask[s].gov)
              /\ rows' = rows \cup {Row("scan", ask[s].gov, s)}
              /\ at' = [at EXCEPT ![s].stage = @ + 1, ![s].scan = build_scan(universe)]
              /\ UNCHANGED sessions
           \/ /\ \/ UNCHANGED candidates
                 \/ \E n \in DOMAIN outcomes : candidates' \in Partial(candidates, new, n)
              /\ fail_session(s, << >>, 0)
              /\ UNCHANGED rows
    /\ UNCHANGED <<market, ask, file, plans, positions, held>>

\* The row of the plan of one entry of the scan, named by its rank.
PlanOf(s, e) ==
    LET plan == build_trade_plan(at[s].scan, e.candidate, e.outcome)
    IN  [id |-> ask[s].digest[e.rank], of |-> s, candidate |-> e.candidate,
         status |-> plan.status, reason |-> plan.reason, geometry |-> plan.geometry]

\* The decision a session records about an entry; 0 is None.
Decision(s, e) ==
    [rank |-> e.rank, symbol |-> e.symbol, candidate |-> e.candidate, long |-> e.outcome.long,
     plan |-> IF e.rank = 0 THEN 0 ELSE ask[s].digest[e.rank],
     plan_decision |-> IF e.rank = 0 THEN "none" ELSE PlanOf(s, e).status, position |-> 0]

\* Long candidates get a plan, in universe order.  A plan that cannot be
\* stored, or whose commit is not acknowledged, fails the session, with the
\* decisions made so far.
plan_trades(s) ==
    /\ AtStage(s, "TRADE_PLANNING")
    /\ LET scan == at[s].scan
           new == [i \in {j \in DOMAIN scan : scan[j].outcome.long} |-> PlanOf(s, scan[i])]
           decisions == [i \in DOMAIN scan |-> Decision(s, scan[i])]
       IN  \/ /\ plans' \in add_plans(new)
              /\ at' = [at EXCEPT ![s].stage = @ + 1, ![s].decisions = decisions]
              /\ UNCHANGED sessions
           \/ \E n \in DOMAIN new :
                /\ plans' \in Partial(plans, new, n)
                /\ fail_session(s, [i \in 1..(n - 1) |-> decisions[i]], 0)
    /\ UNCHANGED <<market, ask, file, rows, candidates, positions, held>>

\* The row of the position plan for a stored trade plan.
PositionFor(s, plan) ==
    LET sized == build_position_plan(plan, ask[s].equity, Risk)
    IN  [id |-> plan.id, of |-> s, plan |-> plan.id, status |-> sized.status,
         reason |-> sized.reason, quantity |-> sized.quantity, notional |-> sized.notional,
         at_risk |-> sized.at_risk, equity |-> sized.equity]

\* Plan and position plan of a decision are numbered by the same rank.
PositionOf(s, d) == PositionFor(s, CHOOSE p \in plans : p.id = d.plan)

\* Only an approved position plan is cited.
Sized(s, d) ==
    IF d.plan_decision = "APPROVED_PLAN" /\ PositionOf(s, d).status = "APPROVED_POSITION_PLAN"
    THEN [d EXCEPT !.position = PositionOf(s, d).id]
    ELSE d

size_positions(s) ==
    /\ AtStage(s, "POSITION_SIZING")
    /\ LET decisions == at[s].decisions
           approved == {i \in DOMAIN decisions : decisions[i].plan_decision = "APPROVED_PLAN"}
           new == [i \in approved |-> PositionOf(s, decisions[i])]
       IN  \/ /\ positions' \in add_positions(new)
              /\ at' = [at EXCEPT ![s].stage = @ + 1,
                                  ![s].decisions = [i \in DOMAIN decisions |-> Sized(s, decisions[i])]]
              /\ UNCHANGED sessions
           \/ \E n \in approved :
                /\ positions' \in Partial(positions, new, n)
                /\ fail_session(s, [i \in DOMAIN decisions |->
                                      IF i < n THEN Sized(s, decisions[i]) ELSE decisions[i]], 0)
    /\ UNCHANGED <<market, ask, file, rows, candidates, plans, held>>

PositionPlanCount(decisions) ==
    Cardinality({i \in DOMAIN decisions : decisions[i].position # 0})

\* The backtest of the whole dataset is stored; then the session is.
backtest_evidence(s) ==
    /\ AtStage(s, "BACKTEST_EVIDENCE")
    /\ LET decisions == at[s].decisions
           count == PositionPlanCount(decisions)
       IN  \/ /\ Free("backtest", ask[s].gov)
              /\ rows' = rows \cup {Row("backtest", ask[s].gov, s)}
              /\ AddSession(Record(s, "COMPLETED", "none", decisions, count))
              /\ Over(s)
           \/ /\ fail_session(s, decisions, count)
              /\ UNCHANGED rows
    /\ UNCHANGED <<market, ask, file, candidates, plans, positions, held>>

------------------------------------------------------------------------------
(* The operator acts on a plan, or on none, and may let go again *)

OperatorOpens ==
    /\ held = {}
    /\ \E p \in positions : \E cites \in {p.id, 0} :
          /\ p.status = "APPROVED_POSITION_PLAN"
          /\ held' = {[plan |-> cites, notional |-> p.notional]}
    /\ UNCHANGED <<market, ask, at, file, rows, candidates, plans, positions, sessions>>

OperatorCloses ==
    /\ held # {}
    /\ held' = {}
    /\ UNCHANGED <<market, ask, at, file, rows, candidates, plans, positions, sessions>>

Next ==
    \/ \E s \in Session :
          \/ Start(s)
          \/ governance_setup(s)
          \/ acquire_market_data(s)
          \/ check_dataset_integrity(s)
          \/ run_trading_opportunity_scan(s)
          \/ plan_trades(s)
          \/ size_positions(s)
          \/ backtest_evidence(s)
          \/ Abandon(s)
    \/ OperatorOpens
    \/ OperatorCloses

Spec == Init /\ [][Next]_vars

------------------------------------------------------------------------------
(* What is read from the store *)

\* find_most_recent_prior(): the latest as-of strictly before; the universe is
\* the same for all, and of two sessions of one day the later runtime id wins.
find_most_recent_prior(r) ==
    LET prior == {t \in sessions : t.as_of < r.as_of /\ t.runtime # r.runtime}
    IN  {t \in prior : \A u \in prior : u.as_of < t.as_of \/ (u.as_of = t.as_of /\ u.runtime <= t.runtime)}

DecisionsOf(r) == {r.decisions[i] : i \in DOMAIN r.decisions}

\* compare_session_decisions(), symbol by symbol.
compare_session_decisions(target, baseline) ==
    LET of(ds, u) == {d \in ds : d.symbol = u}
        same(a, b) == a.long = b.long /\ a.plan_decision = b.plan_decision
    IN  [u \in {d.symbol : d \in target \cup baseline} |->
            CASE of(baseline, u) = {} -> "NEW"
              [] of(target, u) = {}   -> "DROPPED"
              [] OTHER -> IF \E a \in of(target, u), b \in of(baseline, u) : same(a, b)
                          THEN "UNCHANGED" ELSE "CHANGED"]

\* Mutant: an approved plan without a position was rejected, in any session.
infer_rejection_always(r, d) ==
    IF d.position # 0 THEN (CHOOSE p \in positions : p.id = d.position).status
    ELSE IF d.plan_decision = "APPROVED_PLAN" THEN "REJECTED_POSITION_PLAN"
    ELSE "none"

\* _fetch_evidence(): the status of the position plan, which for an approved
\* plan of a completed session without one is inferred.
position_plan_status(r, d) ==
    IF d.position # 0 THEN (CHOOSE p \in positions : p.id = d.position).status
    ELSE IF r.status = "COMPLETED" /\ d.plan_decision = "APPROVED_PLAN"
    THEN "REJECTED_POSITION_PLAN"
    ELSE "none"

classify_attention_level(outcome, r, d) ==
    CASE /\ d.long /\ d.plan_decision = "APPROVED_PLAN"
         /\ position_plan_status(r, d) = "APPROVED_POSITION_PLAN" -> "ACTION_CANDIDATE"
      [] OTHER -> IF outcome = "CHANGED" \/ d.long THEN "REVIEW" ELSE "ROUTINE"

\* build_instrument_entries(): one entry per symbol of the session, and one for
\* each that the baseline had and the session has not.
build_instrument_entries(r, baseline, compared) ==
    {[symbol |-> d.symbol, level |-> classify_attention_level(compared[d.symbol], r, d),
      outcome |-> compared[d.symbol], status |-> position_plan_status(r, d), decision |-> d]
        : d \in DecisionsOf(r)}
    \cup {[symbol |-> d.symbol, level |-> "DROPPED", outcome |-> "DROPPED", status |-> "none",
           decision |-> d] : d \in {b \in baseline : compared[b.symbol] = "DROPPED"}}

\* The brief compares with the most recent prior session, if there is one.
build_daily_research_brief(r) ==
    LET baseline == UNION {DecisionsOf(t) : t \in find_most_recent_prior(r)}
    IN  build_instrument_entries(r, baseline,
                                 compare_session_decisions(DecisionsOf(r), baseline))

\* The approved position plans the brief assesses.
Requests(r) ==
    {LET p == CHOOSE p \in positions : p.id = d.position
     IN  [rank |-> d.rank, plan |-> p.id, notional |-> p.notional, equity |-> p.equity]
        : d \in {e \in DecisionsOf(r) : e.position # 0}}

------------------------------------------------------------------------------
(* Properties *)

\* The as-of firewall: whatever the source sent and whatever else wrote to the
\* artifact's path meanwhile, a session decides on every symbol, and gates it,
\* as it would have on a dataset of its own that ends with its as-of day.
NoLookAhead ==
    \A r \in sessions : r.decisions # << >> =>
        LET known == Outcomes(market, [of |-> r.runtime, upto |-> r.as_of], r.as_of)
        IN  /\ r.data.of = r.runtime
            /\ \A i \in DOMAIN r.decisions :
                  LET d == r.decisions[i]
                      as_candidate == <<[candidate |-> d.candidate]>>
                  IN  /\ d.symbol \in DOMAIN known
                      /\ d.long = known[d.symbol].long
                      /\ d.long => d.plan_decision =
                            build_trade_plan(as_candidate, d.candidate, known[d.symbol]).status

\* The record of a session, completed or failed anywhere, is about rows that
\* are stored and that are its own, although names collide, stages commit one
\* by one and any of them may be cut short: a decision's candidate is of its
\* symbol, its plan of its candidate, its position plan approved and of its
\* plan; and a completed session has gated every candidate it ranked.
SessionCitesItsOwn ==
    \A r \in sessions : \A d \in DecisionsOf(r) :
        /\ \E c \in candidates : /\ c.id = d.candidate /\ c.of = r.runtime
                                 /\ c.symbol = d.symbol /\ c.outcome.long = d.long
        /\ d.plan # 0 => \E p \in plans : /\ p.id = d.plan /\ p.of = r.runtime
                                          /\ p.candidate = d.candidate
                                          /\ p.status = d.plan_decision
        /\ d.position # 0 => \E p \in positions : /\ p.id = d.position /\ p.of = r.runtime
                                                  /\ p.plan = d.plan
                                                  /\ p.status = "APPROVED_POSITION_PLAN"
        /\ r.status = "COMPLETED" => (d.plan # 0 <=> d.long)

\* The brief of any stored session, at any time: one entry per symbol; an
\* action candidate has an approved position plan of that session, and a
\* completed session's approved position plans are all action candidates; and
\* the rejection the brief infers, without a row to cite, really took place.
BriefIsAccurate ==
    \A r \in sessions :
        LET brief == build_daily_research_brief(r)
            sized(e, status) == \E p \in positions : /\ p.of = r.runtime /\ p.status = status
                                                      /\ p.plan = e.decision.plan
        IN  /\ \A e, f \in brief : e.symbol = f.symbol => e = f
            /\ \A e \in brief :
                  /\ e.level = "ACTION_CANDIDATE" => sized(e, "APPROVED_POSITION_PLAN")
                  /\ e.status = "REJECTED_POSITION_PLAN" => sized(e, "REJECTED_POSITION_PLAN")
                  /\ /\ r.status = "COMPLETED" /\ e.outcome # "DROPPED"
                     /\ sized(e, "APPROVED_POSITION_PLAN")
                     => e.level = "ACTION_CANDIDATE"

\* What the two assessments admit can be held at once, with what is already
\* held: within the ceiling and the cap on positions, and no plan twice.  They
\* say the same when nothing is held.
FeasibilityWithinPolicy ==
    \A r \in sessions :
        LET asked == Requests(r)
            done == r.status = "COMPLETED"
            today == assess_same_day_capital_feasibility(asked, done)
            aware == assess_portfolio_aware_capital_feasibility(asked, held, done)
        IN  /\ today.committed <= Ceiling(asked)
            /\ Cardinality(today.fits) <= MaxConcurrent
            /\ aware.fits # {} =>
                  /\ aware.committed <= Ceiling(asked)
                  /\ Cardinality(held) + Cardinality(aware.fits) <= MaxConcurrent
                  /\ \A q \in aware.fits, p \in held : p.plan # q.plan
            /\ held = {} => aware.fits = today.fits

==============================================================================
