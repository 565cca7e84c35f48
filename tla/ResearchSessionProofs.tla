----------------------- MODULE ResearchSessionProofs -----------------------
(***************************************************************************)
(* Proofs about ResearchSession, for any number of sessions, symbols, bars *)
(* and days.                                                               *)
(*                                                                         *)
(* A session's record is about rows that were committed one by one, under  *)
(* names that may collide with another session's.  What makes it true is   *)
(* that add() raises on a taken name, so a row that was stored under a     *)
(* session's name is its own (OneEach), and that a session keeps in memory *)
(* only what it has stored (Under).                                        *)
(***************************************************************************)
EXTENDS ResearchSession, FiniteSetTheorems, WellFoundedInduction, TLAPS

\* The row of the position plan for the entry of symbol i.
PositionRow(s, i) == PositionFor(s, PlanOf(s, at[s].scan[i]))

\* An entry of a session's scan is what the strategy makes of its symbol on the
\* session's own data, and its candidate is stored under the session's name.
EntryFits(s, i) ==
    LET e == at[s].scan[i]
        known == Outcomes(market, at[s].data, ask[s].as_of)
    IN  /\ i \in DOMAIN market
        /\ i \in DOMAIN known
        /\ e.symbol = i
        /\ e.candidate = ask[s].digest[i]
        /\ e.outcome = known[i]
        /\ e.rank \in 0..(Len(market) + 1)
        /\ e.rank = 0 <=> ~e.outcome.long
        /\ CandidateOf(s, i, e.outcome) \in candidates

\* A decision is the one about its entry; the plan and the position plan it
\* cites are stored, are the session's own, and the latter is approved.
DecisionFits(s, i, d) ==
    LET e == at[s].scan[i]
    IN  /\ i \in DOMAIN at[s].scan
        /\ d = [Decision(s, e) EXCEPT !.position = d.position]
        /\ e.rank # 0 => PlanOf(s, e) \in plans
        /\ d.position # 0 => /\ d.position = d.plan
                             /\ d.plan_decision = "APPROVED_PLAN"
                             /\ PositionRow(s, i) \in positions
                             /\ PositionRow(s, i).status = "APPROVED_POSITION_PLAN"

\* Every approved plan was sized, and is cited if it could be.
DecisionDone(s, i, d) ==
    d.plan_decision = "APPROVED_PLAN" =>
        /\ PositionRow(s, i) \in positions
        /\ PositionRow(s, i).status = "APPROVED_POSITION_PLAN" => d.position # 0

\* Where a session is and what it holds in memory.
Under(s) ==
    /\ at[s].stage \in 0..8
    /\ at[s].stage < 5 => at[s].scan = << >>
    /\ at[s].stage \in 3..7 =>
          at[s].data.of = s /\ at[s].data.upto \in {ask[s].as_of, LastDay}
    /\ DOMAIN at[s].scan \in {{}, DOMAIN market}
    /\ \A i \in DOMAIN at[s].scan : EntryFits(s, i)
    /\ at[s].stage \in {6, 7} =>
          \A i \in DOMAIN at[s].decisions : DecisionFits(s, i, at[s].decisions[i])
    /\ at[s].stage = 7 =>
          \A i \in DOMAIN at[s].decisions : DecisionDone(s, i, at[s].decisions[i])

\* What the record of a session says.
Recorded(r) ==
    /\ r.runtime \in Session
    /\ r.as_of = ask[r.runtime].as_of
    /\ at[r.runtime].stage = 8
    /\ r.decisions # << >> => /\ r.data.of = r.runtime
                              /\ r.data = at[r.runtime].data
                              /\ r.data.upto \in {r.as_of, LastDay}
    /\ \A i \in DOMAIN r.decisions : DecisionFits(r.runtime, i, r.decisions[i])
    /\ r.status = "COMPLETED" =>
          \A i \in DOMAIN r.decisions : DecisionDone(r.runtime, i, r.decisions[i])

\* A position plan was sized by the session it names, for a plan of its own.
PositionFits(p) ==
    /\ p.of \in Session
    /\ \E i \in DOMAIN at[p.of].scan :
          /\ at[p.of].scan[i].rank # 0
          /\ p = PositionRow(p.of, i)
          /\ PlanOf(p.of, at[p.of].scan[i]) \in plans

\* A name is given to one row of a table only.
OneEach ==
    /\ \A p, q \in plans : p.id = q.id => p = q
    /\ \A p, q \in positions : p.id = q.id => p = q
    /\ \A r, t \in sessions : r.runtime = t.runtime => r = t

Shape ==
    at = [s \in Session |-> [stage |-> at[s].stage, data |-> at[s].data, scan |-> at[s].scan,
                             decisions |-> at[s].decisions]]

SessionTypeOK ==
    /\ market \in Markets
    /\ ask \in [Session -> [gov : Session, path : Session, as_of : AsOf, equity : Equity,
                            digest : Digests]]
    /\ Shape
    /\ held = {} \/ \E p : held = {p}

SessionInv ==
    /\ SessionTypeOK
    /\ OneEach
    /\ \A s \in Session : Under(s)
    /\ \A r \in sessions : Recorded(r)
    /\ \A p \in positions : PositionFits(p)

------------------------------------------------------------------------------
(* Steps in general *)

\* A session at a named stage is at that number of the seven.
LEMMA StageNumbers ==
    ASSUME NEW s
    PROVE  /\ Len(Stages) = 7
           /\ AtStage(s, "GOVERNANCE_SETUP") => at[s].stage = 1
           /\ AtStage(s, "DATA_ACQUISITION") => at[s].stage = 2
           /\ AtStage(s, "DATASET_INTEGRITY_CHECK") => at[s].stage = 3
           /\ AtStage(s, "CANDIDATE_SCAN") => at[s].stage = 4
           /\ AtStage(s, "TRADE_PLANNING") => at[s].stage = 5
           /\ AtStage(s, "POSITION_SIZING") => at[s].stage = 6
           /\ AtStage(s, "BACKTEST_EVIDENCE") => at[s].stage = 7
<1>1. Len(Stages) = 7
  BY DEF Stages
<1>2. /\ Stages[1] = "GOVERNANCE_SETUP" /\ Stages[2] = "DATA_ACQUISITION"
      /\ Stages[3] = "DATASET_INTEGRITY_CHECK" /\ Stages[4] = "CANDIDATE_SCAN"
      /\ Stages[5] = "TRADE_PLANNING" /\ Stages[6] = "POSITION_SIZING"
      /\ Stages[7] = "BACKTEST_EVIDENCE"
  BY DEF Stages
<1>3. ASSUME NEW k \in 1..7  PROVE k = 1 \/ k = 2 \/ k = 3 \/ k = 4 \/ k = 5 \/ k = 6 \/ k = 7
  OBVIOUS
<1>. QED  BY <1>1, <1>2, <1>3 DEF AtStage

\* What a step of session s leaves in memory.
Becomes(s, stage, data, scan, decisions) ==
    /\ at'[s].stage = stage /\ at'[s].data = data /\ at'[s].scan = scan
    /\ at'[s].decisions = decisions
    /\ \A q \in Session \ {s} : at'[q] = at[q]
    /\ Shape'

\* A session that replaces all it keeps in memory.
LEMMA Memory ==
    ASSUME Shape, NEW s \in Session, NEW k, NEW data, NEW scan, NEW decisions,
           at' = [at EXCEPT ![s] = [stage |-> k, data |-> data, scan |-> scan,
                                    decisions |-> decisions]]
    PROVE  Becomes(s, k, data, scan, decisions)
<1>1. at'[s] = [stage |-> k, data |-> data, scan |-> scan, decisions |-> decisions]
  BY DEF Shape
<1>2. \A q \in Session \ {s} : at'[q] = at[q]
  BY DEF Shape
<1>3. Shape'
  <2>1. DOMAIN at' = Session /\ at' = [q \in Session |-> at'[q]]
    BY DEF Shape
  <2>2. ASSUME NEW q \in Session
        PROVE  at'[q] = [stage |-> at'[q].stage, data |-> at'[q].data, scan |-> at'[q].scan,
                         decisions |-> at'[q].decisions]
    <3>1. CASE q = s
      BY <1>1, <3>1
    <3>2. CASE q # s
      BY <1>2, <3>2 DEF Shape
    <3>. QED  BY <3>1, <3>2
  <2>. QED  BY <2>1, <2>2 DEF Shape
<1>. QED  BY <1>1, <1>2, <1>3 DEF Becomes

\* A session that only moves to a stage.
LEMMA StageStep ==
    ASSUME Shape, NEW s \in Session, NEW k, at' = [at EXCEPT ![s].stage = k]
    PROVE  Becomes(s, k, at[s].data, at[s].scan, at[s].decisions)
<1>1. at[s] = [stage |-> at[s].stage, data |-> at[s].data, scan |-> at[s].scan,
               decisions |-> at[s].decisions]
  BY DEF Shape
<1>2. [at[s] EXCEPT !.stage = k] = [stage |-> k, data |-> at[s].data, scan |-> at[s].scan,
                                    decisions |-> at[s].decisions]
  BY <1>1
<1>3. at' = [at EXCEPT ![s] = [stage |-> k, data |-> at[s].data, scan |-> at[s].scan,
                               decisions |-> at[s].decisions]]
  BY <1>2
<1>. QED  BY <1>3, Memory

\* A session that moves on with the data it has acquired.
LEMMA DataStep ==
    ASSUME Shape, NEW s \in Session, NEW data,
           at' = [at EXCEPT ![s].stage = @ + 1, ![s].data = data]
    PROVE  Becomes(s, at[s].stage + 1, data, at[s].scan, at[s].decisions)
<1>. PICK m, k : m = at[s] /\ k = at[s].stage + 1
  OBVIOUS
<1>1. at' = [at EXCEPT ![s] = [[@ EXCEPT !.stage = k] EXCEPT !.data = data]]
  BY DEF Shape
<1>2. m = [stage |-> m.stage, data |-> m.data, scan |-> m.scan, decisions |-> m.decisions]
  BY DEF Shape
<1>3. [[m EXCEPT !.stage = k] EXCEPT !.data = data]
        = [stage |-> k, data |-> data, scan |-> m.scan, decisions |-> m.decisions]
  <2>. DEFINE n == [stage |-> k, data |-> m.data, scan |-> m.scan, decisions |-> m.decisions]
  <2>1. [m EXCEPT !.stage = k] = n
    BY <1>2
  <2>2. [n EXCEPT !.data = data] = [stage |-> k, data |-> data, scan |-> m.scan, decisions |-> m.decisions]
    OBVIOUS
  <2>. QED  BY <2>1, <2>2
<1>4. at' = [at EXCEPT ![s] = [stage |-> k, data |-> data, scan |-> at[s].scan,
                               decisions |-> at[s].decisions]]
  BY <1>1, <1>3
<1>. QED  BY <1>4, Memory

\* A session that moves on with the scan it has made.
LEMMA ScanStep ==
    ASSUME Shape, NEW s \in Session, NEW scan,
           at' = [at EXCEPT ![s].stage = @ + 1, ![s].scan = scan]
    PROVE  Becomes(s, at[s].stage + 1, at[s].data, scan, at[s].decisions)
<1>. PICK m, k : m = at[s] /\ k = at[s].stage + 1
  OBVIOUS
<1>1. at' = [at EXCEPT ![s] = [[@ EXCEPT !.stage = k] EXCEPT !.scan = scan]]
  BY DEF Shape
<1>2. m = [stage |-> m.stage, data |-> m.data, scan |-> m.scan, decisions |-> m.decisions]
  BY DEF Shape
<1>3. [[m EXCEPT !.stage = k] EXCEPT !.scan = scan]
        = [stage |-> k, data |-> m.data, scan |-> scan, decisions |-> m.decisions]
  <2>. DEFINE n == [stage |-> k, data |-> m.data, scan |-> m.scan, decisions |-> m.decisions]
  <2>1. [m EXCEPT !.stage = k] = n
    BY <1>2
  <2>2. [n EXCEPT !.scan = scan] = [stage |-> k, data |-> m.data, scan |-> scan, decisions |-> m.decisions]
    OBVIOUS
  <2>. QED  BY <2>1, <2>2
<1>4. at' = [at EXCEPT ![s] = [stage |-> k, data |-> at[s].data, scan |-> scan,
                               decisions |-> at[s].decisions]]
  BY <1>1, <1>3
<1>. QED  BY <1>4, Memory

\* A session that moves on with the decisions it has taken.
LEMMA DecideStep ==
    ASSUME Shape, NEW s \in Session, NEW decisions,
           at' = [at EXCEPT ![s].stage = @ + 1, ![s].decisions = decisions]
    PROVE  Becomes(s, at[s].stage + 1, at[s].data, at[s].scan, decisions)
<1>. PICK m, k : m = at[s] /\ k = at[s].stage + 1
  OBVIOUS
<1>1. at' = [at EXCEPT ![s] = [[@ EXCEPT !.stage = k] EXCEPT !.decisions = decisions]]
  BY DEF Shape
<1>2. m = [stage |-> m.stage, data |-> m.data, scan |-> m.scan, decisions |-> m.decisions]
  BY DEF Shape
<1>3. [[m EXCEPT !.stage = k] EXCEPT !.decisions = decisions]
        = [stage |-> k, data |-> m.data, scan |-> m.scan, decisions |-> decisions]
  <2>. DEFINE n == [stage |-> k, data |-> m.data, scan |-> m.scan, decisions |-> m.decisions]
  <2>1. [m EXCEPT !.stage = k] = n
    BY <1>2
  <2>2. [n EXCEPT !.decisions = decisions] = [stage |-> k, data |-> m.data, scan |-> m.scan, decisions |-> decisions]
    OBVIOUS
  <2>. QED  BY <2>1, <2>2
<1>4. at' = [at EXCEPT ![s] = [stage |-> k, data |-> at[s].data,
                               scan |-> at[s].scan, decisions |-> decisions]]
  BY <1>1, <1>3
<1>. QED  BY <1>4, Memory

\* What is stored stays, so what was said about it stays true.
Grows ==
    /\ UNCHANGED <<market, ask>>
    /\ candidates \subseteq candidates'
    /\ plans \subseteq plans'
    /\ positions \subseteq positions'

\* What holds of a session's entries and decisions goes on holding when the
\* tables only grow.
LEMMA StaysTrue ==
    ASSUME Grows, NEW s \in Session, at'[s].scan = at[s].scan, at'[s].data = at[s].data
    PROVE  /\ \A i : PlanOf(s, at[s].scan[i])' = PlanOf(s, at[s].scan[i])
           /\ \A i : PositionRow(s, i)' = PositionRow(s, i)
           /\ \A i : EntryFits(s, i) => EntryFits(s, i)'
           /\ \A i, d : DecisionFits(s, i, d) => DecisionFits(s, i, d)'
           /\ \A i, d : DecisionDone(s, i, d) => DecisionDone(s, i, d)'
<1>1. \A i : PlanOf(s, at[s].scan[i])' = PlanOf(s, at[s].scan[i])
  BY DEF Grows, PlanOf
<1>2. \A i : PositionRow(s, i)' = PositionRow(s, i)
  BY <1>1 DEF Grows, PositionRow, PositionFor
<1>3. \A i : Decision(s, at[s].scan[i])' = Decision(s, at[s].scan[i])
  BY <1>1 DEF Grows, Decision
<1>4. \A i : EntryFits(s, i) => EntryFits(s, i)'
  BY DEF Grows, EntryFits, CandidateOf
<1>5. \A i, d : DecisionFits(s, i, d) => DecisionFits(s, i, d)'
  BY <1>1, <1>2, <1>3 DEF Grows, DecisionFits
<1>6. \A i, d : DecisionDone(s, i, d) => DecisionDone(s, i, d)'
  BY <1>2 DEF Grows, DecisionDone
<1>. QED  BY <1>1, <1>2, <1>4, <1>5, <1>6

\* A step of session s: the other sessions, the records and the position plans
\* are as they were.
LEMMA SessionStep ==
    ASSUME SessionInv, Grows, NEW s \in Session, at[s].stage # 8, SessionTypeOK', OneEach',
           \A q \in Session \ {s} : at'[q] = at[q],
           at'[s].scan = at[s].scan \/ at[s].scan = << >>,
           Under(s)',
           \A r \in sessions' \ sessions : Recorded(r)',
           \A p \in positions' \ positions : PositionFits(p)'
    PROVE  SessionInv'
<1>1. ASSUME NEW q \in Session \ {s}  PROVE Under(q)'
  <2>1. Under(q) /\ at'[q] = at[q] /\ UNCHANGED <<market, ask>>
    BY <1>1 DEF SessionInv, Grows
  <2>2. /\ \A i : EntryFits(q, i) => EntryFits(q, i)'
        /\ \A i, d : DecisionFits(q, i, d) => DecisionFits(q, i, d)'
        /\ \A i, d : DecisionDone(q, i, d) => DecisionDone(q, i, d)'
    BY <2>1, StaysTrue
  <2>. QED  BY <2>1, <2>2 DEF Under
<1>2. ASSUME NEW r \in sessions  PROVE Recorded(r)'
  <2>1. Recorded(r) /\ UNCHANGED <<market, ask>>
    BY <1>2 DEF SessionInv, Grows
  <2>2. r.runtime \in Session /\ at'[r.runtime] = at[r.runtime]
    BY <2>1 DEF Recorded
  <2>3. /\ \A i, d : DecisionFits(r.runtime, i, d) => DecisionFits(r.runtime, i, d)'
        /\ \A i, d : DecisionDone(r.runtime, i, d) => DecisionDone(r.runtime, i, d)'
    BY <2>2, StaysTrue
  <2>. QED  BY <2>1, <2>2, <2>3 DEF Recorded
<1>3. ASSUME NEW p \in positions  PROVE PositionFits(p)'
  <2>1. PositionFits(p)
    BY <1>3 DEF SessionInv
  <2>2. p.of \in Session /\ at'[p.of].scan = at[p.of].scan
    BY <2>1 DEF PositionFits
  <2>3. \A i : PlanOf(p.of, at[p.of].scan[i])' = PlanOf(p.of, at[p.of].scan[i])
    BY <2>2 DEF Grows, PlanOf
  <2>4. \A i : PositionRow(p.of, i)' = PositionRow(p.of, i)
    BY <2>3 DEF Grows, PositionRow, PositionFor
  <2>. QED  BY <2>1, <2>2, <2>3, <2>4 DEF PositionFits, Grows
<1>. QED  BY <1>1, <1>2, <1>3 DEF SessionInv

\* A session that ends keeps what it had in memory.
LEMMA OverStep ==
    ASSUME Shape, NEW s \in Session, Over(s)
    PROVE  Becomes(s, 8, at[s].data, at[s].scan, at[s].decisions)
<1>1. Len(Stages) + 1 = 8
  BY DEF Stages
<1>2. at' = [at EXCEPT ![s].stage = 8]
  BY <1>1 DEF Over
<1>. QED  BY <1>2, StageStep

\* A session ends, with or without a record of it.
LEMMA EndStep ==
    ASSUME SessionInv, Grows, UNCHANGED held, NEW s \in Session, at[s].stage \in 1..7, Over(s),
           OneEach',
           \A r \in sessions' \ sessions : Recorded(r)',
           \A p \in positions' \ positions : PositionFits(p)'
    PROVE  SessionInv'
<1>1. Shape /\ Under(s)
  BY DEF SessionInv, SessionTypeOK
<1>2. Becomes(s, 8, at[s].data, at[s].scan, at[s].decisions)
  BY <1>1, OverStep
<1>3. SessionTypeOK'
  BY <1>2 DEF SessionInv, SessionTypeOK, Grows, Becomes
<1>4. Under(s)'
  <2>1. \A i : EntryFits(s, i) => EntryFits(s, i)'
    BY <1>2, StaysTrue DEF Becomes
  <2>. QED  BY <1>1, <1>2, <2>1 DEF Under, Becomes, Grows
<1>. QED  BY <1>2, <1>3, <1>4, SessionStep DEF Becomes

\* What a recorded session's row says is so afterwards.
LEMMA RecordStep ==
    ASSUME SessionInv, Grows, UNCHANGED held, NEW s \in Session, at[s].stage \in 1..7, Over(s),
           NEW status, NEW failed, NEW ds, NEW count,
           AddSession(Record(s, status, failed, ds, count)),
           \A p, q \in plans' : p.id = q.id => p = q,
           \A p, q \in positions' : p.id = q.id => p = q,
           \A p \in positions' \ positions : PositionFits(p)',
           ds # << >> => at[s].stage \in 3..7,
           \A i \in DOMAIN ds : DecisionFits(s, i, ds[i])',
           status = "COMPLETED" => \A i \in DOMAIN ds : DecisionDone(s, i, ds[i])'
    PROVE  SessionInv'
<1>1. Shape /\ Under(s) /\ \A r \in sessions : Recorded(r)
  BY DEF SessionInv, SessionTypeOK
<1>2. Becomes(s, 8, at[s].data, at[s].scan, at[s].decisions)
  BY <1>1, OverStep
<1>3. PICK r : r = Record(s, status, failed, ds, count)
  OBVIOUS
<1>4. /\ r.runtime = s /\ r.as_of = ask[s].as_of /\ r.status = status /\ r.data = at[s].data
      /\ r.decisions = ds
  BY <1>3 DEF Record
<1>5. \A t \in sessions' : t \in sessions \/ t = r
  BY <1>3 DEF AddSession
<1>6. Recorded(r)'
  <2>1. r.runtime \in Session /\ r.as_of = ask'[r.runtime].as_of /\ at'[r.runtime].stage = 8
    BY <1>2, <1>4 DEF Becomes, Grows
  <2>2. r.decisions # << >> => /\ r.data.of = r.runtime /\ r.data = at'[r.runtime].data
                               /\ r.data.upto \in {r.as_of, LastDay}
    BY <1>1, <1>2, <1>4 DEF Becomes, Under
  <2>3. \A i \in DOMAIN r.decisions : DecisionFits(r.runtime, i, r.decisions[i])'
    BY <1>4
  <2>4. r.status = "COMPLETED" =>
          \A i \in DOMAIN r.decisions : DecisionDone(r.runtime, i, r.decisions[i])'
    BY <1>4
  <2>. QED  BY <2>1, <2>2, <2>3, <2>4 DEF Recorded
<1>7. OneEach'
  <2>1. \A t \in sessions : t.runtime # s
    BY <1>1 DEF Recorded
  <2>2. \A t, u \in sessions' : t.runtime = u.runtime => t = u
    BY <1>4, <1>5, <2>1 DEF SessionInv, OneEach
  <2>. QED  BY <2>2 DEF OneEach
<1>. QED  BY <1>5, <1>6, <1>7, EndStep

------------------------------------------------------------------------------
(* The stages *)

\* The invariant holds at the start.
LEMMA SessionInvInit == Init => SessionInv
<1>. SUFFICES ASSUME Init PROVE SessionInv
  OBVIOUS
<1>1. SessionTypeOK
  BY DEF Init, SessionTypeOK, Shape, Idle
<1>2. ASSUME NEW s \in Session  PROVE Under(s)
  BY DEF Init, Under, Idle
<1>. QED  BY <1>1, <1>2 DEF Init, SessionInv, OneEach

\* A session starts, goes on without storing a row, or dies.
LEMMA PlainSteps ==
    ASSUME SessionInv, NEW s \in Session, Start(s) \/ Abandon(s)
    PROVE  SessionInv'
<1>1. Shape /\ Under(s) /\ OneEach
  BY DEF SessionInv, SessionTypeOK
<1>2. CASE Start(s)
  <2>1. Grows /\ UNCHANGED <<positions, sessions, plans, held>>
    BY <1>2 DEF Start, Grows
  <2>2. at[s].stage = 0 /\ at[s].scan = << >>
    BY <1>2 DEF Start, Idle
  <2>3. Becomes(s, 1, at[s].data, at[s].scan, at[s].decisions)
    BY <1>1, <1>2, StageStep DEF Start
  <2>4. SessionTypeOK' /\ OneEach'
    BY <1>1, <2>1, <2>3 DEF SessionInv, SessionTypeOK, Grows, Becomes, OneEach
  <2>5. Under(s)'
    BY <2>2, <2>3 DEF Under, Becomes
  <2>. QED  BY <2>1, <2>2, <2>3, <2>4, <2>5, SessionStep DEF Becomes
<1>3. CASE Abandon(s)
  <2>1. Grows /\ UNCHANGED <<positions, sessions, plans, held>> /\ Over(s)
    BY <1>3 DEF Abandon, Grows
  <2>2. at[s].stage \in 1..7
    BY <1>3 DEF Abandon, Stages
  <2>3. OneEach'
    BY <1>1, <2>1 DEF OneEach
  <2>. QED  BY <2>1, <2>2, <2>3, EndStep
<1>. QED  BY <1>2, <1>3

\* A stage that fails without a word about decisions.
LEMMA FailSilently ==
    ASSUME SessionInv, Grows, UNCHANGED <<held, plans, positions>>, NEW s \in Session,
           at[s].stage \in 1..7, NEW sized, fail_session(s, << >>, sized)
    PROVE  SessionInv'
<1>1. Over(s) /\ AddSession(Record(s, "FAILED", Stages[at[s].stage], << >>, sized))
  BY DEF fail_session
<1>2. /\ \A p, q \in plans' : p.id = q.id => p = q
      /\ \A p, q \in positions' : p.id = q.id => p = q
  BY DEF SessionInv, OneEach
<1>3. DOMAIN << >> = {}
  OBVIOUS
<1>. QED  BY <1>1, <1>2, <1>3, RecordStep

\* The first three stages.
LEMMA EarlyStages ==
    ASSUME SessionInv, NEW s \in Session,
           governance_setup(s) \/ acquire_market_data(s) \/ check_dataset_integrity(s)
    PROVE  SessionInv'
<1>1. Shape /\ Under(s) /\ OneEach
  BY DEF SessionInv, SessionTypeOK
<1>2. Grows /\ UNCHANGED <<positions, plans, held>>
  BY DEF governance_setup, acquire_market_data, check_dataset_integrity, Grows
<1>3. at[s].stage \in 1..3 /\ at[s].scan = << >>
  BY <1>1, StageNumbers DEF governance_setup, acquire_market_data, check_dataset_integrity, Under
<1>4. ASSUME fail_session(s, << >>, 0)  PROVE SessionInv'
  BY <1>2, <1>3, <1>4, FailSilently
<1>5. ASSUME NEW data, Becomes(s, at[s].stage + 1, data, at[s].scan, at[s].decisions),
             UNCHANGED sessions,
             at[s].stage \in {2, 3} => data.of = s /\ data.upto \in {ask[s].as_of, LastDay}
      PROVE  SessionInv'
  <2>1. SessionTypeOK' /\ OneEach'
    BY <1>1, <1>2, <1>5 DEF SessionInv, SessionTypeOK, Grows, Becomes, OneEach
  <2>2. at[s].stage + 1 \in 2..4
    BY <1>3
  <2>3. Under(s)'
    BY <1>2, <1>3, <1>5, <2>2 DEF Under, Becomes, Grows
  <2>. QED  BY <1>2, <1>3, <1>5, <2>1, <2>3, SessionStep DEF Becomes
<1>6. CASE governance_setup(s)
  <2>1. at[s].stage = 1
    BY <1>6, StageNumbers DEF governance_setup
  <2>2. ASSUME GoOn(s), UNCHANGED sessions PROVE SessionInv'
    <3>1. Becomes(s, at[s].stage + 1, at[s].data, at[s].scan, at[s].decisions)
      BY <1>1, <2>2, StageStep DEF GoOn
    <3>. QED  BY <1>5, <2>1, <2>2, <3>1
  <2>. QED  BY <1>4, <1>6, <2>2 DEF governance_setup
<1>7. CASE acquire_market_data(s)
  <2>1. ASSUME NEW upto \in {ask[s].as_of, LastDay}, UNCHANGED sessions,
               at' = [at EXCEPT ![s].stage = @ + 1, ![s].data = [of |-> s, upto |-> upto]]
        PROVE  SessionInv'
    <3>1. PICK data : data = [of |-> s, upto |-> upto]
      OBVIOUS
    <3>2. Becomes(s, at[s].stage + 1, data, at[s].scan, at[s].decisions)
      BY <1>1, <2>1, <3>1, DataStep
    <3>. QED  BY <1>5, <2>1, <3>1, <3>2
  <2>. QED  BY <1>4, <1>7, <2>1 DEF acquire_market_data
<1>8. CASE check_dataset_integrity(s)
  <2>1. at[s].stage = 3
    BY <1>8, StageNumbers DEF check_dataset_integrity
  <2>2. ASSUME GoOn(s), UNCHANGED sessions PROVE SessionInv'
    <3>1. Becomes(s, at[s].stage + 1, at[s].data, at[s].scan, at[s].decisions)
      BY <1>1, <2>2, StageStep DEF GoOn
    <3>2. at[s].data.of = s /\ at[s].data.upto \in {ask[s].as_of, LastDay}
      BY <1>1, <2>1 DEF Under
    <3>. QED  BY <1>5, <2>1, <2>2, <3>1, <3>2
  <2>. QED  BY <1>4, <1>8, <2>2 DEF check_dataset_integrity
<1>. QED  BY <1>6, <1>7, <1>8

\* What add() of several rows leaves.
LEMMA StoredRows ==
    ASSUME NEW table, NEW new, NEW I, Fresh(table, new, I),
           \A p, q \in table : p.id = q.id => p = q
    PROVE  /\ table \subseteq Stored(table, new, I)
           /\ \A i \in I : new[i] \in Stored(table, new, I)
           /\ \A p \in Stored(table, new, I) : p \in table \/ \E i \in I : p = new[i]
           /\ \A p, q \in Stored(table, new, I) : p.id = q.id => p = q
  BY DEF Fresh, FreeName, Stored

\* add() of the rows in order stores every one, and names stay single.
LEMMA Inserted ==
    ASSUME NEW table, NEW new, NEW result \in Insert(table, new),
           \A p, q \in table : p.id = q.id => p = q
    PROVE  /\ table \subseteq result
           /\ \A i \in DOMAIN new : new[i] \in result
           /\ \A p \in result : p \in table \/ \E i \in DOMAIN new : p = new[i]
           /\ \A p, q \in result : p.id = q.id => p = q
<1>1. Fresh(table, new, DOMAIN new) /\ result = Stored(table, new, DOMAIN new)
  BY DEF Insert
<1>. QED  BY <1>1, StoredRows

\* add() that raises at row n has stored the rows before it, and names stay
\* single.
LEMMA PartlyInserted ==
    ASSUME NEW table, NEW new, NEW n \in DOMAIN new, NEW result \in Partial(table, new, n),
           DOMAIN new \subseteq Int, \A p, q \in table : p.id = q.id => p = q
    PROVE  /\ table \subseteq result
           /\ \A i \in DOMAIN new : i < n => new[i] \in result
           /\ \A p \in result : p \in table \/ \E i \in DOMAIN new : p = new[i]
           /\ \A p, q \in result : p.id = q.id => p = q
<1>1. PICK I : /\ I = {i \in DOMAIN new : i < n} \/ I = {i \in DOMAIN new : i <= n}
               /\ Fresh(table, new, I) /\ result = Stored(table, new, I)
  BY DEF Partial
<1>2. I \subseteq DOMAIN new /\ \A i \in DOMAIN new : i < n => i \in I
  BY <1>1
<1>. QED  BY <1>1, <1>2, StoredRows

\* The symbols a scan is about.
LEMMA KnownSymbols ==
    ASSUME NEW series, NEW data, NEW as_of
    PROVE  DOMAIN Outcomes(series, data, as_of) \in {{}, DOMAIN series}
<1>1. DOMAIN << >> = {}
  OBVIOUS
<1>. QED  BY <1>1 DEF Outcomes

\* A rank is given to the long candidates, and is no more than their number
\* and one.
LEMMA Ranks ==
    ASSUME NEW universe, NEW n \in Nat, DOMAIN universe \subseteq 1..n, NEW i \in DOMAIN universe
    PROVE  /\ DOMAIN build_scan(universe) = DOMAIN universe
           /\ build_scan(universe)[i].symbol = universe[i].symbol
           /\ build_scan(universe)[i].candidate = universe[i].candidate
           /\ build_scan(universe)[i].outcome = universe[i].outcome
           /\ build_scan(universe)[i].rank \in 0..(n + 1)
           /\ build_scan(universe)[i].rank = 0 <=> ~universe[i].outcome.long
<1>. DEFINE longs == {k \in DOMAIN universe : universe[k].outcome.long}
            above == {j \in longs : rank_sort_key(universe[j], universe[i])}
            rank == IF i \notin longs THEN 0 ELSE 1 + Cardinality(above)
<1>1. Cardinality(above) \in 0..n
  <2>1. IsFiniteSet(1..n) /\ Cardinality(1..n) = n
    BY FS_Interval
  <2>2. above \subseteq 1..n
    OBVIOUS
  <2>3. IsFiniteSet(above) /\ Cardinality(above) <= n /\ Cardinality(above) \in Nat
    BY <2>1, <2>2, FS_Subset, FS_CardinalityType
  <2>. QED  BY <2>3
<1>2. build_scan(universe)[i] = [symbol |-> universe[i].symbol, candidate |-> universe[i].candidate,
                                 outcome |-> universe[i].outcome, rank |-> rank]
  BY DEF build_scan
<1>3. DOMAIN build_scan(universe) = DOMAIN universe
  BY DEF build_scan
<1>4. rank \in 0..(n + 1) /\ (rank = 0 <=> ~universe[i].outcome.long)
  BY <1>1
<1>. HIDE DEF rank
<1>. QED  BY <1>2, <1>3, <1>4

\* Candidates are stored, then the scan.
LEMMA ScanStage ==
    ASSUME SessionInv, NEW s \in Session, run_trading_opportunity_scan(s)
    PROVE  SessionInv'
<1>1. Shape /\ Under(s) /\ OneEach
  BY DEF SessionInv, SessionTypeOK
<1>2. at[s].stage = 4 /\ at[s].scan = << >>
  BY <1>1, StageNumbers DEF run_trading_opportunity_scan, Under
<1>3. UNCHANGED <<market, ask, positions, plans, held>>
  BY DEF run_trading_opportunity_scan
<1>4. PICK known : known = Outcomes(market, at[s].data, ask[s].as_of)
  OBVIOUS
<1>5. PICK universe : universe = [u \in DOMAIN known |->
                [symbol |-> u, candidate |-> ask[s].digest[u], outcome |-> known[u]]]
  OBVIOUS
<1>6. PICK new : new = [u \in DOMAIN known |-> CandidateOf(s, u, known[u])]
  OBVIOUS
<1>7. CASE /\ candidates' \in add_candidates(new)
           /\ at' = [at EXCEPT ![s].stage = @ + 1, ![s].scan = build_scan(universe)]
           /\ UNCHANGED sessions
  <2>1. candidates \subseteq candidates' /\ \A u \in DOMAIN known : CandidateOf(s, u, known[u]) \in candidates'
    BY <1>6, <1>7 DEF add_candidates, Insert, Stored
  <2>2. Grows
    BY <1>3, <2>1 DEF Grows
  <2>3. PICK scan : scan = build_scan(universe)
    OBVIOUS
  <2>4. Becomes(s, 5, at[s].data, scan, at[s].decisions)
    <3>1. Becomes(s, at[s].stage + 1, at[s].data, scan, at[s].decisions)
      BY <1>1, <1>7, <2>3, ScanStep
    <3>2. at[s].stage + 1 = 5
      BY <1>2
    <3>. QED  BY <3>1, <3>2
  <2>5. Len(market) \in Nat /\ DOMAIN market = 1..Len(market) /\ DOMAIN known \in {{}, DOMAIN market}
    BY <1>4, KnownSymbols, SessionAssumption DEF SessionInv, SessionTypeOK
  <2>6. ASSUME NEW i \in DOMAIN scan
        PROVE  /\ i \in DOMAIN known /\ scan[i].symbol = i /\ scan[i].candidate = ask[s].digest[i]
               /\ scan[i].outcome = known[i] /\ scan[i].rank \in 0..(Len(market) + 1)
               /\ scan[i].rank = 0 <=> ~scan[i].outcome.long
    <3>1. DOMAIN universe = DOMAIN known /\ DOMAIN universe \subseteq 1..Len(market)
      BY <1>5, <2>5
    <3>2. DOMAIN scan = DOMAIN universe
      BY <2>3 DEF build_scan
    <3>3. i \in DOMAIN universe
      BY <2>6, <3>2
    <3>4. /\ universe[i].symbol = i /\ universe[i].candidate = ask[s].digest[i]
          /\ universe[i].outcome = known[i]
      BY <1>5, <3>1, <3>3
    <3>. QED  BY <2>3, <2>5, <3>1, <3>3, <3>4, Ranks
  <2>7. ASSUME NEW i \in DOMAIN scan  PROVE EntryFits(s, i)'
    <3>1. /\ at'[s].scan = scan /\ at'[s].data = at[s].data /\ UNCHANGED <<market, ask>>
          /\ known = Outcomes(market', at'[s].data, ask'[s].as_of)
      BY <1>3, <1>4, <2>4 DEF Becomes
    <3>2. CandidateOf(s, i, scan[i].outcome)' \in candidates'
      BY <1>3, <2>1, <2>6 DEF CandidateOf
    <3>. QED  BY <2>5, <2>6, <3>1, <3>2 DEF EntryFits
  <2>12. DOMAIN scan = DOMAIN known
    BY <1>5, <2>3 DEF build_scan
  <2>8. Under(s)'
    BY <1>1, <1>2, <1>3, <2>4, <2>5, <2>7, <2>12 DEF Under, Becomes
  <2>9. SessionTypeOK' /\ OneEach'
    BY <1>1, <1>3, <1>7, <2>4 DEF SessionInv, SessionTypeOK, Becomes, OneEach
  <2>10. at[s].stage # 8 /\ \A q \in Session \ {s} : at'[q] = at[q]
    BY <1>2, <2>4 DEF Becomes
  <2>11. sessions' \ sessions = {} /\ positions' \ positions = {}
    BY <1>3, <1>7
  <2>. QED  BY <1>2, <2>2, <2>8, <2>9, <2>10, <2>11, SessionStep
<1>8. CASE /\ UNCHANGED candidates \/ \E n \in DOMAIN known : candidates' \in Partial(candidates, new, n)
           /\ fail_session(s, << >>, 0)
  <2>1. candidates \subseteq candidates'
    BY <1>8 DEF Partial, Stored
  <2>2. Grows
    BY <1>3, <2>1 DEF Grows
  <2>. QED  BY <1>2, <1>3, <1>8, <2>2, FailSilently
<1>. QED  BY <1>4, <1>5, <1>6, <1>7, <1>8 DEF run_trading_opportunity_scan

\* The decision about an entry whose plan, if it needs one, is stored.
LEMMA Unsized ==
    ASSUME Grows, NEW s \in Session, at'[s].scan = at[s].scan, at'[s].data = at[s].data,
           NEW i \in DOMAIN at[s].scan, NEW d, d = Decision(s, at[s].scan[i]),
           at[s].scan[i].rank # 0 => PlanOf(s, at[s].scan[i]) \in plans'
    PROVE  DecisionFits(s, i, d)'
<1>1. PlanOf(s, at[s].scan[i])' = PlanOf(s, at[s].scan[i])
  BY StaysTrue
<1>2. Decision(s, at[s].scan[i])' = d
  BY <1>1 DEF Grows, Decision
<1>3. d.position = 0 /\ d = [d EXCEPT !.position = d.position]
  BY DEF Decision
<1>. QED  BY <1>1, <1>2, <1>3 DEF DecisionFits

\* Plans are stored, and decided upon.
LEMMA PlanStage ==
    ASSUME SessionInv, NEW s \in Session, plan_trades(s)
    PROVE  SessionInv'
<1>1. Shape /\ Under(s) /\ OneEach
  BY DEF SessionInv, SessionTypeOK
<1>2. at[s].stage = 5
  BY StageNumbers DEF plan_trades
<1>3. UNCHANGED <<market, ask, candidates, positions, held>>
  BY DEF plan_trades
<1>. DEFINE long == {j \in DOMAIN at[s].scan : at[s].scan[j].outcome.long}
            rowsOf == [i \in long |-> PlanOf(s, at[s].scan[i])]
            made == [i \in DOMAIN at[s].scan |-> Decision(s, at[s].scan[i])]
<1>0. \/ /\ plans' \in add_plans(rowsOf)
         /\ at' = [at EXCEPT ![s].stage = @ + 1, ![s].decisions = made]
         /\ UNCHANGED sessions
      \/ \E n \in DOMAIN rowsOf : /\ plans' \in Partial(plans, rowsOf, n)
                                 /\ fail_session(s, [i \in 1..(n - 1) |-> made[i]], 0)
  BY DEF plan_trades
<1>4. PICK scan : scan = at[s].scan
  OBVIOUS
<1>5. PICK new : new = rowsOf /\ new = [i \in {j \in DOMAIN scan : scan[j].outcome.long} |-> PlanOf(s, scan[i])]
  BY <1>4
<1>6. PICK ds : ds = made /\ ds = [i \in DOMAIN scan |-> Decision(s, scan[i])]
  BY <1>4
<1>. HIDE DEF long, rowsOf, made
<1>7. DOMAIN scan \subseteq Int /\ DOMAIN new \subseteq DOMAIN scan
  <2>1. DOMAIN new \subseteq DOMAIN scan
    BY <1>5
  <2>2. \A i \in DOMAIN scan : i \in DOMAIN market
    BY <1>1, <1>4 DEF Under, EntryFits
  <2>3. DOMAIN market \subseteq Int
    BY SessionAssumption DEF SessionInv, SessionTypeOK
  <2>. QED  BY <2>1, <2>2, <2>3
<1>8. ASSUME NEW i \in DOMAIN scan, scan[i].rank # 0
      PROVE  i \in DOMAIN new /\ new[i] = PlanOf(s, scan[i])
  BY <1>1, <1>4, <1>5, <1>8 DEF Under, EntryFits
<1>9. CASE /\ plans' \in add_plans(new)
           /\ at' = [at EXCEPT ![s].stage = @ + 1, ![s].decisions = ds]
           /\ UNCHANGED sessions
  <2>1. /\ plans \subseteq plans' /\ \A i \in DOMAIN new : new[i] \in plans'
        /\ \A p, q \in plans' : p.id = q.id => p = q
    BY <1>1, <1>9, Inserted DEF add_plans, OneEach
  <2>2. Grows
    BY <1>3, <2>1 DEF Grows
  <2>3. Becomes(s, 6, at[s].data, scan, ds)
    <3>1. Becomes(s, at[s].stage + 1, at[s].data, scan, ds)
      BY <1>1, <1>4, <1>9, DecideStep
    <3>2. at[s].stage + 1 = 6
      BY <1>2
    <3>. QED  BY <3>1, <3>2
  <2>4. ASSUME NEW i \in DOMAIN ds  PROVE DecisionFits(s, i, ds[i])'
    <3>1. i \in DOMAIN at[s].scan /\ ds[i] = Decision(s, at[s].scan[i])
      BY <1>4, <1>6
    <3>2. at[s].scan[i].rank # 0 => PlanOf(s, at[s].scan[i]) \in plans'
      BY <1>4, <1>8, <2>1, <3>1
    <3>3. at'[s].scan = at[s].scan /\ at'[s].data = at[s].data
      BY <1>4, <2>3 DEF Becomes
    <3>. QED  BY <2>2, <3>1, <3>2, <3>3, Unsized
  <2>5. \A i \in DOMAIN scan : EntryFits(s, i)'
    BY <1>1, <1>4, <2>2, <2>3, StaysTrue DEF Becomes, Under
  <2>6. Under(s)'
    BY <1>1, <1>2, <1>3, <1>4, <2>3, <2>4, <2>5 DEF Under, Becomes
  <2>7. SessionTypeOK' /\ OneEach'
    BY <1>1, <1>3, <1>9, <2>1, <2>3 DEF SessionInv, SessionTypeOK, Becomes, OneEach
  <2>8. at[s].stage # 8 /\ (\A q \in Session \ {s} : at'[q] = at[q]) /\ at'[s].scan = at[s].scan
    BY <1>2, <1>4, <2>3 DEF Becomes
  <2>9. sessions' \ sessions = {} /\ positions' \ positions = {}
    BY <1>3, <1>9
  <2>. QED  BY <2>2, <2>6, <2>7, <2>8, <2>9, SessionStep
<1>10. ASSUME NEW n \in DOMAIN new, plans' \in Partial(plans, new, n),
              fail_session(s, [i \in 1..(n - 1) |-> ds[i]], 0)
       PROVE  SessionInv'
  <2>1. PICK told : told = [i \in 1..(n - 1) |-> ds[i]]
    OBVIOUS
  <2>2. /\ plans \subseteq plans' /\ \A i \in DOMAIN new : i < n => new[i] \in plans'
        /\ \A p, q \in plans' : p.id = q.id => p = q
    BY <1>1, <1>7, <1>10, PartlyInserted DEF OneEach
  <2>3. Grows
    BY <1>3, <2>2 DEF Grows
  <2>4. Over(s) /\ AddSession(Record(s, "FAILED", Stages[at[s].stage], told, 0))
    BY <1>10, <2>1 DEF fail_session
  <2>5. Becomes(s, 8, at[s].data, at[s].scan, at[s].decisions)
    BY <1>1, <2>4, OverStep
  <2>6. ASSUME NEW i \in DOMAIN told  PROVE DecisionFits(s, i, told[i])'
    <3>1. i \in 1..(n - 1) /\ told[i] = ds[i]
      BY <2>1
    <3>2. i \in DOMAIN scan /\ i < n
      <4>1. DOMAIN scan = 1..Len(market) /\ Len(market) \in Nat
        BY <1>1, <1>4, <1>7, <1>10, SessionAssumption DEF Under, SessionInv, SessionTypeOK
      <4>. QED  BY <1>7, <3>1, <4>1
    <3>3. ds[i] = Decision(s, at[s].scan[i]) /\ i \in DOMAIN at[s].scan
      BY <1>4, <1>6, <3>2
    <3>4. at[s].scan[i].rank # 0 => PlanOf(s, at[s].scan[i]) \in plans'
      BY <1>4, <1>8, <2>2, <3>2
    <3>. QED  BY <2>3, <2>5, <3>1, <3>3, <3>4, Unsized DEF Becomes
  <2>7. positions' \ positions = {} /\ at[s].stage \in 3..7 /\ at[s].stage \in 1..7
    BY <1>2, <1>3
  <2>8. \A p, q \in positions' : p.id = q.id => p = q
    BY <1>1, <1>3 DEF OneEach
  <2>. QED  BY <1>3, <2>2, <2>3, <2>4, <2>6, <2>7, <2>8, RecordStep
<1>. QED  BY <1>0, <1>5, <1>6, <1>9, <1>10

\* The names a session gives are never None.
LEMMA NamesAreNames ==
    ASSUME SessionInv, NEW s \in Session, NEW i \in DOMAIN at[s].scan, at[s].scan[i].rank # 0
    PROVE  PlanOf(s, at[s].scan[i]).id \in Nat \ {0}
<1>1. /\ at[s].scan[i].rank \in 1..(Len(market) + 1) /\ market \in Markets
      /\ ask[s].digest \in Digests
  BY SessionAssumption DEF SessionInv, SessionTypeOK, Under, EntryFits
<1>. QED  BY <1>1, SessionAssumption DEF PlanOf

\* What is sized for a decision is the session's own plan: no other row has its
\* name.
LEMMA SizedPlan ==
    ASSUME SessionInv, NEW s \in Session, NEW i, NEW d, DecisionFits(s, i, d),
           d.plan_decision = "APPROVED_PLAN"
    PROVE  /\ i \in DOMAIN at[s].scan
           /\ at[s].scan[i].rank # 0
           /\ PlanOf(s, at[s].scan[i]) \in plans
           /\ d.plan = PlanOf(s, at[s].scan[i]).id
           /\ PositionOf(s, d) = PositionRow(s, i)
           /\ PositionRow(s, i).id = d.plan
           /\ PositionRow(s, i).plan = d.plan
           /\ PositionRow(s, i).of = s
<1>1. i \in DOMAIN at[s].scan /\ d = [Decision(s, at[s].scan[i]) EXCEPT !.position = d.position]
  BY DEF DecisionFits
<1>2. /\ d.plan = IF at[s].scan[i].rank = 0 THEN 0 ELSE ask[s].digest[at[s].scan[i].rank]
      /\ d.plan_decision = IF at[s].scan[i].rank = 0 THEN "none" ELSE PlanOf(s, at[s].scan[i]).status
  BY <1>1 DEF Decision
<1>3. at[s].scan[i].rank # 0
  BY <1>2
<1>4. PlanOf(s, at[s].scan[i]) \in plans /\ PlanOf(s, at[s].scan[i]).id = d.plan
  BY <1>2, <1>3 DEF DecisionFits, PlanOf
<1>5. (CHOOSE p \in plans : p.id = d.plan) = PlanOf(s, at[s].scan[i])
  <2>1. \A p \in plans : p.id = d.plan => p = PlanOf(s, at[s].scan[i])
    BY <1>4 DEF SessionInv, OneEach
  <2>. QED  BY <1>4, <2>1
<1>6. PositionOf(s, d) = PositionRow(s, i)
  BY <1>5 DEF PositionOf, PositionRow
<1>7. /\ PositionRow(s, i).id = d.plan /\ PositionRow(s, i).plan = d.plan
      /\ PositionRow(s, i).of = s
  BY <1>4 DEF PositionRow, PositionFor
<1>. QED  BY <1>1, <1>3, <1>4, <1>6, <1>7

\* A decision once its plan is sized.
LEMMA SizedFits ==
    ASSUME SessionInv, Grows, NEW s \in Session, at'[s].scan = at[s].scan, at'[s].data = at[s].data,
           NEW i, NEW d, DecisionFits(s, i, d), NEW e, e = Sized(s, d),
           d.plan_decision = "APPROVED_PLAN" => PositionRow(s, i) \in positions'
    PROVE  DecisionFits(s, i, e)' /\ DecisionDone(s, i, e)'
<1>1. /\ PlanOf(s, at[s].scan[i])' = PlanOf(s, at[s].scan[i])
      /\ PositionRow(s, i)' = PositionRow(s, i)
      /\ Decision(s, at[s].scan[i])' = Decision(s, at[s].scan[i])
      /\ DecisionFits(s, i, d)'
  <2>1. PlanOf(s, at[s].scan[i])' = PlanOf(s, at[s].scan[i])
    BY StaysTrue
  <2>2. Decision(s, at[s].scan[i])' = Decision(s, at[s].scan[i])
    BY <2>1 DEF Grows, Decision
  <2>. QED  BY <2>1, <2>2, StaysTrue
<1>2. CASE d.plan_decision = "APPROVED_PLAN" /\ PositionRow(s, i).status = "APPROVED_POSITION_PLAN"
  <2>1. PositionOf(s, d) = PositionRow(s, i) /\ PositionRow(s, i).id = d.plan
    BY <1>2, SizedPlan
  <2>2. e = [d EXCEPT !.position = d.plan]
    BY <1>2, <2>1 DEF Sized
  <2>3. d = [Decision(s, at[s].scan[i]) EXCEPT !.position = d.position] /\ i \in DOMAIN at[s].scan
    BY DEF DecisionFits
  <2>4. /\ e = [Decision(s, at[s].scan[i]) EXCEPT !.position = e.position]
        /\ e.position = d.plan /\ e.plan = d.plan /\ e.plan_decision = d.plan_decision
    BY <2>2, <2>3 DEF Decision
  <2>5. e.position # 0
    BY <1>2, <2>4, SizedPlan, NamesAreNames
  <2>. QED  BY <1>1, <1>2, <2>4, <2>5 DEF DecisionFits, DecisionDone
<1>3. CASE ~(d.plan_decision = "APPROVED_PLAN" /\ PositionRow(s, i).status = "APPROVED_POSITION_PLAN")
  <2>1. d.plan_decision = "APPROVED_PLAN" => PositionOf(s, d) = PositionRow(s, i)
    BY SizedPlan
  <2>2. e = d
    BY <1>3, <2>1 DEF Sized
  <2>. QED  BY <1>1, <1>3, <2>2 DEF DecisionDone
<1>. QED  BY <1>2, <1>3

\* Approved plans are sized.
LEMMA SizeStage ==
    ASSUME SessionInv, NEW s \in Session, size_positions(s)
    PROVE  SessionInv'
<1>. DEFINE ok == {i \in DOMAIN at[s].decisions : at[s].decisions[i].plan_decision = "APPROVED_PLAN"}
            rowsOf == [i \in ok |-> PositionOf(s, at[s].decisions[i])]
            made == [i \in DOMAIN at[s].decisions |-> Sized(s, at[s].decisions[i])]
            part(n) == [i \in DOMAIN at[s].decisions |->
                           IF i < n THEN Sized(s, at[s].decisions[i]) ELSE at[s].decisions[i]]
<1>0. \/ /\ positions' \in add_positions(rowsOf)
         /\ at' = [at EXCEPT ![s].stage = @ + 1, ![s].decisions = made]
         /\ UNCHANGED sessions
      \/ \E n \in ok : /\ positions' \in Partial(positions, rowsOf, n)
                       /\ fail_session(s, part(n), 0)
  BY DEF size_positions
<1>1. Shape /\ Under(s) /\ OneEach
  BY DEF SessionInv, SessionTypeOK
<1>2. at[s].stage = 6
  BY StageNumbers DEF size_positions
<1>3. UNCHANGED <<market, ask, candidates, plans, held>>
  BY DEF size_positions
<1>4. PICK ds : ds = at[s].decisions /\ \A i \in DOMAIN ds : DecisionFits(s, i, ds[i])
  BY <1>1, <1>2 DEF Under
<1>5. PICK new : /\ new = rowsOf /\ DOMAIN new = {i \in DOMAIN ds : ds[i].plan_decision = "APPROVED_PLAN"}
                 /\ \A i \in DOMAIN new : new[i] = PositionOf(s, ds[i])
  <2>1. rowsOf = [i \in {i \in DOMAIN ds : ds[i].plan_decision = "APPROVED_PLAN"} |-> PositionOf(s, ds[i])]
    BY <1>4
  <2>. HIDE DEF rowsOf
  <2>. QED  BY <2>1
<1>6. ASSUME NEW i \in DOMAIN new
      PROVE  /\ new[i] = PositionRow(s, i) /\ i \in DOMAIN at[s].scan
             /\ at[s].scan[i].rank # 0 /\ PlanOf(s, at[s].scan[i]) \in plans
             /\ PositionRow(s, i).of = s
  BY <1>4, <1>5, <1>6, SizedPlan
<1>7. DOMAIN ds \subseteq Int /\ DOMAIN new \subseteq Int
  <2>1. \A i \in DOMAIN ds : i \in DOMAIN at[s].scan
    BY <1>4 DEF DecisionFits
  <2>. QED  BY <1>1, <1>5, <2>1, SessionAssumption DEF Under, EntryFits, SessionInv, SessionTypeOK
<1>8. ASSUME at'[s].scan = at[s].scan, NEW i \in DOMAIN new  PROVE PositionFits(new[i])'
  <2>1. PlanOf(s, at[s].scan[i])' = PlanOf(s, at[s].scan[i])
    BY <1>3, <1>8 DEF PlanOf
  <2>2. PositionRow(s, i)' = PositionRow(s, i)
    BY <1>3, <2>1 DEF PositionRow, PositionFor
  <2>. QED  BY <1>3, <1>6, <1>8, <2>1, <2>2 DEF PositionFits
<1>9. PICK full : full = made /\ DOMAIN full = DOMAIN ds /\ \A i \in DOMAIN ds : full[i] = Sized(s, ds[i])
  <2>1. made = [i \in DOMAIN ds |-> Sized(s, ds[i])]
    BY <1>4
  <2>. HIDE DEF made
  <2>. QED  BY <2>1
<1>10. CASE /\ positions' \in add_positions(rowsOf)
            /\ at' = [at EXCEPT ![s].stage = @ + 1, ![s].decisions = made]
            /\ UNCHANGED sessions
  <2>. HIDE DEF rowsOf, made
  <2>1. /\ positions \subseteq positions' /\ \A i \in DOMAIN new : new[i] \in positions'
        /\ \A p \in positions' : p \in positions \/ \E i \in DOMAIN new : p = new[i]
        /\ \A p, q \in positions' : p.id = q.id => p = q
    BY <1>1, <1>5, <1>10, Inserted DEF add_positions, OneEach
  <2>2. Grows
    BY <1>3, <2>1 DEF Grows
  <2>3. Becomes(s, 7, at[s].data, at[s].scan, full)
    <3>1. Becomes(s, at[s].stage + 1, at[s].data, at[s].scan, full)
      BY <1>1, <1>9, <1>10, DecideStep
    <3>2. at[s].stage + 1 = 7
      BY <1>2
    <3>. QED  BY <3>1, <3>2
  <2>4. at'[s].scan = at[s].scan /\ at'[s].data = at[s].data
    BY <2>3 DEF Becomes
  <2>5. ASSUME NEW i \in DOMAIN full
        PROVE  DecisionFits(s, i, full[i])' /\ DecisionDone(s, i, full[i])'
    <3>1. i \in DOMAIN ds /\ DecisionFits(s, i, ds[i]) /\ full[i] = Sized(s, ds[i])
      BY <1>4, <1>9
    <3>2. ds[i].plan_decision = "APPROVED_PLAN" => PositionRow(s, i) \in positions'
      BY <1>5, <1>6, <2>1, <3>1
    <3>. QED  BY <2>2, <2>4, <3>1, <3>2, SizedFits
  <2>6. \A i \in DOMAIN at[s].scan : EntryFits(s, i)'
    BY <1>1, <2>2, <2>4, StaysTrue DEF Under
  <2>7. Under(s)'
    BY <1>1, <1>2, <1>3, <2>3, <2>5, <2>6 DEF Under, Becomes
  <2>8. SessionTypeOK' /\ OneEach'
    BY <1>1, <1>3, <1>10, <2>1, <2>3 DEF SessionInv, SessionTypeOK, Becomes, OneEach
  <2>9. at[s].stage # 8 /\ \A q \in Session \ {s} : at'[q] = at[q]
    BY <1>2, <2>3 DEF Becomes
  <2>10. sessions' \ sessions = {} /\ \A p \in positions' \ positions : PositionFits(p)'
    BY <1>8, <1>10, <2>1, <2>4
  <2>. QED  BY <2>2, <2>4, <2>7, <2>8, <2>9, <2>10, SessionStep
<1>11. ASSUME NEW n \in ok, positions' \in Partial(positions, rowsOf, n), fail_session(s, part(n), 0)
       PROVE  SessionInv'
  <2>1. PICK told : /\ told = part(n) /\ DOMAIN told = DOMAIN ds
                    /\ \A i \in DOMAIN ds : told[i] = IF i < n THEN Sized(s, ds[i]) ELSE ds[i]
    <3>1. part(n) = [i \in DOMAIN ds |-> IF i < n THEN Sized(s, ds[i]) ELSE ds[i]]
      BY <1>4
    <3>. HIDE DEF part
    <3>. QED  BY <3>1
  <2>0. n \in DOMAIN new
    BY <1>4, <1>5, <1>11
  <2>. HIDE DEF rowsOf, part, ok
  <2>2. /\ positions \subseteq positions' /\ \A i \in DOMAIN new : i < n => new[i] \in positions'
        /\ \A p \in positions' : p \in positions \/ \E i \in DOMAIN new : p = new[i]
        /\ \A p, q \in positions' : p.id = q.id => p = q
    BY <1>1, <1>5, <1>7, <1>11, <2>0, PartlyInserted DEF OneEach
  <2>3. Grows
    BY <1>3, <2>2 DEF Grows
  <2>4. Over(s) /\ AddSession(Record(s, "FAILED", Stages[at[s].stage], told, 0))
    BY <1>11, <2>1 DEF fail_session
  <2>5. at'[s].scan = at[s].scan /\ at'[s].data = at[s].data
    BY <1>1, <2>4, OverStep DEF Becomes
  <2>6. ASSUME NEW i \in DOMAIN told  PROVE DecisionFits(s, i, told[i])'
    <3>1. i \in DOMAIN ds /\ DecisionFits(s, i, ds[i])
      BY <1>4, <2>1
    <3>2. CASE i < n
      <4>1. ds[i].plan_decision = "APPROVED_PLAN" => PositionRow(s, i) \in positions'
        BY <1>5, <1>6, <2>2, <3>1, <3>2
      <4>2. told[i] = Sized(s, ds[i])
        BY <2>1, <3>1, <3>2
      <4>. QED  BY <2>3, <2>5, <3>1, <4>1, <4>2, SizedFits
    <3>3. CASE ~(i < n)
      <4>1. told[i] = ds[i]
        BY <2>1, <3>1, <3>3
      <4>. QED  BY <2>3, <2>5, <3>1, <4>1, StaysTrue
    <3>. QED  BY <3>2, <3>3
  <2>7. (\A p \in positions' \ positions : PositionFits(p)') /\ at[s].stage \in 3..7 /\ at[s].stage \in 1..7
    BY <1>2, <1>8, <2>2, <2>5
  <2>8. \A p, q \in plans' : p.id = q.id => p = q
    BY <1>1, <1>3 DEF OneEach
  <2>. QED  BY <1>3, <2>2, <2>3, <2>4, <2>6, <2>7, <2>8, RecordStep
<1>. HIDE DEF ok, rowsOf, made, part
<1>. QED  BY <1>0, <1>10, <1>11

\* The session is recorded.
LEMMA LastStage ==
    ASSUME SessionInv, NEW s \in Session, backtest_evidence(s)
    PROVE  SessionInv'
<1>1. Shape /\ Under(s) /\ OneEach
  BY DEF SessionInv, SessionTypeOK
<1>2. at[s].stage = 7
  BY StageNumbers DEF backtest_evidence
<1>3. UNCHANGED <<market, ask, candidates, plans, positions, held>> /\ Grows
  BY DEF backtest_evidence, Grows
<1>4. PICK ds : ds = at[s].decisions
  OBVIOUS
<1>5. PICK status, failed, count :
        Over(s) /\ AddSession(Record(s, status, failed, ds, count))
  BY <1>4 DEF backtest_evidence, fail_session
<1>6. at'[s].scan = at[s].scan /\ at'[s].data = at[s].data
  BY <1>1, <1>5, OverStep DEF Becomes
<1>7. ASSUME NEW i \in DOMAIN ds  PROVE DecisionFits(s, i, ds[i])' /\ DecisionDone(s, i, ds[i])'
  <2>1. DecisionFits(s, i, ds[i]) /\ DecisionDone(s, i, ds[i])
    BY <1>1, <1>2, <1>4, <1>7 DEF Under
  <2>. QED  BY <1>3, <1>6, <2>1, StaysTrue
<1>8. /\ \A p, q \in plans' : p.id = q.id => p = q
      /\ \A p, q \in positions' : p.id = q.id => p = q
      /\ positions' \ positions = {} /\ at[s].stage \in 3..7 /\ at[s].stage \in 1..7
  BY <1>1, <1>2, <1>3 DEF OneEach
<1>. QED  BY <1>3, <1>5, <1>7, <1>8, RecordStep

\* The invariant goes on holding.
LEMMA SessionInvNext ==
    ASSUME SessionInv, [Next]_vars
    PROVE  SessionInv'
<1>1. ASSUME UNCHANGED <<market, ask, at, candidates, plans, positions, sessions>>,
             held' = {} \/ \E p : held' = {p}
      PROVE  SessionInv'
  <2>1. SessionTypeOK' /\ OneEach'
    BY <1>1 DEF SessionInv, SessionTypeOK, Shape, OneEach
  <2>2. Grows
    BY <1>1 DEF Grows
  <2>3. ASSUME NEW s \in Session PROVE Under(s)'
    BY <1>1, <2>2, StaysTrue DEF SessionInv, Under
  <2>4. ASSUME NEW r \in sessions' PROVE Recorded(r)'
    BY <1>1, <2>2, StaysTrue DEF SessionInv, Recorded
  <2>5. ASSUME NEW p \in positions' PROVE PositionFits(p)'
    BY <1>1, <2>2, StaysTrue DEF SessionInv, PositionFits
  <2>. QED  BY <2>1, <2>3, <2>4, <2>5 DEF SessionInv
<1>2. CASE OperatorOpens \/ OperatorCloses
  <2>1. held' = {} \/ \E p : held' = {p}
    BY <1>2 DEF OperatorOpens, OperatorCloses
  <2>. QED  BY <1>1, <1>2, <2>1 DEF OperatorOpens, OperatorCloses
<1>3. CASE UNCHANGED vars
  BY <1>1, <1>3 DEF vars, SessionInv, SessionTypeOK
<1>. QED  BY <1>2, <1>3, PlainSteps, EarlyStages, ScanStage, PlanStage, SizeStage, LastStage DEF Next

\* The invariant holds always.
LEMMA SessionInvariant == Spec => []SessionInv
  BY SessionInvInit, SessionInvNext, PTL DEF Spec

------------------------------------------------------------------------------
(* What the invariant says of the stored sessions *)

\* A recorded decision, in terms of the entry of its symbol.
LEMMA DecisionSays ==
    ASSUME SessionInv, NEW r \in sessions, NEW i \in DOMAIN r.decisions,
           NEW s, s = r.runtime, NEW d, d = r.decisions[i], NEW e, e = at[s].scan[i]
    PROVE  /\ s \in Session /\ i \in DOMAIN at[s].scan /\ i \in DOMAIN market
           /\ EntryFits(s, i) /\ DecisionFits(s, i, d)
           /\ d.symbol = i /\ d.candidate = ask[s].digest[i] /\ d.rank = e.rank
           /\ d.long = e.outcome.long
           /\ d.plan = IF e.rank = 0 THEN 0 ELSE PlanOf(s, e).id
           /\ d.plan_decision = IF e.rank = 0 THEN "none" ELSE PlanOf(s, e).status
           /\ e.rank # 0 => PlanOf(s, e).id \in Nat \ {0}
<1>1. Recorded(r) /\ s \in Session /\ DecisionFits(s, i, d)
  BY DEF SessionInv, Recorded
<1>2. i \in DOMAIN at[s].scan /\ d = [Decision(s, e) EXCEPT !.position = d.position]
  BY <1>1 DEF DecisionFits
<1>3. EntryFits(s, i) /\ i \in DOMAIN market /\ e.symbol = i /\ e.candidate = ask[s].digest[i]
  BY <1>1, <1>2 DEF SessionInv, Under, EntryFits
<1>4. /\ d.symbol = e.symbol /\ d.candidate = e.candidate /\ d.rank = e.rank
      /\ d.long = e.outcome.long
      /\ d.plan = IF e.rank = 0 THEN 0 ELSE ask[s].digest[e.rank]
      /\ d.plan_decision = IF e.rank = 0 THEN "none" ELSE PlanOf(s, e).status
  <2>1. PICK plan, gate : /\ plan = IF e.rank = 0 THEN 0 ELSE ask[s].digest[e.rank]
                          /\ gate = IF e.rank = 0 THEN "none" ELSE PlanOf(s, e).status
    OBVIOUS
  <2>2. Decision(s, e) = [rank |-> e.rank, symbol |-> e.symbol, candidate |-> e.candidate,
                          long |-> e.outcome.long, plan |-> plan, plan_decision |-> gate,
                          position |-> 0]
    BY <2>1, Zenon DEF Decision
  <2>3. PICK position : d = [Decision(s, e) EXCEPT !.position = position]
    BY <1>2
  <2>4. /\ d.symbol = e.symbol /\ d.candidate = e.candidate /\ d.rank = e.rank
        /\ d.long = e.outcome.long /\ d.plan = plan /\ d.plan_decision = gate
    BY <2>2, <2>3
  <2>. QED  BY <2>1, <2>4
<1>5. PlanOf(s, e).id = ask[s].digest[e.rank]
  BY DEF PlanOf
<1>6. e.rank # 0 => PlanOf(s, e).id \in Nat \ {0}
  BY <1>1, <1>2, NamesAreNames
<1>. QED  BY <1>1, <1>2, <1>3, <1>4, <1>5, <1>6

\* The strategy says yes or no.
LEMMA LongIsBoolean ==
    ASSUME NEW series, NEW data, NEW as_of, NEW u \in DOMAIN Outcomes(series, data, as_of)
    PROVE  Outcomes(series, data, as_of)[u].long \in BOOLEAN
<1>. DEFINE day == derive_shared_evaluation_timestamp(series, data, as_of)
            window(v) == derive_observation_window(series[v], day)
            none == day = 0 \/ \E v \in DOMAIN series : Len(window(v)) <= ReferenceWindow
<1>1. Outcomes(series, data, as_of) = IF none THEN << >> ELSE [v \in DOMAIN series |-> evaluate(window(v))]
  BY DEF Outcomes
<1>2. \A w : evaluate(w).long \in BOOLEAN
  BY DEF evaluate
<1>. HIDE DEF none, window
<1>. QED  BY <1>1, <1>2

\* The invariant gives the evidence a recorded session cites.
LEMMA CitesItsOwn == SessionInv => SessionCitesItsOwn
<1>. SUFFICES ASSUME SessionInv, NEW r \in sessions, NEW i \in DOMAIN r.decisions,
                     NEW d, d = r.decisions[i]
              PROVE  /\ \E c \in candidates : /\ c.id = d.candidate /\ c.of = r.runtime
                                              /\ c.symbol = d.symbol /\ c.outcome.long = d.long
                     /\ d.plan # 0 => \E p \in plans : /\ p.id = d.plan /\ p.of = r.runtime
                                                       /\ p.candidate = d.candidate
                                                       /\ p.status = d.plan_decision
                     /\ d.position # 0 => \E p \in positions : /\ p.id = d.position
                                                               /\ p.of = r.runtime
                                                               /\ p.plan = d.plan
                                                               /\ p.status = "APPROVED_POSITION_PLAN"
                     /\ d.plan # 0 <=> d.long
  BY DEF SessionCitesItsOwn, DecisionsOf
<1>. DEFINE s == r.runtime
            e == at[s].scan[i]
<1>1. /\ s \in Session /\ i \in DOMAIN at[s].scan
      /\ EntryFits(s, i) /\ DecisionFits(s, i, d)
      /\ d.symbol = i /\ d.candidate = ask[s].digest[i] /\ d.rank = e.rank
      /\ d.long = e.outcome.long
      /\ d.plan = IF e.rank = 0 THEN 0 ELSE PlanOf(s, e).id
      /\ d.plan_decision = IF e.rank = 0 THEN "none" ELSE PlanOf(s, e).status
      /\ e.rank # 0 => PlanOf(s, e).id \in Nat \ {0}
  BY DecisionSays
<1>2. CandidateOf(s, i, e.outcome) \in candidates
  BY <1>1 DEF EntryFits
<1>3. \E c \in candidates : /\ c.id = d.candidate /\ c.of = s
                            /\ c.symbol = d.symbol /\ c.outcome.long = d.long
  BY <1>1, <1>2 DEF CandidateOf
<1>4. ASSUME d.plan # 0
      PROVE  \E p \in plans : /\ p.id = d.plan /\ p.of = s /\ p.candidate = d.candidate
                              /\ p.status = d.plan_decision
  <2>1. e.rank # 0 /\ PlanOf(s, e) \in plans /\ e.candidate = d.candidate
    BY <1>1, <1>4 DEF DecisionFits, EntryFits
  <2>2. PlanOf(s, e).of = s /\ PlanOf(s, e).candidate = e.candidate
    BY DEF PlanOf
  <2>. QED  BY <1>1, <2>1, <2>2
<1>5. ASSUME d.position # 0
      PROVE  \E p \in positions : /\ p.id = d.position /\ p.of = s /\ p.plan = d.plan
                                  /\ p.status = "APPROVED_POSITION_PLAN"
  <2>1. /\ d.position = d.plan /\ d.plan_decision = "APPROVED_PLAN"
        /\ PositionRow(s, i) \in positions
        /\ PositionRow(s, i).status = "APPROVED_POSITION_PLAN"
    BY <1>1, <1>5 DEF DecisionFits
  <2>2. PositionRow(s, i).id = d.plan /\ PositionRow(s, i).plan = d.plan /\ PositionRow(s, i).of = s
    BY <1>1, <2>1, SizedPlan
  <2>. QED  BY <2>1, <2>2
<1>6. d.plan # 0 <=> d.long
  <2>1. e.rank = 0 <=> ~e.outcome.long
    BY <1>1 DEF EntryFits
  <2>2. e.outcome.long \in BOOLEAN
    BY <1>1, LongIsBoolean DEF EntryFits
  <2>. QED  BY <1>1, <2>1, <2>2
<1>. QED  BY <1>3, <1>4, <1>5, <1>6

\* Every stored session, completed or failed anywhere, is about rows that are
\* stored and its own, and has a plan for exactly the candidates it ranked.
THEOREM RecordsCiteTheirOwn == Spec => []SessionCitesItsOwn
  BY SessionInvariant, CitesItsOwn, PTL

------------------------------------------------------------------------------
(* The as-of firewall *)

\* Bars after the as-of day do not change what a session sees.
LEMMA LaterBarsDoNotMatter ==
    ASSUME NEW series \in Markets, NEW as_of \in AsOf, NEW data, data.upto \in {as_of, LastDay},
           NEW own, own.upto = as_of
    PROVE  Outcomes(series, data, as_of) = Outcomes(series, own, as_of)
<1>. DEFINE Seen(d) == \A u \in DOMAIN series : d \in Days(series[u], data.upto)
            Known(d) == \A u \in DOMAIN series : d \in Days(series[u], own.upto)
<1>1. ASSUME NEW d \in 0..as_of  PROVE Seen(d) <=> Known(d)
  <2>1. ASSUME NEW u \in DOMAIN series
        PROVE  d \in Days(series[u], data.upto) <=> d \in Days(series[u], as_of)
    <3>1. \A i \in DOMAIN series[u] : series[u][i].day \in 0..LastDay
      BY SessionAssumption
    <3>2. as_of \in Nat /\ LastDay \in Nat
      BY SessionAssumption
    <3>. QED  BY <3>1, <3>2 DEF Days
  <2>. QED  BY <2>1
<1>2. {d \in 0..as_of : Seen(d)} = {d \in 0..as_of : Known(d)}
  BY <1>1
<1>3. derive_shared_evaluation_timestamp(series, data, as_of)
        = derive_shared_evaluation_timestamp(series, own, as_of)
  BY <1>2 DEF derive_shared_evaluation_timestamp
<1>. QED  BY <1>3 DEF Outcomes

\* The risk gate looks at the scan only to see that it has the candidate.
LEMMA GateLooksAtTheOutcome ==
    ASSUME NEW scan, NEW other, NEW candidate, NEW outcome,
           \E i \in DOMAIN scan : scan[i].candidate = candidate,
           \E i \in DOMAIN other : other[i].candidate = candidate
    PROVE  build_trade_plan(scan, candidate, outcome) = build_trade_plan(other, candidate, outcome)
  BY DEF build_trade_plan

\* The invariant gives the as-of firewall.
LEMMA DecidesOnWhatWasKnown == SessionInv => NoLookAhead
<1>. SUFFICES ASSUME SessionInv, NEW r \in sessions, r.decisions # << >>,
                     NEW known, known = Outcomes(market, [of |-> r.runtime, upto |-> r.as_of], r.as_of)
              PROVE  /\ r.data.of = r.runtime
                     /\ \A i \in DOMAIN r.decisions :
                          LET d == r.decisions[i]
                              as_candidate == <<[candidate |-> d.candidate]>>
                          IN  /\ d.symbol \in DOMAIN known
                              /\ d.long = known[d.symbol].long
                              /\ d.long => d.plan_decision =
                                    build_trade_plan(as_candidate, d.candidate, known[d.symbol]).status
  BY DEF NoLookAhead
<1>. DEFINE s == r.runtime
<1>1. /\ s \in Session /\ r.as_of = ask[s].as_of /\ r.data.of = s
      /\ at[s].data = r.data /\ r.data.upto \in {r.as_of, LastDay}
  BY DEF SessionInv, Recorded
<1>2. market \in Markets /\ r.as_of \in AsOf
  BY <1>1 DEF SessionInv, SessionTypeOK
<1>3. Outcomes(market, at[s].data, ask[s].as_of) = known
  BY <1>1, <1>2, LaterBarsDoNotMatter
<1>4. ASSUME NEW i \in DOMAIN r.decisions, NEW d, d = r.decisions[i],
             NEW single, single = <<[candidate |-> d.candidate]>>
      PROVE  /\ d.symbol \in DOMAIN known
             /\ d.long = known[d.symbol].long
             /\ d.long => d.plan_decision = build_trade_plan(single, d.candidate, known[d.symbol]).status
  <2>. DEFINE e == at[s].scan[i]
  <2>1. /\ i \in DOMAIN at[s].scan /\ EntryFits(s, i)
        /\ d.symbol = i /\ d.candidate = ask[s].digest[i] /\ d.long = e.outcome.long
        /\ d.plan_decision = IF e.rank = 0 THEN "none" ELSE PlanOf(s, e).status
    BY <1>4, DecisionSays
  <2>2. /\ i \in DOMAIN known /\ e.outcome = known[i] /\ e.candidate = d.candidate
        /\ e.rank = 0 <=> ~e.outcome.long
    BY <1>3, <2>1 DEF EntryFits
  <2>3. PlanOf(s, e).status = build_trade_plan(at[s].scan, e.candidate, e.outcome).status
    BY DEF PlanOf
  <2>4. build_trade_plan(at[s].scan, e.candidate, e.outcome)
          = build_trade_plan(single, e.candidate, e.outcome)
    <3>1. \E j \in DOMAIN at[s].scan : at[s].scan[j].candidate = e.candidate
      BY <2>1
    <3>2. \E j \in DOMAIN single : single[j].candidate = e.candidate
      BY <1>4, <2>2
    <3>. QED  BY <3>1, <3>2, GateLooksAtTheOutcome
  <2>. HIDE DEF e
  <2>5. d.symbol \in DOMAIN known /\ d.long = known[d.symbol].long
    BY <2>1, <2>2
  <2>6. ASSUME d.long
        PROVE  d.plan_decision = build_trade_plan(single, d.candidate, known[d.symbol]).status
    <3>1. e.rank # 0 /\ d.plan_decision = PlanOf(s, e).status
      BY <2>1, <2>2, <2>6
    <3>2. build_trade_plan(single, d.candidate, known[d.symbol])
            = build_trade_plan(at[s].scan, e.candidate, e.outcome)
      BY <2>1, <2>2, <2>4
    <3>. QED  BY <2>3, <3>1, <3>2
  <2>. QED  BY <2>5, <2>6
<1>5. ASSUME NEW i \in DOMAIN r.decisions
      PROVE  LET d == r.decisions[i]
                 as_candidate == <<[candidate |-> d.candidate]>>
             IN  /\ d.symbol \in DOMAIN known
                 /\ d.long = known[d.symbol].long
                 /\ d.long => d.plan_decision =
                       build_trade_plan(as_candidate, d.candidate, known[d.symbol]).status
  <2>1. PICK d, single : d = r.decisions[i] /\ single = <<[candidate |-> d.candidate]>>
    OBVIOUS
  <2>2. /\ d.symbol \in DOMAIN known
        /\ d.long = known[d.symbol].long
        /\ d.long => d.plan_decision = build_trade_plan(single, d.candidate, known[d.symbol]).status
    BY <1>4, <2>1
  <2>. QED  BY <2>1, <2>2, Zenon
<1>. QED  BY <1>1, <1>5, Zenon

\* The as-of firewall holds for any history, whatever the source sent beyond
\* the as-of day and whatever was written to the artifact's path meanwhile.
THEOREM SessionsDoNotLookAhead == Spec => []NoLookAhead
  BY SessionInvariant, DecidesOnWhatWasKnown, PTL

------------------------------------------------------------------------------
(* The brief *)

\* A position plan is approved or rejected, and approved only for an approved
\* plan.
LEMMA SizingSays ==
    ASSUME NEW s, NEW plan
    PROVE  /\ PositionFor(s, plan).status \in {"APPROVED_POSITION_PLAN", "REJECTED_POSITION_PLAN"}
           /\ PositionFor(s, plan).status = "APPROVED_POSITION_PLAN" => plan.status = "APPROVED_PLAN"
           /\ PositionFor(s, plan).of = s
           /\ PositionFor(s, plan).id = plan.id
           /\ PositionFor(s, plan).plan = plan.id
<1>1. PICK sized : sized = build_position_plan(plan, ask[s].equity, Risk)
  OBVIOUS
<1>2. /\ sized.status \in {"APPROVED_POSITION_PLAN", "REJECTED_POSITION_PLAN"}
      /\ sized.status = "APPROVED_POSITION_PLAN" => plan.status = "APPROVED_PLAN"
  BY <1>1 DEF build_position_plan
<1>. QED  BY <1>1, <1>2 DEF PositionFor

\* A cited position plan is the only one of its name.
LEMMA CitedPosition ==
    ASSUME SessionInv, NEW r \in sessions, NEW i \in DOMAIN r.decisions,
           NEW d, d = r.decisions[i], d.position # 0
    PROVE  /\ PositionRow(r.runtime, i) \in positions
           /\ (CHOOSE p \in positions : p.id = d.position) = PositionRow(r.runtime, i)
           /\ PositionRow(r.runtime, i).status = "APPROVED_POSITION_PLAN"
           /\ PositionRow(r.runtime, i).of = r.runtime
           /\ PositionRow(r.runtime, i).plan = d.plan
           /\ PositionRow(r.runtime, i).id = d.position
           /\ d.plan_decision = "APPROVED_PLAN"
<1>1. r.runtime \in Session /\ DecisionFits(r.runtime, i, d)
  BY DecisionSays
<1>2. /\ d.position = d.plan /\ d.plan_decision = "APPROVED_PLAN"
      /\ PositionRow(r.runtime, i) \in positions
      /\ PositionRow(r.runtime, i).status = "APPROVED_POSITION_PLAN"
  BY <1>1 DEF DecisionFits
<1>3. /\ PositionRow(r.runtime, i).id = d.plan /\ PositionRow(r.runtime, i).plan = d.plan
      /\ PositionRow(r.runtime, i).of = r.runtime
  BY <1>1, <1>2, SizedPlan
<1>4. \A p \in positions : p.id = d.position => p = PositionRow(r.runtime, i)
  BY <1>2, <1>3 DEF SessionInv, OneEach
<1>. QED  BY <1>2, <1>3, <1>4

\* What a decision shows of its position plan really took place, and what took
\* place shows.
LEMMA StatusIsAccurate ==
    ASSUME SessionInv, NEW r \in sessions, NEW i \in DOMAIN r.decisions,
           NEW d, d = r.decisions[i]
    PROVE  /\ position_plan_status(r, d) = "APPROVED_POSITION_PLAN" =>
                 \E p \in positions : /\ p.of = r.runtime /\ p.status = "APPROVED_POSITION_PLAN"
                                      /\ p.plan = d.plan
           /\ position_plan_status(r, d) = "REJECTED_POSITION_PLAN" =>
                 \E p \in positions : /\ p.of = r.runtime /\ p.status = "REJECTED_POSITION_PLAN"
                                      /\ p.plan = d.plan
           /\ (/\ r.status = "COMPLETED"
               /\ \E p \in positions : /\ p.of = r.runtime /\ p.status = "APPROVED_POSITION_PLAN"
                                       /\ p.plan = d.plan)
              => /\ position_plan_status(r, d) = "APPROVED_POSITION_PLAN"
                 /\ d.plan_decision = "APPROVED_PLAN" /\ d.long
<1>. DEFINE s == r.runtime
            e == at[s].scan[i]
<1>1. /\ s \in Session /\ i \in DOMAIN at[s].scan
      /\ EntryFits(s, i) /\ DecisionFits(s, i, d)
      /\ d.long = e.outcome.long
      /\ d.plan = IF e.rank = 0 THEN 0 ELSE PlanOf(s, e).id
      /\ d.plan_decision = IF e.rank = 0 THEN "none" ELSE PlanOf(s, e).status
      /\ e.rank # 0 => PlanOf(s, e).id \in Nat \ {0}
  BY DecisionSays
<1>2. r.status = "COMPLETED" => DecisionDone(s, i, d)
  BY DEF SessionInv, Recorded
<1>3. PositionRow(s, i) = PositionFor(s, PlanOf(s, e))
  BY DEF PositionRow
<1>4. CASE d.position # 0
  <2>1. /\ PositionRow(s, i) \in positions /\ PositionRow(s, i).status = "APPROVED_POSITION_PLAN"
        /\ PositionRow(s, i).of = s /\ PositionRow(s, i).plan = d.plan
        /\ position_plan_status(r, d) = "APPROVED_POSITION_PLAN"
        /\ d.plan_decision = "APPROVED_PLAN"
    <3>1. position_plan_status(r, d) = (CHOOSE p \in positions : p.id = d.position).status
      BY <1>4 DEF position_plan_status
    <3>2. /\ PositionRow(r.runtime, i) \in positions
          /\ (CHOOSE p \in positions : p.id = d.position) = PositionRow(r.runtime, i)
          /\ PositionRow(r.runtime, i).status = "APPROVED_POSITION_PLAN"
          /\ PositionRow(r.runtime, i).of = r.runtime
          /\ PositionRow(r.runtime, i).plan = d.plan
          /\ d.plan_decision = "APPROVED_PLAN"
      BY <1>4, CitedPosition
    <3>. QED  BY <3>1, <3>2
  <2>2. d.long
    <3>1. e.rank # 0
      BY <1>1, <2>1
    <3>2. e.outcome.long \in BOOLEAN /\ (e.rank = 0 <=> ~e.outcome.long)
      BY <1>1, LongIsBoolean DEF EntryFits
    <3>. QED  BY <1>1, <3>1, <3>2
  <2>. QED  BY <2>1, <2>2
<1>5. CASE d.position = 0
  <2>1. position_plan_status(r, d) = IF r.status = "COMPLETED" /\ d.plan_decision = "APPROVED_PLAN"
                                     THEN "REJECTED_POSITION_PLAN" ELSE "none"
    BY <1>5 DEF position_plan_status
  <2>2. ASSUME r.status = "COMPLETED", d.plan_decision = "APPROVED_PLAN"
        PROVE  /\ PositionRow(s, i) \in positions
               /\ PositionRow(s, i).status = "REJECTED_POSITION_PLAN"
               /\ PositionRow(s, i).of = s /\ PositionRow(s, i).plan = d.plan
    <3>1. PositionRow(s, i) \in positions /\ PositionRow(s, i).status # "APPROVED_POSITION_PLAN"
      BY <1>2, <1>5, <2>2 DEF DecisionDone
    <3>2. PositionRow(s, i).status = "REJECTED_POSITION_PLAN"
      BY <1>3, <3>1, SizingSays
    <3>. QED  BY <1>1, <2>2, <3>1, <3>2, SizedPlan
  <2>3. ASSUME r.status = "COMPLETED", NEW p \in positions, p.of = s,
               p.status = "APPROVED_POSITION_PLAN", p.plan = d.plan
        PROVE  FALSE
    <3>1. PICK j \in DOMAIN at[s].scan : /\ at[s].scan[j].rank # 0
                                         /\ p = PositionRow(s, j)
                                         /\ PlanOf(s, at[s].scan[j]) \in plans
      BY <2>3 DEF SessionInv, PositionFits
    <3>2. p.plan = PlanOf(s, at[s].scan[j]).id /\ p.plan # 0
      BY <1>1, <3>1, SizingSays, NamesAreNames DEF PositionRow
    <3>3. e.rank # 0 /\ PlanOf(s, e).id = p.plan /\ PlanOf(s, e) \in plans
      BY <1>1, <2>3, <3>2 DEF DecisionFits
    <3>4. PlanOf(s, e) = PlanOf(s, at[s].scan[j])
      BY <3>1, <3>2, <3>3 DEF SessionInv, OneEach
    <3>5. p = PositionRow(s, i)
      BY <3>1, <3>4 DEF PositionRow
    <3>6. d.plan_decision = "APPROVED_PLAN"
      BY <1>1, <1>3, <2>3, <3>3, <3>5, SizingSays
    <3>. QED  BY <2>2, <2>3, <3>5, <3>6
  <2>. QED  BY <2>1, <2>2, <2>3
<1>. QED  BY <1>4, <1>5

\* A symbol is decided on once in a session.
LEMMA OneDecisionEach ==
    ASSUME SessionInv, NEW r \in sessions, NEW d \in DecisionsOf(r), NEW b \in DecisionsOf(r),
           d.symbol = b.symbol
    PROVE  d = b
<1>1. PICK i \in DOMAIN r.decisions, j \in DOMAIN r.decisions : d = r.decisions[i] /\ b = r.decisions[j]
  BY DEF DecisionsOf
<1>2. d.symbol = i /\ b.symbol = j
  BY <1>1, DecisionSays
<1>. QED  BY <1>1, <1>2

\* There is at most one most recent prior session.
LEMMA OnePrior ==
    ASSUME SessionInv, NEW r \in sessions,
           NEW t \in find_most_recent_prior(r), NEW u \in find_most_recent_prior(r)
    PROVE  t = u /\ t \in sessions
<1>1. t \in sessions /\ u \in sessions
  BY DEF find_most_recent_prior
<1>2. t.runtime \in Nat /\ u.runtime \in Nat /\ t.as_of \in Nat /\ u.as_of \in Nat
  BY <1>1, SessionAssumption DEF SessionInv, SessionTypeOK, Recorded
<1>3. /\ u.as_of < t.as_of \/ (u.as_of = t.as_of /\ u.runtime <= t.runtime)
      /\ t.as_of < u.as_of \/ (t.as_of = u.as_of /\ t.runtime <= u.runtime)
  BY DEF find_most_recent_prior
<1>4. t.runtime = u.runtime
  BY <1>2, <1>3
<1>. QED  BY <1>1, <1>4 DEF SessionInv, OneEach

\* Only a symbol the session has not decided on is dropped.
LEMMA DroppedIsMissing ==
    ASSUME NEW target, NEW baseline, NEW d \in target
    PROVE  compare_session_decisions(target, baseline)[d.symbol] # "DROPPED"
<1>1. d.symbol \in {b.symbol : b \in target \cup baseline}
  OBVIOUS
<1>2. {b \in target : b.symbol = d.symbol} # {}
  OBVIOUS
<1>. QED  BY <1>1, <1>2 DEF compare_session_decisions

\* The invariant gives the brief's account of the session.
LEMMA BriefSays == SessionInv => BriefIsAccurate
<1>. SUFFICES ASSUME SessionInv, NEW r \in sessions,
                     NEW brief, brief = build_daily_research_brief(r)
              PROVE  LET sized(e, status) == \E p \in positions : /\ p.of = r.runtime
                                                                  /\ p.status = status
                                                                  /\ p.plan = e.decision.plan
                     IN  /\ \A e, f \in brief : e.symbol = f.symbol => e = f
                         /\ \A e \in brief :
                              /\ e.level = "ACTION_CANDIDATE" => sized(e, "APPROVED_POSITION_PLAN")
                              /\ e.status = "REJECTED_POSITION_PLAN" => sized(e, "REJECTED_POSITION_PLAN")
                              /\ /\ r.status = "COMPLETED" /\ e.outcome # "DROPPED"
                                 /\ sized(e, "APPROVED_POSITION_PLAN")
                                 => e.level = "ACTION_CANDIDATE"
  BY DEF BriefIsAccurate
<1>1. PICK baseline : baseline = UNION {DecisionsOf(t) : t \in find_most_recent_prior(r)}
  OBVIOUS
<1>2. PICK compared : compared = compare_session_decisions(DecisionsOf(r), baseline)
  OBVIOUS
<1>. DEFINE Own(d) == [symbol |-> d.symbol, level |-> classify_attention_level(compared[d.symbol], r, d),
                       outcome |-> compared[d.symbol], status |-> position_plan_status(r, d),
                       decision |-> d]
            Gone(d) == [symbol |-> d.symbol, level |-> "DROPPED", outcome |-> "DROPPED",
                        status |-> "none", decision |-> d]
<1>3. brief = {Own(d) : d \in DecisionsOf(r)}
              \cup {Gone(d) : d \in {b \in baseline : compared[b.symbol] = "DROPPED"}}
  BY <1>1, <1>2 DEF build_daily_research_brief, build_instrument_entries
<1>4. ASSUME NEW d \in baseline, NEW b \in baseline, d.symbol = b.symbol  PROVE d = b
  <2>1. PICK t \in find_most_recent_prior(r), u \in find_most_recent_prior(r) :
            d \in DecisionsOf(t) /\ b \in DecisionsOf(u)
    BY <1>1
  <2>. QED  BY <1>4, <2>1, OnePrior, OneDecisionEach
<1>5. \A e \in brief : \/ \E d \in DecisionsOf(r) : e = Own(d)
                       \/ \E d \in baseline : e = Gone(d) /\ compared[d.symbol] = "DROPPED"
  BY <1>3
<1>6. \A d \in DecisionsOf(r) : compared[d.symbol] # "DROPPED"
  BY <1>2, DroppedIsMissing
<1>7. \A e, f \in brief : e.symbol = f.symbol => e = f
  <2>. SUFFICES ASSUME NEW e \in brief, NEW f \in brief, e.symbol = f.symbol  PROVE e = f
    OBVIOUS
  <2>0. \A d : Own(d).symbol = d.symbol /\ Gone(d).symbol = d.symbol
    OBVIOUS
  <2>. HIDE DEF Own, Gone
  <2>1. CASE \E d \in DecisionsOf(r) : e = Own(d)
    BY <1>5, <1>6, <2>0, <2>1, OneDecisionEach
  <2>2. CASE \E d \in baseline : e = Gone(d) /\ compared[d.symbol] = "DROPPED"
    BY <1>4, <1>5, <1>6, <2>0, <2>2
  <2>. QED  BY <1>5, <2>1, <2>2
<1>8. ASSUME NEW d \in DecisionsOf(r), NEW e, e = Own(d)
      PROVE  /\ e.level = "ACTION_CANDIDATE" => e.status = "APPROVED_POSITION_PLAN"
             /\ (/\ e.status = "APPROVED_POSITION_PLAN" /\ d.plan_decision = "APPROVED_PLAN" /\ d.long)
                => e.level = "ACTION_CANDIDATE"
             /\ e.status = position_plan_status(r, d) /\ e.decision = d
  BY <1>8 DEF classify_attention_level
<1>9. ASSUME NEW d, NEW e, e = Gone(d)
      PROVE  e.level = "DROPPED" /\ e.status = "none" /\ e.outcome = "DROPPED"
  BY <1>9
<1>. HIDE DEF Own, Gone
<1>10. ASSUME NEW e \in brief, NEW d \in DecisionsOf(r), e = Own(d)
       PROVE  /\ e.level = "ACTION_CANDIDATE" =>
                    \E p \in positions : /\ p.of = r.runtime /\ p.status = "APPROVED_POSITION_PLAN"
                                         /\ p.plan = e.decision.plan
              /\ e.status = "REJECTED_POSITION_PLAN" =>
                    \E p \in positions : /\ p.of = r.runtime /\ p.status = "REJECTED_POSITION_PLAN"
                                         /\ p.plan = e.decision.plan
              /\ (/\ r.status = "COMPLETED"
                  /\ \E p \in positions : /\ p.of = r.runtime /\ p.status = "APPROVED_POSITION_PLAN"
                                          /\ p.plan = e.decision.plan)
                 => e.level = "ACTION_CANDIDATE"
  <2>1. PICK i \in DOMAIN r.decisions : d = r.decisions[i]
    BY DEF DecisionsOf
  <2>. QED  BY <1>8, <1>10, <2>1, StatusIsAccurate
<1>. QED  BY <1>5, <1>7, <1>9, <1>10

\* The brief of a stored session, whatever sessions were stored before and
\* since, has one entry a symbol, calls for action on exactly the position
\* plans of a completed session that were approved, and infers no rejection
\* that did not take place.
THEOREM BriefsAreAccurate == Spec => []BriefIsAccurate
  BY SessionInvariant, BriefSays, PTL

------------------------------------------------------------------------------
(* Capital feasibility *)

\* A set of naturals has a least element; so what holds at the start of a loop,
\* and after each of its turns, holds at its end.
LEMMA NatMin ==
    ASSUME NEW T \in SUBSET Nat, T # {}
    PROVE  \E x \in T : \A y \in T : x <= y
<1>. DEFINE R == {ss \in Nat \X Nat : ss[1] < ss[2]}
<1>1. IsWellFoundedOn(R, Nat)
  BY NatLessThanWellFounded DEF OpToRel
<1>. HIDE DEF R
<1>2. PICK x \in T : \A y \in T : ~(<<y, x>> \in R)
  BY <1>1, WFMin, Zenon
<1>3. \A y \in T : ~(y < x)
  BY <1>2 DEF R
<1>. QED  BY <1>3

\* A bounded set of naturals has a greatest element.
LEMMA NatMax ==
    ASSUME NEW S \in SUBSET Nat, S # {}, NEW b \in Nat, \A x \in S : x <= b
    PROVE  Max(S) \in S /\ \A y \in S : Max(S) >= y
<1>. DEFINE T == {c \in Nat : \A x \in S : x <= c}
<1>1. T \in SUBSET Nat /\ T # {}
  OBVIOUS
<1>. HIDE DEF T
<1>2. PICK c \in T : \A y \in T : c <= y
  BY <1>1, NatMin
<1>3. c \in Nat /\ \A x \in S : x <= c
  BY <1>2 DEF T
<1>4. c \in S
  <2>1. SUFFICES ASSUME c \notin S PROVE FALSE
    OBVIOUS
  <2>2. \A x \in S : x <= c - 1
    BY <1>3, <2>1
  <2>3. c - 1 \in Nat
    <3>1. PICK x \in S : x <= c - 1
      BY <2>2
    <3>2. x \in Nat
      OBVIOUS
    <3>. QED  BY <1>3, <3>1, <3>2
  <2>4. c - 1 \in T
    BY <2>2, <2>3 DEF T
  <2>. QED  BY <1>2, <1>3, <2>4
<1>. QED  BY <1>3, <1>4 DEF Max

\* The states of the loop of an assessment, one for every rank.
IsLoop(g, start, requests, ceiling, last) ==
    g = [k \in 0..last |-> IF k = 0 THEN start
                           ELSE Consider(g[k - 1], {r \in requests : r.rank = k}, ceiling)]

\* The loop is well defined.
LEMMA LoopExists ==
    ASSUME NEW start, NEW requests, NEW ceiling, NEW last \in Nat
    PROVE  \E g : IsLoop(g, start, requests, ceiling, last)
<1>. DEFINE Turn(v, k) == Consider(v, {r \in requests : r.rank = k}, ceiling)
            P(n) == \E g : g = [k \in 0..n |-> IF k = 0 THEN start ELSE Turn(g[k - 1], k)]
            T == {n \in Nat : ~P(n)}
<1>1. SUFFICES ASSUME T # {} PROVE FALSE
  BY DEF IsLoop
<1>. HIDE DEF Turn
<1>2. PICK n \in T : \A y \in T : n <= y
  <2>1. T \in SUBSET Nat
    OBVIOUS
  <2>. HIDE DEF T
  <2>. QED  BY <1>1, <2>1, NatMin
<1>3. P(0)
  <2>. DEFINE g == [k \in 0..0 |-> start]
  <2>1. g = [k \in 0..0 |-> IF k = 0 THEN start ELSE Turn(g[k - 1], k)]
    OBVIOUS
  <2>. QED  BY <2>1
<1>. HIDE DEF P
<1>4. n \in Nat \ {0} /\ n - 1 \in Nat
  BY <1>2, <1>3
<1>5. P(n - 1)
  BY <1>2, <1>4
<1>6. PICK g : g = [k \in 0..(n - 1) |-> IF k = 0 THEN start ELSE Turn(g[k - 1], k)]
  BY <1>5 DEF P
<1>7. P(n)
  <2>. DEFINE h == [k \in 0..n |-> IF k = 0 THEN start ELSE Turn(g[k - 1], k)]
  <2>1. ASSUME NEW k \in 0..(n - 1)  PROVE h[k] = g[k]
    <3>1. k \in 0..n
      BY <1>4
    <3>2. h[k] = IF k = 0 THEN start ELSE Turn(g[k - 1], k)
      BY <3>1
    <3>3. g[k] = IF k = 0 THEN start ELSE Turn(g[k - 1], k)
      BY <1>6
    <3>. QED  BY <3>2, <3>3
  <2>2. ASSUME NEW k \in 0..n, k # 0  PROVE h[k - 1] = g[k - 1]
    <3>1. k - 1 \in 0..(n - 1)
      BY <1>4, <2>2
    <3>. HIDE DEF h
    <3>. QED  BY <2>1, <3>1
  <2>3. h = [k \in 0..n |-> IF k = 0 THEN start ELSE Turn(h[k - 1], k)]
    BY <2>2
  <2>. HIDE DEF h
  <2>. QED  BY <2>3 DEF P
<1>. QED  BY <1>2, <1>7

\* The rank the loop ends with.
LastRank(requests) == Max({0} \cup {r.rank : r \in requests})

\* g is the loop, turn by turn, that Admit runs.
Runs(g, requests, amount, held_count, ceiling, last) ==
    /\ \A k \in 1..last : g[k] = Consider(g[k - 1], {r \in requests : r.rank = k}, ceiling)
    /\ g[0] = [count |-> held_count, committed |-> amount * 100, fits |-> {}]
    /\ Admit(requests, amount, held_count, ceiling) = g[last]

\* Admit is the last of the loop's values, one for each rank.
LEMMA AdmitIsTheLoop ==
    ASSUME NEW requests, NEW amount, NEW held_count, NEW ceiling,
           NEW last \in Nat, last = LastRank(requests)
    PROVE  \E g : Runs(g, requests, amount, held_count, ceiling, last)
<1>1. PICK start : start = [count |-> held_count, committed |-> amount * 100, fits |-> {}]
  OBVIOUS
<1>. DEFINE g == CHOOSE h : IsLoop(h, start, requests, ceiling, last)
<1>2. IsLoop(g, start, requests, ceiling, last)
  BY LoopExists
<1>3. Admit(requests, amount, held_count, ceiling) = g[last]
  BY <1>1 DEF Admit, IsLoop, LastRank
<1>. HIDE DEF g
<1>5. ASSUME NEW k \in 0..last
      PROVE  g[k] = IF k = 0 THEN start
                    ELSE Consider(g[k - 1], {r \in requests : r.rank = k}, ceiling)
  BY <1>2 DEF IsLoop
<1>6. g[0] = start
  <2>1. 0 \in 0..last
    OBVIOUS
  <2>. QED  BY <1>5, <2>1
<1>7. ASSUME NEW k \in 1..last
      PROVE  g[k] = Consider(g[k - 1], {r \in requests : r.rank = k}, ceiling)
  <2>1. k \in 0..last /\ k # 0
    OBVIOUS
  <2>. QED  BY <1>5, <2>1
<1>. QED  BY <1>1, <1>3, <1>6, <1>7 DEF Runs

\* What holds of the loop after rank k: what was admitted fits.
Sound(v, k, requests, amount, held_count, ceiling) ==
    /\ v.fits \subseteq {r \in requests : r.rank <= k}
    /\ IsFiniteSet(v.fits)
    /\ v.count = held_count + Cardinality(v.fits)
    /\ v.fits = {} => v.committed = amount * 100
    /\ v.fits # {} => v.committed <= ceiling /\ v.count <= MaxConcurrent

\* One turn of the loop keeps what it has admitted within the policy.
LEMMA SoundTurn ==
    ASSUME NEW requests, NEW amount, NEW held_count \in Nat, NEW ceiling,
           \A r \in requests : r.rank \in Nat,
           NEW k \in Nat \ {0}, NEW v, Sound(v, k - 1, requests, amount, held_count, ceiling),
           NEW w, w = Consider(v, {r \in requests : r.rank = k}, ceiling)
    PROVE  Sound(w, k, requests, amount, held_count, ceiling)
<1>. DEFINE due == {r \in requests : r.rank = k}
            fitting == {r \in due : v.count < MaxConcurrent /\ v.committed + r.notional * 100 <= ceiling}
            q == CHOOSE r \in fitting : TRUE
<1>1. w = IF fitting = {} THEN v
          ELSE [count |-> v.count + 1, committed |-> v.committed + q.notional * 100,
                fits |-> v.fits \cup {q}]
  BY DEF Consider
<1>2. \A r \in v.fits : r \in requests /\ r.rank <= k - 1
  BY DEF Sound
<1>3. v.fits \subseteq {r \in requests : r.rank <= k}
  BY <1>2
<1>4. CASE fitting = {}
  BY <1>1, <1>3, <1>4 DEF Sound
<1>5. CASE fitting # {}
  <2>1. q \in fitting
    BY <1>5
  <2>. HIDE DEF q
  <2>2. /\ q \in requests /\ q.rank = k
        /\ v.count < MaxConcurrent /\ v.committed + q.notional * 100 <= ceiling
    BY <2>1
  <2>. HIDE DEF fitting, due
  <2>3. q \notin v.fits
    BY <1>2, <2>2
  <2>4. /\ w.fits = v.fits \cup {q} /\ w.count = v.count + 1
        /\ w.committed = v.committed + q.notional * 100
    <3>1. PICK count, committed, fits : /\ count = v.count + 1
                                        /\ committed = v.committed + q.notional * 100
                                        /\ fits = v.fits \cup {q}
      OBVIOUS
    <3>2. w = [count |-> count, committed |-> committed, fits |-> fits]
      BY <1>1, <1>5, <3>1, Zenon
    <3>3. w.count = count /\ w.committed = committed /\ w.fits = fits
      BY <3>2
    <3>. QED  BY <3>1, <3>3, Zenon
  <2>5. IsFiniteSet(v.fits) /\ v.count = held_count + Cardinality(v.fits)
    BY DEF Sound
  <2>6. /\ IsFiniteSet(w.fits) /\ Cardinality(w.fits) = Cardinality(v.fits) + 1
        /\ Cardinality(v.fits) \in Nat
    <3>1. Cardinality(v.fits) \in Nat
      BY <2>5, FS_CardinalityType
    <3>2. IsFiniteSet(v.fits \cup {q}) /\ Cardinality(v.fits \cup {q}) = Cardinality(v.fits) + 1
      BY <2>3, <2>5, FS_AddElement
    <3>. QED  BY <2>4, <3>1, <3>2
  <2>7. w.count = held_count + Cardinality(w.fits) /\ w.count <= MaxConcurrent
    BY <2>2, <2>4, <2>5, <2>6, ChainAssumption
  <2>8. w.fits \subseteq {r \in requests : r.rank <= k}
    BY <1>3, <2>2, <2>4
  <2>. QED  BY <2>2, <2>4, <2>6, <2>7, <2>8 DEF Sound
<1>. QED  BY <1>4, <1>5

\* What is admitted in the end can be held.
Holds(v, requests, amount, held_count, ceiling) ==
    /\ v.fits \subseteq requests
    /\ IsFiniteSet(v.fits)
    /\ v.fits = {} => v.committed = amount * 100
    /\ v.fits # {} => /\ v.committed <= ceiling
                      /\ held_count + Cardinality(v.fits) <= MaxConcurrent

\* What Admit returns is within the policy.
LEMMA AdmitIsSound ==
    ASSUME NEW requests, NEW amount, NEW held_count \in Nat, NEW ceiling,
           NEW b \in Nat, \A r \in requests : r.rank \in 0..b,
           NEW v, v = Admit(requests, amount, held_count, ceiling)
    PROVE  Holds(v, requests, amount, held_count, ceiling)
<1>. DEFINE ranks == {0} \cup {r.rank : r \in requests}
<1>1. ranks \in SUBSET Nat /\ ranks # {} /\ \A x \in ranks : x <= b
  OBVIOUS
<1>. HIDE DEF ranks
<1>2. Max(ranks) \in Nat
  BY <1>1, NatMax
<1>3. PICK last : last \in Nat /\ last = LastRank(requests)
  BY <1>2 DEF ranks, LastRank
<1>4. PICK g : Runs(g, requests, amount, held_count, ceiling, last)
  BY <1>3, AdmitIsTheLoop
<1>. DEFINE T == {k \in 0..last : ~Sound(g[k], k, requests, amount, held_count, ceiling)}
<1>5. T = {}
  <2>1. SUFFICES ASSUME T # {} PROVE FALSE
    OBVIOUS
  <2>2. T \in SUBSET Nat
    OBVIOUS
  <2>3. PICK k \in T : \A y \in T : k <= y
    <3>. HIDE DEF T
    <3>. QED  BY <2>1, <2>2, NatMin
  <2>4. Sound(g[0], 0, requests, amount, held_count, ceiling)
    <3>1. IsFiniteSet({}) /\ Cardinality({}) = 0
      BY FS_EmptySet
    <3>. QED  BY <1>4, <3>1 DEF Sound, Runs
  <2>5. k \in 1..last /\ k \in Nat \ {0} /\ k - 1 \in 0..last
    BY <1>3, <2>3, <2>4
  <2>6. Sound(g[k - 1], k - 1, requests, amount, held_count, ceiling)
    BY <2>3, <2>5
  <2>7. g[k] = Consider(g[k - 1], {r \in requests : r.rank = k}, ceiling)
    BY <1>4, <2>5 DEF Runs
  <2>8. Sound(g[k], k, requests, amount, held_count, ceiling)
    BY <2>5, <2>6, <2>7, SoundTurn
  <2>. QED  BY <2>3, <2>8
<1>6. Sound(v, last, requests, amount, held_count, ceiling)
  <2>1. last \in 0..last
    BY <1>3
  <2>2. Sound(g[last], last, requests, amount, held_count, ceiling)
    BY <1>5, <2>1
  <2>. QED  BY <1>4, <2>2 DEF Runs
<1>. QED  BY <1>6 DEF Sound, Holds

\* The ceiling is never below nothing.
LEMMA CeilingIsNat ==
    ASSUME NEW requests, \A r \in requests : r.equity \in Int
    PROVE  Ceiling(requests) \in Nat
<1>1. capital_base(requests) \in Nat
  <2>1. CASE Usable(requests) = {}
    BY <2>1 DEF capital_base
  <2>2. CASE Usable(requests) # {}
    <3>. DEFINE E == {r.equity : r \in Usable(requests)}
    <3>1. E \in SUBSET Nat /\ E # {}
      BY <2>2 DEF Usable
    <3>. HIDE DEF E
    <3>2. Min(E) \in Nat
      <4>1. PICK x \in E : \A y \in E : x <= y
        BY <3>1, NatMin
      <4>. QED  BY <3>1, <4>1 DEF Min
    <3>. QED  BY <2>2, <3>2 DEF capital_base, E
  <2>. QED  BY <2>1, <2>2
<1>. QED  BY <1>1, ChainAssumption DEF Ceiling

\* Nothing held sums to nothing.
LEMMA NothingHeld == SumFunction([p \in {} |-> p.notional]) = 0
  BY DEF SumFunction, SumFunctionOnSet, FoldFunctionOnSet, MapThenFoldSet

\* What the brief asks about is ranked, and was sized against the session's
\* equity.
LEMMA RequestsSay ==
    ASSUME SessionInv, NEW r \in sessions, NEW q \in Requests(r)
    PROVE  q.rank \in 0..(Len(market) + 1) /\ q.equity \in Int
<1>1. PICK d \in DecisionsOf(r) :
        /\ d.position # 0
        /\ q = LET p == CHOOSE p \in positions : p.id = d.position
               IN  [rank |-> d.rank, plan |-> p.id, notional |-> p.notional, equity |-> p.equity]
  BY DEF Requests
<1>2. PICK i \in DOMAIN r.decisions : d = r.decisions[i]
  BY DEF DecisionsOf
<1>3. PICK p : p = PositionRow(r.runtime, i) /\ (CHOOSE x \in positions : x.id = d.position) = p
  BY <1>1, <1>2, CitedPosition
<1>4. q.rank = d.rank /\ q.equity = p.equity
  BY <1>1, <1>3
<1>5. /\ r.runtime \in Session /\ EntryFits(r.runtime, i)
      /\ d.rank = at[r.runtime].scan[i].rank
  BY <1>2, DecisionSays
<1>6. p.equity = ask[r.runtime].equity
  <2>1. \A s, plan : PositionFor(s, plan).equity = ask[s].equity
    BY DEF PositionFor, build_position_plan
  <2>. QED  BY <1>3, <2>1 DEF PositionRow
<1>7. ask[r.runtime].equity \in Int
  BY <1>5, SessionAssumption DEF SessionInv, SessionTypeOK
<1>. QED  BY <1>4, <1>5, <1>6, <1>7 DEF EntryFits

\* The assessment of a session on its own.
LEMMA TodayFits ==
    ASSUME NEW asked, NEW b \in Nat, \A q \in asked : q.rank \in 0..b /\ q.equity \in Int,
           NEW done \in BOOLEAN, NEW today, today = assess_same_day_capital_feasibility(asked, done)
    PROVE  today.committed <= Ceiling(asked) /\ Cardinality(today.fits) <= MaxConcurrent
<1>1. PICK admitted, usable : /\ admitted = Admit(usable, 0, 0, Ceiling(asked))
                              /\ usable = Usable(asked)
  OBVIOUS
<1>2. \A q \in usable : q.rank \in 0..b
  BY <1>1 DEF Usable
<1>3. Holds(admitted, usable, 0, 0, Ceiling(asked))
  BY <1>1, <1>2, AdmitIsSound
<1>4. Ceiling(asked) \in Nat /\ MaxConcurrent \in Nat /\ Cardinality({}) = 0
  BY CeilingIsNat, FS_EmptySet, ChainAssumption
<1>5. \/ today.fits = {} /\ today.committed = 0
      \/ today.fits = admitted.fits /\ today.committed = admitted.committed
  BY <1>1 DEF assess_same_day_capital_feasibility, Withheld
<1>6. Cardinality(admitted.fits) \in Nat
  BY <1>3, FS_CardinalityType DEF Holds
<1>7. CASE today.fits = {} /\ today.committed = 0
  BY <1>4, <1>7
<1>8. CASE today.fits = admitted.fits /\ today.committed = admitted.committed
  <2>1. CASE admitted.fits = {}
    BY <1>3, <1>4, <1>8, <2>1 DEF Holds
  <2>2. CASE admitted.fits # {}
    BY <1>3, <1>4, <1>6, <1>8, <2>2 DEF Holds
  <2>. QED  BY <2>1, <2>2
<1>. QED  BY <1>5, <1>7, <1>8

\* The assessment that knows what is held.
LEMMA AwareFits ==
    ASSUME NEW asked, NEW b \in Nat, \A q \in asked : q.rank \in 0..b /\ q.equity \in Int,
           NEW own, IsFiniteSet(own),
           NEW done, NEW aware, aware = assess_portfolio_aware_capital_feasibility(asked, own, done),
           aware.fits # {}
    PROVE  /\ aware.committed <= Ceiling(asked)
           /\ Cardinality(own) + Cardinality(aware.fits) <= MaxConcurrent
           /\ \A q \in aware.fits, p \in own : p.plan # q.plan
<1>. DEFINE acted == {r \in Usable(asked) : \E p \in own : p.plan = r.plan}
            proposed == Usable(asked) \ acted
<1>1. PICK amount : amount = SumFunction([p \in own |-> p.notional])
  OBVIOUS
<1>2. PICK admitted : admitted = Admit(proposed, amount, Cardinality(own), Ceiling(asked))
  OBVIOUS
<1>3. \A q \in proposed : /\ q.rank \in 0..b
                          /\ \A p \in own : p.plan # q.plan
  BY DEF Usable
<1>4. \/ aware.fits = {}
      \/ aware.fits = admitted.fits /\ aware.committed = admitted.committed
  BY <1>1, <1>2 DEF assess_portfolio_aware_capital_feasibility, Withheld
<1>. HIDE DEF proposed
<1>5. Cardinality(own) \in Nat
  BY FS_CardinalityType
<1>6. Holds(admitted, proposed, amount, Cardinality(own), Ceiling(asked))
  BY <1>2, <1>3, <1>5, AdmitIsSound
<1>. QED  BY <1>3, <1>4, <1>6 DEF Holds

\* The two agree when nothing is held.
LEMMA NothingHeldAgrees ==
    ASSUME NEW asked, NEW done \in BOOLEAN
    PROVE  assess_portfolio_aware_capital_feasibility(asked, {}, done).fits
             = assess_same_day_capital_feasibility(asked, done).fits
<1>. DEFINE acted == {r \in Usable(asked) : \E p \in {} : p.plan = r.plan}
<1>1. Usable(asked) \ acted = Usable(asked) /\ acted = {}
  OBVIOUS
<1>2. SumFunction([p \in {} |-> p.notional]) = 0 /\ Cardinality({}) = 0
  BY NothingHeld, FS_EmptySet
<1>3. asked = {} => Usable(asked) = {}
  BY DEF Usable
<1>4. PICK admitted : admitted = Admit(Usable(asked), 0, 0, Ceiling(asked))
  OBVIOUS
<1>5. assess_same_day_capital_feasibility(asked, done).fits =
        IF ~done \/ Usable(asked) = {} THEN {} ELSE admitted.fits
  BY <1>3, <1>4 DEF assess_same_day_capital_feasibility, Withheld
<1>6. assess_portfolio_aware_capital_feasibility(asked, {}, done).fits =
        IF ~done \/ Usable(asked) = {} THEN {} ELSE admitted.fits
  BY <1>1, <1>2, <1>4 DEF assess_portfolio_aware_capital_feasibility, Withheld
<1>. QED  BY <1>5, <1>6

\* The invariant gives the capital policy.
LEMMA FitsThePolicy == SessionInv => FeasibilityWithinPolicy
<1>. SUFFICES ASSUME SessionInv, NEW r \in sessions,
                     NEW asked, asked = Requests(r), NEW done, done = (r.status = "COMPLETED"),
                     NEW today, today = assess_same_day_capital_feasibility(asked, done),
                     NEW aware, aware = assess_portfolio_aware_capital_feasibility(asked, held, done)
              PROVE  /\ today.committed <= Ceiling(asked)
                     /\ Cardinality(today.fits) <= MaxConcurrent
                     /\ aware.fits # {} =>
                          /\ aware.committed <= Ceiling(asked)
                          /\ Cardinality(held) + Cardinality(aware.fits) <= MaxConcurrent
                          /\ \A q \in aware.fits, p \in held : p.plan # q.plan
                     /\ held = {} => aware.fits = today.fits
  BY DEF FeasibilityWithinPolicy
<1>1. PICK b \in Nat : \A q \in asked : q.rank \in 0..b /\ q.equity \in Int
  <2>1. Len(market) + 1 \in Nat
    BY SessionAssumption DEF SessionInv, SessionTypeOK
  <2>. QED  BY <2>1, RequestsSay
<1>2. done \in BOOLEAN
  OBVIOUS
<1>3. IsFiniteSet(held)
  <2>1. held = {} \/ \E p : held = {p}
    BY DEF SessionInv, SessionTypeOK
  <2>2. \A p : IsFiniteSet({p})
    BY FS_Singleton
  <2>. QED  BY <2>1, <2>2, FS_EmptySet
<1>4. today.committed <= Ceiling(asked) /\ Cardinality(today.fits) <= MaxConcurrent
  BY <1>1, <1>2, TodayFits
<1>5. ASSUME aware.fits # {}
      PROVE  /\ aware.committed <= Ceiling(asked)
             /\ Cardinality(held) + Cardinality(aware.fits) <= MaxConcurrent
             /\ \A q \in aware.fits, p \in held : p.plan # q.plan
  <2>1. PICK own : own = held
    OBVIOUS
  <2>2. IsFiniteSet(own) /\ aware = assess_portfolio_aware_capital_feasibility(asked, own, done)
    BY <1>3, <2>1
  <2>3. /\ aware.committed <= Ceiling(asked)
        /\ Cardinality(own) + Cardinality(aware.fits) <= MaxConcurrent
        /\ \A q \in aware.fits, p \in own : p.plan # q.plan
    BY <1>1, <1>5, <2>2, AwareFits
  <2>. QED  BY <2>1, <2>3
<1>6. held = {} => aware.fits = today.fits
  BY <1>2, NothingHeldAgrees
<1>. QED  BY <1>4, <1>5, <1>6

\* What either assessment of any stored session admits can be held at once,
\* with what is held already, and they agree when nothing is.
THEOREM AssessmentsFitThePolicy == Spec => []FeasibilityWithinPolicy
  BY SessionInvariant, FitsThePolicy, PTL
=============================================================================
