--------------------------- MODULE OperatorReports ---------------------------
(***************************************************************************)
(* The read-only reports over the operator position ledger: the evidence   *)
(* snapshot at an effective and a knowledge cutoff (M079), the asserted    *)
(* round trips (M080), their ratios (M081), the follow-through audit of a  *)
(* research session's approved plans (M078) and the receipt view (M082).   *)
(* Each handler reads the whole ledger in one statement and computes, so a *)
(* report is an operator of the stored events; what varies is the ledger.  *)
(* Events are appended the way append_validated stores them (the races of  *)
(* its callers are in OperatorPositionLedger); `recorded_at` is the        *)
(* operator's own field and need not agree with the order of appending.    *)
(*                                                                         *)
(* Prices are integers in the ledger's smallest price unit, which is what  *)
(* _scaled_price makes of them.  Banners and limitations are left out.     *)
(***************************************************************************)
EXTENDS PositionFold, Integers

CONSTANTS
    Plan,
    None,          \* no plan cited; no arithmetic
    MaxEvents,     \* bound on the stored events
    EntryPrice,    \* prices an opening may assert
    ExitPrice,     \* prices an exit may assert
    Places,        \* decimal places of a price (six in the code)
    SessionPlans   \* approved plan references a session may carry, a set of sets

ASSUME ReportsAssumption ==
    /\ MaxEvents \in Nat
    /\ EntryPrice \subseteq Nat \ {0} /\ ExitPrice \subseteq Nat \ {0}
    /\ Places \in Nat \ {0}
    /\ \A plans \in SessionPlans : \A plan \in plans : plan.id # None

VARIABLES
    ledger,           \* table operator_position_event
    approved_plans,   \* the position plan references of the audited session
    in_order          \* history: nothing was ever written down late

reportvars == <<ledger, approved_plans, in_order>>

Assertion ==
    {e \in [governance_id : EventId, position : Position, instrument : Instrument, kind : Kind,
            quantity : 0..MaxQuantity, event_timestamp : Instant, recorded_at : Instant,
            price : EntryPrice \cup ExitPrice, plan : Plan \cup {None}] :
        /\ e.kind = "CLOSED" <=> e.quantity = 0
        /\ e.price \in IF e.kind = "OPENED" THEN EntryPrice ELSE ExitPrice
        /\ e.kind # "OPENED" => e.plan = None}

ReportsInit ==
    /\ ledger = {}
    /\ approved_plans \in SessionPlans
    /\ in_order = TRUE

append(candidate) ==
    /\ \E stored \in validate_appended_event(ledger, candidate) : ledger' = ledger \cup {stored}
    /\ in_order' = (in_order /\ \A e \in ledger : Before(e, candidate)
                                            /\ e.recorded_at <= candidate.recorded_at)
    /\ UNCHANGED approved_plans

ReportsNext == Cardinality(ledger) < MaxEvents /\ \E candidate \in Assertion : append(candidate)

ReportsSpec == ReportsInit /\ [][ReportsNext]_reportvars

------------------------------------------------------------------------------
(* M079: the evidence snapshot *)

\* Mutant: the knowledge cutoff is applied to the effective time.
known_by_effect(all, k) == {e \in all : e.event_timestamp <= k}

\* The only place the unfiltered events are read.
events_known_by(all, k) == {e \in all : e.recorded_at <= k}

\* M076's fold of one position key, of events that are effective by the cutoff.
_fold_one_key(key_events, effective) == _fold_one_position(Considered(key_events, effective))

KnownPositionStatus(state) ==
    CASE state.status = "rejected" -> "UNRESOLVED_KNOWLEDGE_SEQUENCE"
      [] state.status = "open"     -> "KNOWN_OPEN"
      [] state.status = "closed"   -> "KNOWN_CLOSED"

Positions(visible) == {e.position : e \in visible}

_snapshot_from_known_evidence(known, effective) ==
    LET visible == Considered(known, effective)
        entries == [p \in Positions(visible) |->
                      LET state == _fold_one_key(OfPosition(visible, p), effective)
                      IN  [status |-> KnownPositionStatus(state),
                           quantity |-> IF state.status = "rejected" THEN None ELSE state.quantity,
                           visible_event_count |-> Cardinality(OfPosition(visible, p))]]
    IN  [outcome |-> IF known = {} THEN "NO_EVIDENCE_RECORDED_BY_KNOWLEDGE_CUTOFF"
                     ELSE "EVIDENCE_SNAPSHOT_AVAILABLE",
         known_event_count |-> Cardinality(known),
         excluded_by_effective_cutoff |-> Cardinality(known \ visible),
         entries |-> entries]

build_operator_evidence_snapshot(all, effective, k) ==
    _snapshot_from_known_evidence(events_known_by(all, k), effective)

------------------------------------------------------------------------------
(* M080: asserted round trips *)

Scale == 10 ^ Places

\* The rendered decimal string: sign, whole part and the fraction's digits
\* without trailing zeros.
_money_from_scaled(scaled) ==
    LET magnitude == IF scaled < 0 THEN -scaled ELSE scaled
        fraction == magnitude % Scale
        places == CHOOSE p \in 0..Places :
                     /\ fraction % 10 ^ (Places - p) = 0
                     /\ \A q \in 0..(p - 1) : fraction % 10 ^ (Places - q) # 0
    IN  [negative |-> scaled < 0, whole |-> magnitude \div Scale, places |-> places,
         digits |-> fraction \div 10 ^ (Places - places)]

\* The opening event of a key that folded.
_opening_of(key_events) == CHOOSE e \in key_events : e.kind = "OPENED"

\* The plan the OPENED event of each position cites.
cited_plan_by_position(all) ==
    LET citing == {e \in all : e.kind = "OPENED" /\ e.plan # None}
    IN  [p \in Positions(citing) |-> (CHOOSE e \in citing : e.position = p).plan]

\* The order of the tests in _entry_for_key.
RoundTripStatus(unaccounted, exited, is_open) ==
    CASE unaccounted # 0 -> "EXIT_QUANTITY_UNRECONCILED"
      [] unaccounted = 0 /\ exited = 0 -> "NO_EXIT_ASSERTED_YET"
      [] unaccounted = 0 /\ exited # 0 /\ is_open -> "PARTIAL_EXIT_ASSERTED"
      [] OTHER -> "FULLY_EXITED_ASSERTED"

\* An entry without arithmetic: the visible events do not fold.
_unresolved == [status |-> "UNRESOLVED_KNOWLEDGE_SEQUENCE", cost |-> None, result |-> None]

_entry_for_key(key_events, effective) ==
    LET state == derive_position_state(key_events, (CHOOSE e \in key_events : TRUE).position, effective)
        opening == _opening_of(key_events)
        exits == {e \in key_events : e.kind \in {"REDUCED", "CLOSED"}}
        exited == Total(exits)
        consideration == MapThenSumSet(LAMBDA e : e.quantity * e.price, exits)
        unaccounted == opening.quantity - exited - state.quantity
        cost == exited * opening.price
    IN  IF state.status = "rejected" THEN _unresolved
        ELSE [status |-> RoundTripStatus(unaccounted, exited, state.status = "open"),
              cost |-> IF exited > 0 THEN _money_from_scaled(cost) ELSE None,
              result |-> IF exited > 0 THEN _money_from_scaled(consideration - cost) ELSE None]

_report_from_known_evidence(known, effective) ==
    LET visible == Considered(known, effective)
    IN  [p \in Positions(visible) |-> _entry_for_key(OfPosition(visible, p), effective)]

build_asserted_round_trip_report(all, effective, k) ==
    _report_from_known_evidence(events_known_by(all, k), effective)

------------------------------------------------------------------------------
(* M081: ratios *)

\* The inverse of the rendering.
_scaled_from_money(rendered) ==
    LET scaled == rendered.whole * Scale + rendered.digits * 10 ^ (Places - rendered.places)
    IN  IF rendered.negative THEN -scaled ELSE scaled

Magnitude(n) == IF n < 0 THEN -n ELSE n

\* Lowest terms, the sign in the numerator.
_reduced(n, d) ==
    LET divisor == CHOOSE g \in 1..d :
                      /\ n % g = 0 /\ d % g = 0
                      /\ \A h \in (g + 1)..d : n % h # 0 \/ d % h # 0
    IN  [numerator |-> IF n < 0 THEN -(Magnitude(n) \div divisor) ELSE n \div divisor,
         denominator |-> d \div divisor]

\* Mutant: what truncates away entirely is shown as zero.
approximation_to_zero(n, d) ==
    LET quotient == (Magnitude(n) * Scale) \div d
    IN  [form |-> "point", value |-> IF n < 0 THEN -quotient ELSE quotient,
         exact |-> (Magnitude(n) * Scale) % d = 0]

\* Truncated toward zero; what truncates away entirely is given as a bound,
\* "below" or "above" zero by less than the last place.
_decimal_approximation(n, d) ==
    LET quotient == (Magnitude(n) * Scale) \div d
    IN  IF quotient = 0 /\ n # 0
        THEN [form |-> IF n < 0 THEN "below zero" ELSE "above zero", value |-> 0, exact |-> FALSE]
        ELSE [form |-> "point", value |-> IF n < 0 THEN -quotient ELSE quotient,
              exact |-> (Magnitude(n) * Scale) % d = 0]

_ratio_entry(entry) ==
    IF entry.result = None
    THEN [absence |-> IF entry.status = "UNRESOLVED_KNOWLEDGE_SEQUENCE" THEN entry.status
                      ELSE "NO_EXIT_ASSERTED_YET"]
    ELSE LET ratio == _reduced(_scaled_from_money(entry.result), _scaled_from_money(entry.cost))
         IN  [absence |-> None, ratio |-> ratio,
              approximation |-> _decimal_approximation(ratio.numerator, ratio.denominator)]

build_asserted_round_trip_ratio_report(all, effective, k) ==
    LET source == build_asserted_round_trip_report(all, effective, k)
    IN  [p \in DOMAIN source |-> _ratio_entry(source[p])]

------------------------------------------------------------------------------
(* M078: follow-through of a session's approved plans *)

\* An identity that names two instruments is no join authority.
_plan_reference_incoherence(plans) ==
    \E p, q \in plans : p.id = q.id /\ p.instrument # q.instrument

\* Mutant: a position counts for a plan only on the plan's own instrument.
cites_on_instrument(p, plan, cited, all) ==
    p \in DOMAIN cited /\ cited[p] = plan.id
    /\ \E e \in all : e.position = p /\ e.instrument = plan.instrument

\* A citation counts whatever instrument it is recorded on; a mismatch is
\* reported beside it.
Cites(p, plan, cited, all) == p \in DOMAIN cited /\ cited[p] = plan.id

\* Ranks only order the report; equal references are one plan.
audit_research_decision_follow_through(all, plans, as_of) ==
    LET Held(status) == {p \in Positions(all) : derive_position_state(all, p, as_of).status = status}
        cited == cited_plan_by_position(all)
        unique == {[id |-> plan.id, instrument |-> plan.instrument] : plan \in plans}
        Linked(plan, status) == {p \in Held(status) : Cites(p, plan, cited, all)}
        Status(plan) == CASE Linked(plan, "open") # {} -> "ASSERTED_POSITION_OPEN"
                          [] Linked(plan, "open") = {} /\ Linked(plan, "closed") # {} ->
                                "ASSERTED_POSITION_CLOSED"
                          [] OTHER -> "NO_ASSERTED_POSITION_RECORDED"
    IN  CASE _plan_reference_incoherence(plans) ->
               [outcome |-> "NOT_ASSESSABLE", reason |-> "SESSION_PLAN_REFERENCES_INCOHERENT"]
          [] ~_plan_reference_incoherence(plans) /\ Held("rejected") # {} ->
               [outcome |-> "NOT_ASSESSABLE", reason |-> "LEDGER_INCOHERENT"]
          [] OTHER ->
               [outcome |-> IF unique = {} THEN "NO_APPROVED_POSITION_PLANS" ELSE "AUDITED",
                entries |-> {[id |-> plan.id, status |-> Status(plan),
                              open |-> Linked(plan, "open"), closed |-> Linked(plan, "closed")] :
                                plan \in unique},
                unlinked |-> {p \in Held("open") :
                                 p \notin DOMAIN cited
                                    \/ \A plan \in unique : plan.id # cited[p]}]

------------------------------------------------------------------------------
(* The handlers: one read of the whole ledger, then the report. *)

GetOperatorEvidenceSnapshotHandler(t, k) == build_operator_evidence_snapshot(ledger, t, k)

GetAssertedRoundTripReportHandler(t, k) == build_asserted_round_trip_report(ledger, t, k)

GetAssertedRoundTripRatioReportHandler(t, k) ==
    build_asserted_round_trip_ratio_report(ledger, t, k)

\* Every position at an instant, those with no considered event left out.
GetOperatorPositionStateHandler(as_of) ==
    [p \in Positions(Considered(ledger, as_of)) |-> derive_position_state(ledger, p, as_of)]

AuditResearchDecisionFollowThroughHandler(as_of) ==
    audit_research_decision_follow_through(ledger, approved_plans, as_of)

------------------------------------------------------------------------------
(* Properties *)

Appended == ledger' \ ledger

\* The knowledge firewall: an assertion appended later and stamped after a
\* knowledge cutoff changes nothing in any report at that cutoff, at whatever
\* effective time, although it is folded with all the others when it is stored.
KnowledgeFirewall ==
    [][\A k \in Instant, t \in Instant :
          (\A e \in Appended : e.recorded_at > k) =>
             /\ GetOperatorEvidenceSnapshotHandler(t, k)'
                  = GetOperatorEvidenceSnapshotHandler(t, k)
             /\ GetAssertedRoundTripReportHandler(t, k)'
                  = GetAssertedRoundTripReportHandler(t, k)]_reportvars

\* An operator who writes everything down in order never meets the two states
\* of incomplete knowledge: at no cutoffs is a position unresolved, or do its
\* exits fail to add up.
InOrderReconciles ==
    in_order =>
        \A t, k \in Instant :
            LET report == GetAssertedRoundTripReportHandler(t, k)
            IN  \A p \in DOMAIN report :
                   report[p].status \notin {"UNRESOLVED_KNOWLEDGE_SEQUENCE",
                                            "EXIT_QUANTITY_UNRECONCILED"}

\* The ratio is the exact one of the amounts the events assert, after these
\* were rendered and parsed back, and stays above a total loss.  Its
\* approximation is the digits the ratio has, with its sign, and says truly
\* whether there are more; a ratio too small for the last place is neither
\* shown as zero nor loses its sign, and zero is shown as nothing else.
RatioIsExact ==
    \A t, k \in Instant :
        LET report == GetAssertedRoundTripRatioReportHandler(t, k)
        IN  \A p \in DOMAIN report :
              report[p].absence = None =>
                LET visible == OfPosition(Considered(events_known_by(ledger, k), t), p)
                    entry == _opening_of(visible).price
                    exits == {e \in visible : e.kind # "OPENED"}
                    Sum(f(_)) == MapThenSumSet(f, exits)
                    n == report[p].ratio.numerator
                    d == report[p].ratio.denominator
                    approximation == report[p].approximation
                IN  /\ n * Sum(LAMBDA e : e.quantity * entry)
                         = d * Sum(LAMBDA e : e.quantity * (e.price - entry))
                    /\ n > -d
                    /\ approximation.form = "point" =>
                          /\ approximation.value * n >= 0
                          /\ approximation.value = 0 <=> n = 0
                          /\ Magnitude(n) * Scale - Magnitude(approximation.value) * d
                                \in 0..(d - 1)
                          /\ approximation.exact <=> approximation.value * d = n * Scale
                    /\ approximation.form # "point" =>
                          /\ approximation.form = IF n < 0 THEN "below zero" ELSE "above zero"
                          /\ n # 0 /\ Magnitude(n) * Scale < d

\* Every open position is accounted for exactly once: under the one plan of the
\* session it cites, or among the unlinked; closed ones are never lost to an
\* open one of the same plan.
EveryPositionAccounted ==
    \A as_of \in Instant :
        LET audit == AuditResearchDecisionFollowThroughHandler(as_of)
            state == GetOperatorPositionStateHandler(as_of)
            Held(status) == {p \in DOMAIN state : state[p].status = status}
            ids == {plan.id : plan \in approved_plans}
        IN  audit.outcome = "AUDITED" =>
              /\ \A p \in Held("open") :
                    Cardinality({e \in audit.entries : p \in e.open})
                       + (IF p \in audit.unlinked THEN 1 ELSE 0) = 1
              /\ \A p \in Held("closed"), e \in ledger :
                    e.position = p /\ e.plan \in ids =>
                       \E entry \in audit.entries : entry.id = e.plan /\ p \in entry.closed
=============================================================================
