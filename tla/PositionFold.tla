---------------------------- MODULE PositionFold ----------------------------
(***************************************************************************)
(* The pure part of the operator position ledger                           *)
(* (decision_candidate/operator_position_ledger.py): the fold of one       *)
(* position's assertions, the validation of an appended one and the state  *)
(* derived at an instant.                                                  *)
(*                                                                         *)
(* An event is a record with at least the fields governance_id, position,  *)
(* instrument, kind, quantity and event_timestamp.  Identities and instants *)
(* are numbers, which keeps their order; OPENED and REDUCED events have a  *)
(* positive quantity, which is what __post_init__ refuses otherwise.  A     *)
(* raised LedgerRejectionError is the state "rejected" of a fold and the    *)
(* empty set of a validation; the reason it carries is left out.            *)
(***************************************************************************)
EXTENDS Naturals, FiniteSets, SequencesExt

CONSTANTS Position, Instrument,
          EventId,      \* governance identities
          MaxQuantity,  \* bound on an event's quantity
          MaxInstant    \* bound on the timestamps of an event

ASSUME EventsAssumption ==
    /\ EventId \subseteq Nat
    /\ MaxQuantity \in Nat \ {0}
    /\ MaxInstant \in Nat

Instant == 0..MaxInstant

Kind == {"OPENED", "REDUCED", "CLOSED"}

_order_key(e) == <<e.event_timestamp, e.governance_id>>

Before(e, f) ==
    \/ _order_key(e)[1] < _order_key(f)[1]
    \/ _order_key(e)[1] = _order_key(f)[1] /\ _order_key(e)[2] < _order_key(f)[2]

\* The event that sorting by _order_key puts last.
Latest(events) == CHOOSE e \in events : \A f \in events \ {e} : Before(f, e)

------------------------------------------------------------------------------
\* The three local variables of the loop: "none" is not opened, "closed" is
\* opened and closed.
NotOpened == [status |-> "none", quantity |-> 0]
Rejected == [status |-> "rejected", quantity |-> 0]

Open(e) == [status |-> "open", quantity |-> e.quantity, instrument |-> e.instrument]

Shrunk(state, quantity) ==
    [state EXCEPT !.quantity = quantity, !.status = IF quantity = 0 THEN "closed" ELSE "open"]

\* An exit needs an open position of the same instrument.
Exits(state, e) == state.status = "open" /\ e.instrument = state.instrument

\* Mutant: a reduction that lands on zero leaves the position open.
ApplyReductionOpen(state, e) ==
    CASE e.kind = "OPENED" /\ state.status = "none" -> Open(e)
      [] e.kind = "REDUCED" /\ Exits(state, e) /\ e.quantity <= state.quantity ->
            [state EXCEPT !.quantity = @ - e.quantity]
      [] e.kind = "CLOSED" /\ Exits(state, e) -> Shrunk(state, 0)
      [] OTHER -> Rejected

\* Mutant: a closed position may be opened again.
ApplyReopening(state, e) ==
    CASE e.kind = "OPENED" /\ state.status \in {"none", "closed"} -> Open(e)
      [] e.kind = "REDUCED" /\ Exits(state, e) /\ e.quantity <= state.quantity ->
            Shrunk(state, state.quantity - e.quantity)
      [] e.kind = "CLOSED" /\ Exits(state, e) -> Shrunk(state, 0)
      [] OTHER -> Rejected

\* One event of the loop of _fold_one_position; a rejection ends the loop, so
\* what was rejected stays rejected.
Apply(state, e) ==
    CASE e.kind = "OPENED" /\ state.status = "none" -> Open(e)
      [] e.kind = "REDUCED" /\ Exits(state, e) /\ e.quantity <= state.quantity ->
            Shrunk(state, state.quantity - e.quantity)
      [] e.kind = "CLOSED" /\ Exits(state, e) -> Shrunk(state, 0)
      [] OTHER -> Rejected

\* The loop over the sorted events: the latest is applied to what the others
\* fold to.
_fold_one_position(events) ==
    MapThenFoldSet(LAMBDA e, state : Apply(state, e), NotOpened, LAMBDA e : e, Latest, events)

Folds(events) == _fold_one_position(events).status \in {"open", "closed"}

------------------------------------------------------------------------------
\* The quantities of some events, in all.
Total(events) == MapThenSumSet(LAMBDA e : e.quantity, events)

OfPosition(events, position) == {e \in events : e.position = position}

\* Mutant: a CLOSED event is stored with the quantity of the opening.
ValidateOpenedQuantity(existing, candidate) ==
    LET same_key == OfPosition(existing, candidate.position)
        opened == {e \in same_key : e.kind = "OPENED"}
        effective == IF candidate.kind = "CLOSED" /\ opened # {}
                     THEN [candidate EXCEPT !.quantity = (CHOOSE e \in opened : TRUE).quantity]
                     ELSE candidate
    IN  IF /\ \A e \in existing : e.governance_id # candidate.governance_id
           /\ Folds(same_key \cup {effective})
        THEN {effective}
        ELSE {}

\* The event that is stored for the candidate, or none.
validate_appended_event(existing, candidate) ==
    LET same_key == OfPosition(existing, candidate.position)
        prior == {e \in same_key : Before(e, candidate)}
        remaining == IF prior = {} THEN 0 ELSE _fold_one_position(prior).quantity
        effective == IF candidate.kind = "CLOSED"
                     THEN [candidate EXCEPT !.quantity = remaining] ELSE candidate
    IN  IF /\ \A e \in existing : e.governance_id # candidate.governance_id
           /\ candidate.kind = "CLOSED" /\ prior # {} => Folds(prior)
           /\ Folds(same_key \cup {effective})
        THEN {effective}
        ELSE {}

Considered(events, as_of) == {e \in events : e.event_timestamp <= as_of}

\* What is held of a position at an instant, the instant included; "none"
\* when no event of it is considered, which derives no position at all.
derive_position_state(events, position, as_of) ==
    _fold_one_position(OfPosition(Considered(events, as_of), position))
=============================================================================
