----------------------- MODULE OperatorPositionLedger -----------------------
(***************************************************************************)
(* The append-only ledger of operator assertions (M076): clients record    *)
(* events concurrently through                                             *)
(* PostgresOperatorPositionLedgerRepository.append_validated, which takes  *)
(* an advisory lock on the position, reads every stored event, validates   *)
(* the candidate by folding the whole resulting sequence of its position   *)
(* and inserts it, all in one transaction.  The statements interleave with *)
(* those of other clients; under READ COMMITTED each sees what is          *)
(* committed when it starts.  The INSERT and the COMMIT are one step: an   *)
(* uncommitted row is seen by nobody, and an INSERT of the same identity   *)
(* only waits for its fate.  A client may die in any step, which rolls its *)
(* transaction back and releases the lock.                                 *)
(***************************************************************************)
EXTENDS PositionFold

CONSTANTS Client,
          NoClient      \* the owner of a free lock

ASSUME LedgerAssumption == NoClient \notin Client

VARIABLES events,   \* table operator_position_event
          lock,     \* lock[p]: the client that holds the advisory lock of p
          session   \* session[c]: where the client's transaction stands

vars == <<events, lock, session>>

OperatorAssertedPositionEvent ==
    {e \in [governance_id : EventId, position : Position, instrument : Instrument,
            kind : Kind, quantity : 0..MaxQuantity, event_timestamp : Instant] :
        e.kind # "CLOSED" => e.quantity > 0}

\* What a caller passes: the quantity of a CLOSED event is not the caller's.
Candidate == {e \in OperatorAssertedPositionEvent : e.kind = "CLOSED" => e.quantity = 0}

Idle == [at |-> "idle"]

Init ==
    /\ events = {}
    /\ lock = [p \in Position |-> NoClient]
    /\ session = [c \in Client |-> Idle]

------------------------------------------------------------------------------
\* The end of the transaction, by COMMIT or ROLLBACK.
End(c) ==
    /\ lock' = [p \in Position |-> IF lock[p] = c THEN NoClient ELSE lock[p]]
    /\ session' = [session EXCEPT ![c] = Idle]

\* Mutant: writers to one position do not wait for each other.
AcquireUnlocked(c, p) ==
    /\ session[c] = Idle
    /\ session' = [session EXCEPT ![c] = [at |-> "locked", position |-> p]]
    /\ UNCHANGED <<events, lock>>

\* SELECT pg_advisory_xact_lock: waits while another transaction holds it.
Acquire(c, p) ==
    /\ session[c] = Idle
    /\ lock[p] = NoClient
    /\ lock' = [lock EXCEPT ![p] = c]
    /\ session' = [session EXCEPT ![c] = [at |-> "locked", position |-> p]]
    /\ UNCHANGED events

\* SELECT of all events and the validation of the candidate against them; a
\* rejection rolls back.  Of the candidate only the position matters before.
Validate(c, candidate) ==
    /\ session[c].at = "locked"
    /\ session[c].position = candidate.position
    /\ LET stored == validate_appended_event(events, candidate) IN
       \/ \E e \in stored :
            /\ session' = [session EXCEPT ![c] =
                             [at |-> "validated", position |-> e.position, event |-> e]]
            /\ UNCHANGED lock
       \/ stored = {} /\ End(c)
    /\ UNCHANGED events

\* INSERT and COMMIT; a taken identity is AggregateAlreadyExists.
_insert(c) ==
    /\ session[c].at = "validated"
    /\ \/ /\ \A e \in events : e.governance_id # session[c].event.governance_id
          /\ events' = events \cup {session[c].event}
       \/ /\ \E e \in events : e.governance_id = session[c].event.governance_id
          /\ UNCHANGED events
    /\ End(c)

Die(c) ==
    /\ session[c] # Idle
    /\ End(c)
    /\ UNCHANGED events

append_validated(c) ==
    \/ \E p \in Position : Acquire(c, p)
    \/ \E candidate \in Candidate : Validate(c, candidate)
    \/ _insert(c)

Next == \E c \in Client : append_validated(c) \/ Die(c)

Spec == Init /\ [][Next]_vars

------------------------------------------------------------------------------

\* The order the fold uses is total although it breaks ties by identity: two
\* writers to different positions, whose locks do not meet, never store the
\* same identity twice.
OneEventPerId ==
    \A e, f \in events : e.governance_id = f.governance_id => e = f

\* The ledger is coherent: whatever two writers to one position raced, and
\* however far back they dated their events, the whole stored sequence of the
\* position folds.
LedgerFolds ==
    \A p \in Position : OfPosition(events, p) # {} => Folds(OfPosition(events, p))

\* What the loop computes, said without a loop: the position was opened once,
\* by its first event; it is closed when a CLOSED event or reductions of the
\* whole opened quantity are in, which nothing may follow; and what is open is
\* what was opened less what was reduced.
DerivesReference ==
    \A p \in Position, t \in Instant :
        LET considered == OfPosition(Considered(events, t), p)
            Quantity(kind) == Total({e \in considered : e.kind = kind})
            remaining == Quantity("OPENED") - Quantity("REDUCED")
            closing == {e \in considered : e.kind = "CLOSED"}
            state == derive_position_state(events, p, t)
        IN  considered # {} =>
              /\ \E e \in considered :
                    /\ e.kind = "OPENED"
                    /\ \A f \in considered \ {e} :
                          Before(e, f) /\ f.kind # "OPENED" /\ f.instrument = e.instrument
              /\ \A e \in closing : \A f \in considered \ {e} : Before(f, e)
              /\ state.status = IF closing # {} \/ remaining = 0 THEN "closed" ELSE "open"
              /\ state.quantity = IF closing # {} THEN 0 ELSE remaining

\* A late assertion can only take away: once a position is known at an
\* instant, back-dated events never make it larger at that instant, never
\* make it disappear and never reopen it.
ExposureOnlyShrinks ==
    [][\A p \in Position, t \in Instant :
          LET then == derive_position_state(events, p, t)
              now == derive_position_state(events', p, t)
          IN  then.status # "none" =>
                /\ now.status = then.status \/ now.status = "closed"
                /\ now.quantity <= then.quantity]_events

=============================================================================
