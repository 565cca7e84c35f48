------------------------ MODULE OperatorEventReceipts ------------------------
(***************************************************************************)
(* Receipts for committed operator events (M082) and evidence watermarks   *)
(* over the receipts (M083), with concurrent clients of                    *)
(* PostgresOperatorEventReceiptRepository.attest and                       *)
(* PostgresEvaluationEvidenceWatermarkRepository.capture.                   *)
(*                                                                         *)
(* Each SELECT is a transaction of its own.  The INSERT of a receipt and   *)
(* its COMMIT are one step: the row is seen by nobody before, and an       *)
(* INSERT of the same key only waits for its fate.  The INSERT of a        *)
(* watermark and its COMMIT are two: the set it stores is fixed by the     *)
(* statement and older than the commit.  Events are the identities the     *)
(* ledger has committed.  The clock that labels a receipt is trusted by    *)
(* nobody and may show any instant.  A client may die in any step.          *)
(***************************************************************************)
EXTENDS Naturals

CONSTANTS Client, EventId, ReceiptId, WatermarkId, Instant

VARIABLES events,      \* committed governance ids of operator_position_event
          receipts,    \* table operator_event_receipt
          watermarks,  \* table evaluation_evidence_watermark
          session      \* session[c]: the call a client is in

vars == <<events, receipts, watermarks, session>>

OperatorEventReceipt ==
    [receipt_governance_id : ReceiptId, event_governance_id : EventId,
     system_received_at : Instant]

EvaluationEvidenceWatermark ==
    [watermark_governance_id : WatermarkId, receipt_governance_ids : SUBSET ReceiptId]

Idle == [at |-> "idle"]

Session ==
    {Idle}
    \cup [at : {"attest"}, id : ReceiptId, event : EventId]
    \cup [at : {"insert"}, row : OperatorEventReceipt]
    \cup [at : {"conflicted", "raised"}, event : EventId]
    \cup [at : {"capture", "superseded"}, id : WatermarkId]
    \cup [at : {"captured"}, row : EvaluationEvidenceWatermark]
    \cup [at : {"returned"}, row : OperatorEventReceipt \cup EvaluationEvidenceWatermark]

Init ==
    /\ events = {}
    /\ receipts = {}
    /\ watermarks = {}
    /\ session = [c \in Client |-> Idle]

Go(c, s) == session' = [session EXCEPT ![c] = s]

\* The call returned the row, or raised.
Returned(row) == [at |-> "returned", row |-> row]
Raised(event) == [at |-> "raised", event |-> event]
Resting(c) == session[c].at \in {"idle", "returned", "raised"}

\* The ledger commits an event; see OperatorPositionLedger.
RecordOperatorPositionEvent(e) ==
    /\ e \notin events
    /\ events' = events \cup {e}
    /\ UNCHANGED <<receipts, watermarks, session>>

------------------------------------------------------------------------------
get_for_event(e) == {r \in receipts : r.event_governance_id = e}

\* attest: return the receipt if there is one.
AttestLookup(c, id, e) ==
    /\ Resting(c)
    /\ \/ \E r \in get_for_event(e) : Go(c, Returned(r))
       \/ get_for_event(e) = {} /\ Go(c, [at |-> "attest", id |-> id, event |-> e])
    /\ UNCHANGED <<events, receipts, watermarks>>

\* The trigger that wants the event committed by an earlier transaction, and
\* the read-back that refuses an event that cannot be seen.
PriorCommitted(e) == e \in events

AttestReadBack(c, label) ==
    /\ session[c].at = "attest"
    /\ LET e == session[c].event IN
       \/ /\ PriorCommitted(e)
          /\ Go(c, [at |-> "insert",
                    row |-> [receipt_governance_id |-> session[c].id, event_governance_id |-> e,
                             system_received_at |-> label]])
       \/ ~PriorCommitted(e) /\ Go(c, Raised(e))
    /\ UNCHANGED <<events, receipts, watermarks>>

\* Mutant: a loser hands out the receipt it could not store.
AttestInsertOwn(c) ==
    /\ session[c].at = "insert"
    /\ LET row == session[c].row IN
       /\ receipts' = IF get_for_event(row.event_governance_id) = {}
                      THEN receipts \cup {row} ELSE receipts
       /\ Go(c, Returned(row))
    /\ UNCHANGED <<events, watermarks>>

\* Mutant: any unique violation is taken for one of the event.
AttestInsertAnyConflict(c) ==
    /\ session[c].at = "insert"
    /\ LET row == session[c].row
           id_taken == \E r \in receipts : r.receipt_governance_id = row.receipt_governance_id
       IN
       \/ /\ ~id_taken /\ get_for_event(row.event_governance_id) = {}
          /\ receipts' = receipts \cup {row}
          /\ Go(c, Returned(row))
       \/ /\ id_taken \/ get_for_event(row.event_governance_id) # {}
          /\ Go(c, [at |-> "conflicted", event |-> row.event_governance_id])
          /\ UNCHANGED receipts
    /\ UNCHANGED <<events, watermarks>>

\* INSERT and COMMIT.  A taken receipt id violates the primary key, which is
\* raised; a taken event violates uq_operator_event_receipt_event, which makes
\* the caller look for the winner.  Where both are violated PostgreSQL names
\* the one it checks first.
AttestInsert(c) ==
    /\ session[c].at = "insert"
    /\ LET row == session[c].row
           id_taken == \E r \in receipts : r.receipt_governance_id = row.receipt_governance_id
           event_taken == get_for_event(row.event_governance_id) # {}
       IN
       \/ /\ ~id_taken /\ ~event_taken /\ PriorCommitted(row.event_governance_id)
          /\ receipts' = receipts \cup {row}
          /\ Go(c, Returned(row))
       \/ /\ id_taken
          /\ Go(c, Raised(row.event_governance_id))
          /\ UNCHANGED receipts
       \/ /\ event_taken
          /\ Go(c, [at |-> "conflicted", event |-> row.event_governance_id])
          /\ UNCHANGED receipts
    /\ UNCHANGED <<events, watermarks>>

AttestWinner(c) ==
    /\ session[c].at = "conflicted"
    /\ \E winner \in get_for_event(session[c].event) : Go(c, Returned(winner))
    /\ UNCHANGED <<events, receipts, watermarks>>

------------------------------------------------------------------------------
get(w) == {x \in watermarks : x.watermark_governance_id = w}

\* capture: return the watermark if there is one.
CaptureLookup(c, w) ==
    /\ Resting(c)
    /\ \/ \E x \in get(w) : Go(c, Returned(x))
       \/ get(w) = {} /\ Go(c, [at |-> "capture", id |-> w])
    /\ UNCHANGED <<events, receipts, watermarks>>

\* Mutant: the caller names the receipts of the watermark.
CapturedByCaller == SUBSET {r.receipt_governance_id : r \in receipts}

\* The trigger evaluation_evidence_watermark_capture_receipt_set: the receipts
\* the INSERT statement sees, whatever the caller supplied.
CapturedSets == {{r.receipt_governance_id : r \in receipts}}

CaptureInsert(c) ==
    /\ session[c].at = "capture"
    /\ \E ids \in CapturedSets :
        Go(c, [at |-> "captured",
               row |-> [watermark_governance_id |-> session[c].id,
                        receipt_governance_ids |-> ids]])
    /\ UNCHANGED <<events, receipts, watermarks>>

\* COMMIT, unless a concurrent capture of the same identity came first.
CaptureCommit(c) ==
    /\ session[c].at = "captured"
    /\ LET row == session[c].row
           w == row.watermark_governance_id
       IN
       \/ /\ get(w) = {}
          /\ watermarks' = watermarks \cup {row}
          /\ Go(c, Returned(row))
       \/ /\ get(w) # {}
          /\ Go(c, [at |-> "superseded", id |-> w])
          /\ UNCHANGED watermarks
    /\ UNCHANGED <<events, receipts>>

CaptureWinner(c) ==
    /\ session[c].at = "superseded"
    /\ \E winner \in get(session[c].id) : Go(c, Returned(winner))
    /\ UNCHANGED <<events, receipts, watermarks>>

------------------------------------------------------------------------------
Die(c) ==
    /\ session[c] # Idle
    /\ Go(c, Idle)
    /\ UNCHANGED <<events, receipts, watermarks>>

attest(c) ==
    \/ \E id \in ReceiptId, e \in EventId : AttestLookup(c, id, e)
    \/ \E label \in Instant : AttestReadBack(c, label)
    \/ AttestInsert(c)
    \/ AttestWinner(c)

capture(c) ==
    \/ \E w \in WatermarkId : CaptureLookup(c, w)
    \/ CaptureInsert(c)
    \/ CaptureCommit(c)
    \/ CaptureWinner(c)

Next ==
    \/ \E e \in EventId : RecordOperatorPositionEvent(e)
    \/ \E c \in Client : attest(c) \/ capture(c) \/ Die(c)

Spec == Init /\ [][Next]_vars

------------------------------------------------------------------------------
\* The tables and the calls hold values of their types.
TypeOK ==
    /\ events \subseteq EventId
    /\ receipts \subseteq OperatorEventReceipt
    /\ watermarks \subseteq EvaluationEvidenceWatermark
    /\ session \in [Client -> Session]

\* One authority per event and per watermark identity: there is one row for
\* each; every call that returned, winner, loser or late retry, returned that
\* row; and a call that was told of a conflict is never stuck, whatever raced
\* or died in between, for the row it has to report can be read (the
\* RuntimeError after a conflict is unreachable).  Calls whose INSERT raised are
\* the subject of LoserReportsWinner.
OneAuthority ==
    /\ \A r, s \in receipts :
          r.event_governance_id = s.event_governance_id
          \/ r.receipt_governance_id = s.receipt_governance_id => r = s
    /\ \A x, y \in watermarks :
          x.watermark_governance_id = y.watermark_governance_id => x = y
    /\ \A c \in Client :
          /\ session[c].at = "returned" => session[c].row \in receipts \cup watermarks
          /\ session[c].at = "conflicted" => get_for_event(session[c].event) # {}
          /\ session[c].at = "superseded" => get(session[c].id) # {}

\* The chain of evidence has no gap: a receipt names a committed event, a
\* watermark names stored receipts, and two watermarks never contradict each
\* other, since the receipts of one include those of the other whatever the
\* order in which their captures committed.
EvidenceIsChained ==
    LET captured == {x.receipt_governance_ids : x \in watermarks}
    IN  /\ \A r \in receipts : r.event_governance_id \in events
        /\ \A ids \in captured : ids \subseteq {r.receipt_governance_id : r \in receipts}
        /\ \A ids, others \in captured : ids \subseteq others \/ others \subseteq ids

\* What the comment on the conflict branch of attest says: "Two concurrent
\* attesters for one event: the database decides.  The loser reports the
\* winner's receipt, not a fault."  So no attest call raises once its event has
\* a receipt.  The code breaks this: a loser that carries the winner's own
\* receipt id (the same command, started twice) violates the primary key too,
\* and where PostgreSQL names that one the violation is raised.
LoserReportsWinner ==
    [][\A c \in Client :
          session[c].at # "raised" /\ session'[c].at = "raised" =>
             get_for_event(session'[c].event) = {}]_vars
==============================================================================
