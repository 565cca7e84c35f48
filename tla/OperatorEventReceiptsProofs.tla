--------------------- MODULE OperatorEventReceiptsProofs ---------------------
(***************************************************************************)
(* Proofs about OperatorEventReceipts for any number of clients, events,   *)
(* receipts and watermarks.  That the watermarks form a chain is not       *)
(* inductive: a capture that has computed its set and not yet committed    *)
(* may commit after later ones.  The inductive invariant extends the chain *)
(* to the sets of these open captures, and says what else the open calls   *)
(* rely on (HandlersFit).                                                  *)
(***************************************************************************)
EXTENDS OperatorEventReceipts, TLAPS

StoredIds == {r.receipt_governance_id : r \in receipts}

Comparable(ids, others) == ids \subseteq others \/ others \subseteq ids

\* One row per event, receipt id and watermark id.
Keys ==
    /\ \A r, s \in receipts :
          r.event_governance_id = s.event_governance_id
          \/ r.receipt_governance_id = s.receipt_governance_id => r = s
    /\ \A x, y \in watermarks :
          x.watermark_governance_id = y.watermark_governance_id => x = y

Chain ==
    /\ \A r \in receipts : r.event_governance_id \in events
    /\ \A x \in watermarks : x.receipt_governance_ids \subseteq StoredIds
    /\ \A x, y \in watermarks : Comparable(x.receipt_governance_ids, y.receipt_governance_ids)

\* What an open call in local state s relies on.
Fits(s) ==
    /\ s.at = "returned" => s.row \in receipts \cup watermarks
    /\ s.at = "conflicted" => \E r \in receipts : r.event_governance_id = s.event
    /\ s.at = "superseded" => \E x \in watermarks : x.watermark_governance_id = s.id
    /\ s.at = "captured" =>
          /\ s.row.receipt_governance_ids \subseteq StoredIds
          /\ \A x \in watermarks :
                Comparable(s.row.receipt_governance_ids, x.receipt_governance_ids)

HandlersFit ==
    /\ \A c \in Client : Fits(session[c])
    /\ \A c, d \in Client :
          session[c].at = "captured" /\ session[d].at = "captured" =>
              Comparable(session[c].row.receipt_governance_ids,
                         session[d].row.receipt_governance_ids)

IInv == TypeOK /\ Keys /\ Chain /\ HandlersFit

tables == <<events, receipts, watermarks>>

------------------------------------------------------------------------------
\* What the fields of a local state are, by the step the call is in.
LEMMA SessionFields ==
    ASSUME NEW s \in Session
    PROVE  /\ s.at = "attest" => s.id \in ReceiptId /\ s.event \in EventId
           /\ s.at = "insert" => s.row \in OperatorEventReceipt
           /\ s.at = "conflicted" => s.event \in EventId
           /\ s.at \in {"capture", "superseded"} => s.id \in WatermarkId
           /\ s.at = "captured" => s.row \in EvaluationEvidenceWatermark
<1>1. CASE s.at \in {"attest", "insert", "conflicted"}
  BY <1>1 DEF Session, Idle
<1>2. CASE s.at \in {"capture", "superseded", "captured"}
  BY <1>2 DEF Session, Idle
<1>. QED  BY <1>1, <1>2

\* A step that changes only what one call has read; a set it captures is all
\* that is stored.
LEMMA LocalStep ==
    ASSUME IInv, NEW c \in Client, NEW s \in Session, Fits(s), Go(c, s), UNCHANGED tables,
           s.at = "captured" => s.row.receipt_governance_ids = StoredIds
    PROVE  IInv'
<1>1. TypeOK'
  BY DEF IInv, TypeOK, Go, tables
<1>2. Keys' /\ Chain'
  BY DEF IInv, Keys, Chain, StoredIds, tables
<1>3. \A d \in Client : session'[d] = IF d = c THEN s ELSE session[d]
  BY DEF IInv, TypeOK, Go
<1>4. \A d \in Client : Fits(session[d])'
  BY <1>3 DEF IInv, HandlersFit, Fits, StoredIds, tables
<1>5. ASSUME NEW d \in Client, NEW e \in Client,
             session'[d].at = "captured", session'[e].at = "captured"
      PROVE  Comparable(session'[d].row.receipt_governance_ids,
                        session'[e].row.receipt_governance_ids)
  <2>1. CASE d # c /\ e # c
    BY <1>3, <1>5, <2>1 DEF IInv, HandlersFit
  <2>2. CASE d = c \/ e = c
    BY <1>3, <1>5, <2>2 DEF IInv, HandlersFit, Fits, Comparable
  <2>. QED  BY <2>1, <2>2
<1>6. HandlersFit'
  BY <1>4, <1>5 DEF HandlersFit, Comparable
<1>. QED  BY <1>1, <1>2, <1>6 DEF IInv

LEMMA ReturnStep ==
    ASSUME IInv, NEW c \in Client, NEW row \in receipts \cup watermarks,
           Go(c, Returned(row)), UNCHANGED tables
    PROVE  IInv'
<1>1. Returned(row) \in Session
  BY DEF IInv, TypeOK, Returned, Session
<1>2. Fits(Returned(row)) /\ Returned(row).at = "returned"
  BY DEF Fits, Returned
<1>. QED  BY <1>1, <1>2, LocalStep

LEMMA RaiseStep ==
    ASSUME IInv, NEW c \in Client, NEW e \in EventId, Go(c, Raised(e)), UNCHANGED tables
    PROVE  IInv'
<1>1. Raised(e) \in Session
  BY DEF Raised, Session
<1>2. Fits(Raised(e)) /\ Raised(e).at = "raised"
  BY DEF Fits, Raised
<1>. QED  BY <1>1, <1>2, LocalStep

LEMMA DieStep ==
    ASSUME IInv, NEW c \in Client, Die(c)
    PROVE  IInv'
<1>1. Idle \in Session /\ Fits(Idle) /\ Idle.at = "idle"
  BY DEF Idle, Session, Fits
<1>. QED  BY <1>1, LocalStep DEF Die, tables

LEMMA RecordStep ==
    ASSUME IInv, NEW e \in EventId, RecordOperatorPositionEvent(e)
    PROVE  IInv'
  BY DEF IInv, TypeOK, Keys, Chain, HandlersFit, Fits, StoredIds, RecordOperatorPositionEvent

------------------------------------------------------------------------------
(* attest *)

LEMMA AttestLookupStep ==
    ASSUME IInv, NEW c \in Client, NEW id \in ReceiptId, NEW e \in EventId,
           AttestLookup(c, id, e)
    PROVE  IInv'
<1>. DEFINE s == [at |-> "attest", id |-> id, event |-> e]
<1>1. CASE \E r \in get_for_event(e) : Go(c, Returned(r))
  BY <1>1, ReturnStep DEF AttestLookup, get_for_event, tables
<1>2. CASE Go(c, s)
  <2>1. s \in Session /\ Fits(s) /\ s.at = "attest"
    BY DEF Session, Fits
  <2>. QED  BY <1>2, <2>1, LocalStep DEF AttestLookup, tables
<1>. QED  BY <1>1, <1>2 DEF AttestLookup

LEMMA AttestReadBackStep ==
    ASSUME IInv, NEW c \in Client, NEW label \in Instant, AttestReadBack(c, label)
    PROVE  IInv'
<1>. DEFINE e == session[c].event
            row == [receipt_governance_id |-> session[c].id, event_governance_id |-> e,
                    system_received_at |-> label]
            s == [at |-> "insert", row |-> row]
<1>1. session[c].id \in ReceiptId /\ e \in EventId
  BY SessionFields DEF IInv, TypeOK, AttestReadBack
<1>2. CASE Go(c, s)
  <2>1. row \in OperatorEventReceipt
    BY <1>1 DEF OperatorEventReceipt
  <2>2. s \in Session
    <3>. HIDE DEF row
    <3>. QED  BY <2>1 DEF Session
  <2>3. Fits(s) /\ s.at = "insert"
    BY DEF Fits
  <2>. QED  BY <1>2, <2>2, <2>3, LocalStep DEF AttestReadBack, tables
<1>3. CASE Go(c, Raised(e))
  BY <1>1, <1>3, RaiseStep DEF AttestReadBack, tables
<1>. QED  BY <1>2, <1>3 DEF AttestReadBack

\* The one step that stores a receipt.
LEMMA StoreReceiptStep ==
    ASSUME IInv, NEW c \in Client, NEW row \in OperatorEventReceipt,
           \A r \in receipts : /\ r.receipt_governance_id # row.receipt_governance_id
                               /\ r.event_governance_id # row.event_governance_id,
           row.event_governance_id \in events,
           receipts' = receipts \cup {row}, Go(c, Returned(row)), UNCHANGED <<events, watermarks>>
    PROVE  IInv'
<1>1. Returned(row) \in Session /\ Returned(row).at = "returned" /\ Returned(row).row = row
  BY DEF Returned, Session
<1>2. TypeOK'
  BY <1>1 DEF IInv, TypeOK, Go
<1>3. Keys'
  BY DEF IInv, Keys
<1>4. StoredIds \subseteq StoredIds'
  BY DEF StoredIds
<1>5. Chain'
  BY <1>4 DEF IInv, Chain, Comparable
<1>6. \A d \in Client : session'[d] = IF d = c THEN Returned(row) ELSE session[d]
  BY DEF IInv, TypeOK, Go
<1>7. \A d \in Client : Fits(session[d])'
  BY <1>1, <1>4, <1>6 DEF IInv, HandlersFit, Fits, Comparable
<1>8. HandlersFit'
  BY <1>1, <1>6, <1>7 DEF IInv, HandlersFit
<1>. QED  BY <1>2, <1>3, <1>5, <1>8 DEF IInv

LEMMA AttestInsertStep ==
    ASSUME IInv, NEW c \in Client, AttestInsert(c)
    PROVE  IInv'
<1>. DEFINE row == session[c].row
            e == row.event_governance_id
            s == [at |-> "conflicted", event |-> e]
<1>1. row \in OperatorEventReceipt /\ e \in EventId
  BY SessionFields DEF IInv, TypeOK, AttestInsert, OperatorEventReceipt
<1>2. CASE receipts' = receipts \cup {row} /\ Go(c, Returned(row)) /\ PriorCommitted(e)
           /\ get_for_event(e) = {}
           /\ \A r \in receipts : r.receipt_governance_id # row.receipt_governance_id
  <2>1. \A r \in receipts : r.event_governance_id # e
    BY <1>2 DEF get_for_event
  <2>. HIDE DEF row
  <2>. QED  BY <1>1, <1>2, <2>1, StoreReceiptStep DEF AttestInsert, PriorCommitted
<1>3. CASE Go(c, Raised(e)) /\ UNCHANGED receipts
  BY <1>1, <1>3, RaiseStep DEF AttestInsert, tables
<1>4. CASE Go(c, s) /\ UNCHANGED receipts /\ get_for_event(e) # {}
  <2>1. s \in Session /\ s.at = "conflicted"
    BY <1>1 DEF Session
  <2>2. Fits(s)
    BY <1>4 DEF Fits, get_for_event
  <2>. QED  BY <1>4, <2>1, <2>2, LocalStep DEF AttestInsert, tables
<1>. QED  BY <1>2, <1>3, <1>4 DEF AttestInsert

LEMMA AttestStep ==
    ASSUME IInv, NEW c \in Client, attest(c)
    PROVE  IInv'
<1>1. CASE AttestWinner(c)
  BY <1>1, ReturnStep DEF AttestWinner, get_for_event, tables
<1>. QED  BY <1>1, AttestLookupStep, AttestReadBackStep, AttestInsertStep DEF attest

------------------------------------------------------------------------------
(* capture *)

LEMMA CaptureLookupStep ==
    ASSUME IInv, NEW c \in Client, NEW w \in WatermarkId, CaptureLookup(c, w)
    PROVE  IInv'
<1>. DEFINE s == [at |-> "capture", id |-> w]
<1>1. CASE \E x \in get(w) : Go(c, Returned(x))
  BY <1>1, ReturnStep DEF CaptureLookup, get, tables
<1>2. CASE Go(c, s)
  <2>1. s \in Session /\ Fits(s) /\ s.at = "capture"
    BY DEF Session, Fits
  <2>. QED  BY <1>2, <2>1, LocalStep DEF CaptureLookup, tables
<1>. QED  BY <1>1, <1>2 DEF CaptureLookup

LEMMA CaptureInsertStep ==
    ASSUME IInv, NEW c \in Client, CaptureInsert(c)
    PROVE  IInv'
<1>. DEFINE row == [watermark_governance_id |-> session[c].id,
                    receipt_governance_ids |-> StoredIds]
            s == [at |-> "captured", row |-> row]
<1>1. session[c].id \in WatermarkId
  BY SessionFields DEF IInv, TypeOK, CaptureInsert
<1>2. StoredIds \subseteq ReceiptId
  BY DEF IInv, TypeOK, StoredIds, OperatorEventReceipt
<1>3. row \in EvaluationEvidenceWatermark
  BY <1>1, <1>2 DEF EvaluationEvidenceWatermark
<1>4. s \in Session /\ s.at = "captured"
  <2>. HIDE DEF row
  <2>. QED  BY <1>3 DEF Session
<1>5. Fits(s)
  BY DEF Fits, IInv, Chain, Comparable
<1>6. Go(c, s)
  BY DEF CaptureInsert, CapturedSets, StoredIds
<1>. QED  BY <1>4, <1>5, <1>6, LocalStep DEF CaptureInsert, tables

\* The one step that stores a watermark.
LEMMA StoreWatermarkStep ==
    ASSUME IInv, NEW c \in Client, session[c].at = "captured", NEW row, row = session[c].row,
           \A x \in watermarks : x.watermark_governance_id # row.watermark_governance_id,
           watermarks' = watermarks \cup {row}, Go(c, Returned(row)), UNCHANGED <<events, receipts>>
    PROVE  IInv'
<1>1. row \in EvaluationEvidenceWatermark
  BY SessionFields DEF IInv, TypeOK
<1>2. Returned(row) \in Session /\ Returned(row).at = "returned" /\ Returned(row).row = row
  BY <1>1 DEF Returned, Session
<1>3. TypeOK'
  BY <1>1, <1>2 DEF IInv, TypeOK, Go
<1>4. Keys'
  BY DEF IInv, Keys
<1>5. StoredIds' = StoredIds
  BY DEF StoredIds
<1>6. /\ row.receipt_governance_ids \subseteq StoredIds
      /\ \A x \in watermarks : Comparable(row.receipt_governance_ids, x.receipt_governance_ids)
      /\ \A d \in Client : session[d].at = "captured" =>
            Comparable(session[d].row.receipt_governance_ids, row.receipt_governance_ids)
  BY DEF IInv, HandlersFit, Fits
<1>7. Chain'
  BY <1>5, <1>6 DEF IInv, Chain, Comparable
<1>8. \A d \in Client : session'[d] = IF d = c THEN Returned(row) ELSE session[d]
  BY DEF IInv, TypeOK, Go
<1>9. \A d \in Client : Fits(session[d])'
  BY <1>2, <1>5, <1>6, <1>8 DEF IInv, HandlersFit, Fits
<1>10. HandlersFit'
  BY <1>2, <1>8, <1>9 DEF IInv, HandlersFit
<1>. QED  BY <1>3, <1>4, <1>7, <1>10 DEF IInv

LEMMA CaptureCommitStep ==
    ASSUME IInv, NEW c \in Client, CaptureCommit(c)
    PROVE  IInv'
<1>. DEFINE row == session[c].row
            w == row.watermark_governance_id
            s == [at |-> "superseded", id |-> w]
<1>1. session[c].at = "captured" /\ w \in WatermarkId
  BY SessionFields DEF IInv, TypeOK, CaptureCommit, EvaluationEvidenceWatermark
<1>2. CASE get(w) = {} /\ watermarks' = watermarks \cup {row} /\ Go(c, Returned(row))
  <2>1. \A x \in watermarks : x.watermark_governance_id # w
    BY <1>2 DEF get
  <2>. QED  BY <1>1, <1>2, <2>1, StoreWatermarkStep DEF CaptureCommit
<1>3. CASE get(w) # {} /\ Go(c, s) /\ UNCHANGED watermarks
  <2>1. s \in Session /\ s.at = "superseded"
    BY <1>1 DEF Session
  <2>2. Fits(s)
    BY <1>3 DEF Fits, get
  <2>. QED  BY <1>3, <2>1, <2>2, LocalStep DEF CaptureCommit, tables
<1>. QED  BY <1>2, <1>3 DEF CaptureCommit

LEMMA CaptureStep ==
    ASSUME IInv, NEW c \in Client, capture(c)
    PROVE  IInv'
<1>1. CASE CaptureWinner(c)
  BY <1>1, ReturnStep DEF CaptureWinner, get, tables
<1>. QED  BY <1>1, CaptureLookupStep, CaptureInsertStep, CaptureCommitStep DEF capture

------------------------------------------------------------------------------
LEMMA InitIInv == Init => IInv
  BY DEF Init, IInv, TypeOK, Keys, Chain, HandlersFit, Fits, Session, Idle

LEMMA NextIInv == IInv /\ [Next]_vars => IInv'
<1>. SUFFICES ASSUME IInv, [Next]_vars PROVE IInv'
  OBVIOUS
<1>1. CASE Next
  BY <1>1, RecordStep, AttestStep, CaptureStep, DieStep DEF Next
<1>2. CASE UNCHANGED vars
  BY <1>2 DEF IInv, TypeOK, Keys, Chain, HandlersFit, Fits, StoredIds, vars
<1>. QED  BY <1>1, <1>2

LEMMA Invariance == Spec => []IInv
  BY InitIInv, NextIInv, PTL DEF Spec

\* Tables and calls keep their types.
THEOREM TypeCorrect == Spec => []TypeOK
<1>1. IInv => TypeOK
  BY DEF IInv
<1>. QED  BY <1>1, Invariance, PTL

\* However attest and capture calls race, retry and die, there is one receipt
\* per event and one watermark per identity, that is what the calls that return
\* hand out, and a call that was told of a conflict finds it: the branch
\* "conflicted but cannot be read back" is unreachable.
THEOREM OneAuthorityPerIdentity == Spec => []OneAuthority
<1>1. IInv => OneAuthority
  BY DEF IInv, Keys, HandlersFit, Fits, OneAuthority, get_for_event, get
<1>. QED  BY <1>1, Invariance, PTL

\* Watermarks are nested sets of stored receipts of committed events, in
\* whatever order their captures commit.
THEOREM EvidenceStaysChained == Spec => []EvidenceIsChained
<1>1. IInv => EvidenceIsChained
  BY DEF IInv, Chain, StoredIds, Comparable, EvidenceIsChained
<1>. QED  BY <1>1, Invariance, PTL
=============================================================================
