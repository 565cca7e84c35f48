---------------------------- MODULE ReviewHandlers ----------------------------
(***************************************************************************)
(* The Review use cases over the Review repository.                        *)
(***************************************************************************)
EXTENDS AggregateStore

CONSTANTS Disposition, NoDisposition

Domain == INSTANCE Review WITH review <- db, NoReview <- NoRow

CreateReview == add(Domain!create)

\* get() hands the aggregate to the handler only if it reconstructs.
get(c) == IsLoaded(c) /\ Domain!Reconstructs(Loaded(c))

Command(c, results) == get(c) /\ Handle(c, results)

StartReview(c) == Command(c, Domain!start(Loaded(c)))

AddReviewFinding(c) == Command(c, Domain!add_finding(Loaded(c)))

CompleteReview(c) ==
    \E d \in Disposition : Command(c, Domain!complete(Loaded(c), d))

CancelReview(c) == Command(c, Domain!cancel(Loaded(c)))

Init == StoreInit

ClientStep(c) ==
    \/ Reading(c)
    \/ StartReview(c) \/ AddReviewFinding(c) \/ CompleteReview(c) \/ CancelReview(c)

Next == CreateReview \/ \E c \in Client : ClientStep(c)

Spec == Init /\ [][Next]_storeVars

------------------------------------------------------------------------------
\* What is stored passes _reconstruct_review: contiguous findings, and terminal
\* metadata present exactly when the stored state and its history call for it.
StoredReconstructs == db # NoRow => Domain!Reconstructs(db)

=============================================================================
