----------------------- MODULE EvidencePackageHandlers -----------------------
(***************************************************************************)
(* The EvidencePackage use cases over its repository.  No use case calls   *)
(* EvidencePackage.invalidate.                                             *)
(***************************************************************************)
EXTENDS AggregateStore

CONSTANTS Criterion, Artifact

Domain == INSTANCE EvidencePackage WITH package <- db, NoPackage <- NoRow

CreateEvidencePackage == add(Domain!create)

\* get() hands the aggregate to the handler only if it reconstructs.
get(c) == IsLoaded(c) /\ Domain!Reconstructs(Loaded(c))

Command(c, results) == get(c) /\ Handle(c, results)

StartEvidencePackageCollection(c) == Command(c, Domain!start_collection(Loaded(c)))

RecordEvidencePackageCriterionResult(c) ==
    \E x \in Criterion : Command(c, Domain!add_criterion_result(Loaded(c), x))

RecordEvidencePackageArtifactReference(c) ==
    \E x \in Artifact : Command(c, Domain!add_artifact_reference(Loaded(c), x))

SealEvidencePackage(c) == Command(c, Domain!seal(Loaded(c)))

Init == StoreInit

ClientStep(c) ==
    \/ Reading(c)
    \/ StartEvidencePackageCollection(c) \/ RecordEvidencePackageCriterionResult(c)
    \/ RecordEvidencePackageArtifactReference(c) \/ SealEvidencePackage(c)

Next == CreateEvidencePackage \/ \E c \in Client : ClientStep(c)

Spec == Init /\ [][Next]_storeVars

------------------------------------------------------------------------------
\* What is stored passes _reconstruct_evidence_package.
StoredReconstructs == db # NoRow => Domain!Reconstructs(db)

\* What a torn load can still be relied on for: its content is never older than
\* its root row, so a package seen as SEALED is seen with its final content.
SealedLoadIsExact ==
    \A c \in Client :
        /\ get(c)
        /\ session[c].root.lifecycle_state = "SEALED"
        => Loaded(c) = db
=============================================================================
