----------------------------- MODULE RunHandlers -----------------------------
(***************************************************************************)
(* The Run use cases over the Run repository.  No use case calls           *)
(* Run.cancel.  CreateRun relies on the foreign key to campaign, which is  *)
(* taken to be satisfied.                                                  *)
(***************************************************************************)
EXTENDS AggregateStore

CONSTANTS ManifestId, NoManifestId

Domain == INSTANCE Run WITH run <- db, NoRun <- NoRow

CreateRun == add(Domain!create)

\* get() hands the aggregate to the handler only if it reconstructs.
get(c) == IsLoaded(c) /\ Domain!Reconstructs(Loaded(c))

Command(c, results) == get(c) /\ Handle(c, results)

AuthorizeRun(c) == Command(c, Domain!authorize(Loaded(c)))

StartRunAcquisition(c) == Command(c, Domain!start_acquisition(Loaded(c)))

StartRunNormalization(c) == Command(c, Domain!start_normalization(Loaded(c)))

StartRunValidation(c) == Command(c, Domain!start_validation(Loaded(c)))

CompleteRunExecution(c) == Command(c, Domain!complete_execution(Loaded(c)))

FailRun(c) == Command(c, Domain!fail(Loaded(c)))

AppendRunManifest(c) ==
    \E m \in ManifestId \cup {NoManifestId} : Command(c, Domain!append_manifest(Loaded(c), m))

Init == StoreInit

ClientStep(c) ==
    \/ Reading(c)
    \/ AuthorizeRun(c) \/ StartRunAcquisition(c) \/ StartRunNormalization(c)
    \/ StartRunValidation(c) \/ CompleteRunExecution(c) \/ FailRun(c)
    \/ AppendRunManifest(c)

Next == CreateRun \/ \E c \in Client : ClientStep(c)

Spec == Init /\ [][Next]_storeVars

------------------------------------------------------------------------------
\* What is stored passes _reconstruct_run.
StoredReconstructs == db # NoRow => Domain!Reconstructs(db)
=============================================================================
