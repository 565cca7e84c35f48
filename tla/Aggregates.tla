----------------------------- MODULE Aggregates -----------------------------
(***************************************************************************)
(* The Run, EvidencePackage and Review use cases over one database.  Rows  *)
(* of different identities never meet, so one identity is followed, and    *)
(* "kind" says what it belongs to.  Besides the three aggregates with      *)
(* their use cases there are                                               *)
(*   - a Campaign whose callers also pass versions the repository has not  *)
(*     told them, one ahead of the stored one ("Guess");                   *)
(*   - the Run and the EvidencePackage used as plain objects, which has    *)
(*     the methods no use case calls (Run.cancel,                          *)
(*     EvidencePackage.invalidate) called as well.                         *)
(***************************************************************************)
EXTENDS AggregateStore, SequencesExt

CONSTANTS Scope, ManifestId, NoManifestId, Criterion, Artifact, Disposition, NoDisposition,
          MaxGuessVersion,   \* MaxVersion of the Campaign with guessed versions
          MaxObjectVersion   \* MaxVersion of the plain objects

VARIABLE kind

Kind == {"Run", "EvidencePackage", "Review", "Guess", "RunObject", "PackageObject"}

vars == <<db, committed, session, kind>>

RunCases == INSTANCE RunHandlers
PackageCases == INSTANCE EvidencePackageHandlers
ReviewCases == INSTANCE ReviewHandlers
GuessCases == INSTANCE CampaignHandlers
                 WITH Ahead <- 1, MaxVersion <- MaxGuessVersion, ScopeStatement <- Scope
RunObject == INSTANCE Run WITH run <- db, NoRun <- NoRow, MaxVersion <- MaxObjectVersion
PackageObject == INSTANCE EvidencePackage
                    WITH package <- db, NoPackage <- NoRow, MaxVersion <- MaxObjectVersion

Runs == AggregatesOf({<<>>}, ManifestId \cup {NoManifestId}, 2)

Packages == AggregatesOf({<<>>}, Criterion \cup Artifact, 3)

Reviews == AggregatesOf([disposition : Disposition \cup {NoDisposition}, rationale : BOOLEAN,
                         cancellation : BOOLEAN], Nat, 2)

Campaigns == AggregatesOf(Scope, {}, 1)

ASSUME MarkersAssumption ==
    /\ NoRow \notin Runs \cup Packages \cup Reviews \cup Campaigns
    /\ NoDisposition \notin Disposition

Init == StoreInit /\ kind \in Kind

Next ==
    /\ UNCHANGED kind
    /\ \/ kind = "Run" /\ RunCases!Next
       \/ kind = "EvidencePackage" /\ PackageCases!Next
       \/ kind = "Review" /\ ReviewCases!Next
       \/ kind = "Guess" /\ GuessCases!CampaignNext
       \/ kind = "RunObject" /\ RunObject!Next /\ UNCHANGED <<committed, session>>
       \/ kind = "PackageObject" /\ PackageObject!Next /\ UNCHANGED <<committed, session>>

Spec == Init /\ [][Next]_vars

------------------------------------------------------------------------------
\* Whatever the order of business methods and the interleaving of handlers,
\* what is stored passes the reconstruction rules of its kind, which are a
\* second implementation of the methods' guards: a saved aggregate can always
\* be loaded again.  Callers pass versions they were told: of the kind "Guess",
\* whose callers do not, nothing is said here.
StoredReconstructs ==
    /\ kind = "Run" => RunCases!StoredReconstructs
    /\ kind = "EvidencePackage" => PackageCases!StoredReconstructs
    /\ kind = "Review" => ReviewCases!StoredReconstructs
    /\ kind = "RunObject" /\ db # NoRow => RunObject!Reconstructs(db)
    /\ kind = "PackageObject" /\ db # NoRow => PackageObject!Reconstructs(db)

\* What a package load that mixes commits can still be relied on for: its
\* content is never older than its root row, so a package seen as SEALED is
\* seen with its final content.
SealedLoadIsExact == kind = "EvidencePackage" => PackageCases!SealedLoadIsExact

\* No lost update: what is stored behaves as one object whose methods are
\* called one at a time, although handlers read its rows in several statements
\* and write them back in another transaction.  It holds of callers that pass
\* versions they were told and is not claimed of the kind "Guess": a version one
\* ahead takes the UNCHANGED branch of save(), which rewrites the root row.
Atomic ==
    [][/\ kind = "Run" => RunCases!Domain!Next
       /\ kind = "EvidencePackage" => PackageCases!Domain!Next
       /\ kind = "Review" => ReviewCases!Domain!Next]_db

\* save() deletes and re-inserts every child row, and still no interleaving of
\* handlers, not even with a wrong expected version (kind "Guess"), drops,
\* rewrites or reorders a manifest, a result, a finding or a transition.  It is
\* about child rows only: what a wrong version does to the root row is left open.
ChildRowsOnlyGrow ==
    [][db # NoRow =>
          \A t \in 1..Len(db.tables) : IsPrefix(db.tables[t], db'.tables[t])]_db

\* An aggregate that is finished is frozen: no handler that loaded it earlier
\* (a late finding or manifest, a competing completion, failure or
\* cancellation, a result for a package since sealed) changes it any more.
FinishedIsFrozen ==
    [][db # NoRow =>
          /\ kind = "Run" => db.root.lifecycle_state \notin RunObject!TerminalStates
          /\ kind = "EvidencePackage" => db.root.lifecycle_state # "SEALED"
          /\ kind = "Review" => db.root.attributes.disposition = NoDisposition]_db
=============================================================================
