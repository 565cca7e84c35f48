--------------------------- MODULE EvidencePackage ---------------------------
(***************************************************************************)
(* The EvidencePackage aggregate: business methods, reconstruction test,   *)
(* and the package as an object whose methods are called one at a time.    *)
(* Criterion results and artifact references are identified by their       *)
(* criterion_id and value.                                                 *)
(***************************************************************************)
EXTENDS Aggregate

CONSTANTS Criterion, Artifact,  \* criterion ids, artifact reference values
          NoPackage,            \* the package does not exist yet
          MaxVersion

VARIABLE package

\* Positions of the child tables, in the order get() selects them.
CriterionResults == 1
ArtifactReferences == 2

create == NewAggregate("INITIALIZED", <<>>, << <<>>, <<>> >>)

start_collection(a) == Transition(a, {"INITIALIZED"}, "COLLECTING", NoReason)

\* Mutant: content may be added in any state.
AddAlways(a, table, value) ==
    IF \A i \in 1..Len(a.tables[table]) : a.tables[table][i] # value
    THEN {AppendOwned(a, table, value)}
    ELSE {}

AddWhileCollecting(a, table, value) ==
    IF /\ a.root.lifecycle_state = "COLLECTING"
       /\ \A i \in 1..Len(a.tables[table]) : a.tables[table][i] # value
    THEN {AppendOwned(a, table, value)}
    ELSE {}

add_criterion_result(a, criterion_id) == AddWhileCollecting(a, CriterionResults, criterion_id)

add_artifact_reference(a, value) == AddWhileCollecting(a, ArtifactReferences, value)

HasContent(a) == a.tables[CriterionResults] # <<>> /\ a.tables[ArtifactReferences] # <<>>

seal(a) ==
    IF HasContent(a) THEN Transition(a, {"COLLECTING"}, "SEALED", NoReason) ELSE {}

invalidate(a) == Transition(a, {"SEALED"}, "INVALIDATED", Given)

AllowedEdges ==
    {<<"INITIALIZED", "COLLECTING">>, <<"COLLECTING", "SEALED">>, <<"SEALED", "INVALIDATED">>}

TerminalStates == {"INVALIDATED"}

\* _reconstruct_evidence_package accepts the aggregate.
Reconstructs(a) ==
    LET criteria == a.tables[CriterionResults]
        artifacts == a.tables[ArtifactReferences]
        h == transition_history(a)
    IN
    /\ ValidHistory(a, "INITIALIZED", AllowedEdges, TerminalStates)
    /\ NoDuplicates(criteria) /\ NoDuplicates(artifacts)
    /\ Len(criteria) + Len(artifacts) <= a.root.version
    /\ a.root.lifecycle_state = "INITIALIZED" => criteria = <<>> /\ artifacts = <<>>
    /\ a.root.lifecycle_state \in {"SEALED", "INVALIDATED"} => HasContent(a)
    /\ a.root.lifecycle_state = "INVALIDATED" => h # <<>> /\ h[Len(h)].reason = Given

Mutations(a) ==
    UNION {start_collection(a), seal(a),
           UNION {add_criterion_result(a, x) : x \in Criterion},
           UNION {add_artifact_reference(a, x) : x \in Artifact},
           invalidate(a)}

Init == package = NoPackage

Create == package = NoPackage /\ package' = create

Mutate == /\ package # NoPackage
          /\ \E a \in Mutations(package) : a.root.version <= MaxVersion /\ package' = a

Next == Create \/ Mutate

Spec == Init /\ [][Next]_package

=============================================================================
