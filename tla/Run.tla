-------------------------------- MODULE Run --------------------------------
(***************************************************************************)
(* The Run aggregate: business methods, reconstruction test, and the Run   *)
(* as an object whose methods are called one at a time.  Its only owned    *)
(* collection is the list of dataset manifests; of a manifest only the     *)
(* optional manifest_id matters (the handler builds every manifest with    *)
(* the run's own id, so the run_id test cannot fail).                      *)
(***************************************************************************)
EXTENDS Aggregate

CONSTANTS ManifestId,    \* identifiers of dataset manifests
          NoManifestId,  \* a manifest recorded without an identifier
          NoRun,         \* the Run does not exist yet
          MaxVersion

VARIABLE run

Manifests == 1  \* position of the manifest table

ManifestAppendStates ==
    {"CREATED", "AUTHORIZED", "ACQUIRING", "NORMALIZING", "VALIDATING"}

create == NewAggregate("CREATED", <<>>, << <<>> >>)

authorize(a) == Transition(a, {"CREATED"}, "AUTHORIZED", NoReason)

start_acquisition(a) == Transition(a, {"AUTHORIZED"}, "ACQUIRING", NoReason)

start_normalization(a) == Transition(a, {"ACQUIRING"}, "NORMALIZING", NoReason)

start_validation(a) == Transition(a, {"NORMALIZING"}, "VALIDATING", NoReason)

complete_execution(a) ==
    Transition(a, {"VALIDATING"}, "EXECUTION_COMPLETED", NoReason)

\* A Run can be cancelled only before it starts, and fail only afterwards.
cancel(a) == Transition(a, {"AUTHORIZED"}, "CANCELLED", Given)

fail(a) == Transition(a, {"ACQUIRING", "NORMALIZING", "VALIDATING"}, "FAILED", Given)

append_manifest(a, manifest_id) ==
    IF /\ a.root.lifecycle_state \in ManifestAppendStates
       /\ manifest_id = NoManifestId
          \/ \A i \in 1..Len(a.tables[Manifests]) : a.tables[Manifests][i] # manifest_id
    THEN {AppendOwned(a, Manifests, manifest_id)}
    ELSE {}

AllowedEdges ==
    {<<"CREATED", "AUTHORIZED">>, <<"AUTHORIZED", "ACQUIRING">>,
     <<"ACQUIRING", "NORMALIZING">>, <<"NORMALIZING", "VALIDATING">>,
     <<"VALIDATING", "EXECUTION_COMPLETED">>, <<"AUTHORIZED", "CANCELLED">>,
     <<"ACQUIRING", "FAILED">>, <<"NORMALIZING", "FAILED">>, <<"VALIDATING", "FAILED">>}

TerminalStates == {"EXECUTION_COMPLETED", "FAILED", "CANCELLED"}

\* _reconstruct_run accepts the aggregate.
Reconstructs(a) ==
    LET manifests == a.tables[Manifests]  h == transition_history(a) IN
    /\ ValidHistory(a, "CREATED", AllowedEdges, TerminalStates)
    /\ \A i, j \in 1..Len(manifests) :
          manifests[i] = manifests[j] /\ manifests[i] # NoManifestId => i = j
    /\ Len(manifests) <= a.root.version
    /\ a.root.lifecycle_state \in {"FAILED", "CANCELLED"} => h # <<>> /\ h[Len(h)].reason = Given

Mutations(a) ==
    UNION {authorize(a), start_acquisition(a), start_normalization(a), start_validation(a),
           complete_execution(a), cancel(a), fail(a),
           UNION {append_manifest(a, m) : m \in ManifestId \cup {NoManifestId}}}

Init == run = NoRun

Create == run = NoRun /\ run' = create

Mutate == /\ run # NoRun
          /\ \E a \in Mutations(run) : a.root.version <= MaxVersion /\ run' = a

Next == Create \/ Mutate

Spec == Init /\ [][Next]_run

=============================================================================
