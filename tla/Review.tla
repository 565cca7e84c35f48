------------------------------- MODULE Review -------------------------------
(***************************************************************************)
(* The Review aggregate: business methods, reconstruction test, and the    *)
(* Review as an object whose methods are called one at a time.  The root   *)
(* carries the terminal metadata: the disposition, and whether a final     *)
(* rationale and a cancellation reason are set.                            *)
(***************************************************************************)
EXTENDS Aggregate

CONSTANTS Disposition,    \* final dispositions of a Review
          NoDisposition,  \* none recorded
          NoReview,       \* the Review does not exist yet
          MaxVersion

VARIABLE review

Findings == 1  \* position of the finding table

NoMetadata == [disposition |-> NoDisposition, rationale |-> FALSE, cancellation |-> FALSE]

create == NewAggregate("ASSIGNED", NoMetadata, << <<>> >>)

start(a) == Transition(a, {"ASSIGNED"}, "IN_PROGRESS", NoReason)

\* _reconstruct_review derives the next finding sequence from the last finding.
next_finding_sequence(a) ==
    LET f == a.tables[Findings] IN IF f = <<>> THEN 1 ELSE f[Len(f)] + 1

add_finding(a) ==
    IF a.root.lifecycle_state = "IN_PROGRESS"
    THEN {AppendOwned(a, Findings, next_finding_sequence(a))}
    ELSE {}

\* Mutant: a Review without findings may be completed.
CompleteWithoutFindings(a, disposition) ==
    {[b EXCEPT !.root.attributes.disposition = disposition,
               !.root.attributes.rationale = TRUE] :
        b \in Transition(a, {"IN_PROGRESS"}, "COMPLETED", Given)}

complete(a, disposition) ==
    IF a.tables[Findings] = <<>> THEN {}
    ELSE {[b EXCEPT !.root.attributes.disposition = disposition,
                    !.root.attributes.rationale = TRUE] :
             b \in Transition(a, {"IN_PROGRESS"}, "COMPLETED", Given)}

cancel(a) ==
    {[b EXCEPT !.root.attributes.cancellation = TRUE] :
        b \in Transition(a, {"ASSIGNED", "IN_PROGRESS"}, "CANCELLED", Given)}

AllowedEdges ==
    {<<"ASSIGNED", "IN_PROGRESS">>, <<"IN_PROGRESS", "COMPLETED">>,
     <<"ASSIGNED", "CANCELLED">>, <<"IN_PROGRESS", "CANCELLED">>}

TerminalStates == {"COMPLETED", "CANCELLED"}

ValidTerminalMetadata(a) ==
    LET m == a.root.attributes IN
    CASE a.root.lifecycle_state = "COMPLETED" ->
            /\ a.tables[Findings] # <<>>
            /\ m.disposition # NoDisposition /\ m.rationale /\ ~m.cancellation
      [] a.root.lifecycle_state = "CANCELLED" ->
            m.disposition = NoDisposition /\ ~m.rationale /\ m.cancellation
      [] OTHER -> m = NoMetadata

\* _reconstruct_review accepts the aggregate.
Reconstructs(a) ==
    LET findings == a.tables[Findings] IN
    /\ ValidHistory(a, "ASSIGNED", AllowedEdges, TerminalStates)
    /\ \A i \in 1..Len(findings) : findings[i] = i
    /\ Len(findings) <= a.root.version
    /\ ValidTerminalMetadata(a)

Mutations(a) ==
    UNION {start(a), add_finding(a),
           UNION {complete(a, d) : d \in Disposition}, cancel(a)}

Init == review = NoReview

Create == review = NoReview /\ review' = create

Mutate == /\ review # NoReview
          /\ \E a \in Mutations(review) : a.root.version <= MaxVersion /\ review' = a

Next == Create \/ Mutate

Spec == Init /\ [][Next]_review
=============================================================================
