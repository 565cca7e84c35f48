------------------------------ MODULE Aggregate ------------------------------
(***************************************************************************)
(* What the four aggregate roots (Campaign, Run, EvidencePackage, Review)  *)
(* have in common: a versioned root with a lifecycle state, an append-only *)
(* transition history, and collections of owned values.                    *)
(*                                                                         *)
(* An aggregate is split the way its durable record is: "root" holds the   *)
(* columns of the root row, "tables" the child tables in the order in      *)
(* which the repository's get() selects them; the transition history is    *)
(* always the last one.  Actors, times, correlation ids and identity       *)
(* references of a transition record are payload and left out.  Of a       *)
(* reason only its presence matters, and only on the edges where some rule *)
(* asks for it; a reason that is optional and never read back is recorded  *)
(* as absent.                                                              *)
(***************************************************************************)
EXTENDS Naturals, Sequences

Given == "given"     \* a transition recorded with a reason
NoReason == "none"

Reasons == {Given, NoReason}

HistoryTable(a) == Len(a.tables)

transition_history(a) == a.tables[HistoryTable(a)]

\* A freshly constructed aggregate: version 0, next transition sequence 1,
\* empty history; "owned" are the empty tables of its owned collections.
NewAggregate(initial_state, attributes, owned) ==
    [root   |-> [lifecycle_state |-> initial_state, version |-> 0,
                 next_transition_sequence |-> 1, attributes |-> attributes],
     tables |-> Append(owned, <<>>)]

\* _transition of the four aggregates.  A method is the set of aggregates it
\* can leave behind: a singleton, or empty when the method raises.
Transition(a, allowed_states, next_state, reason) ==
    IF a.root.lifecycle_state \in allowed_states
    THEN {[root   |-> [a.root EXCEPT !.lifecycle_state = next_state,
                                     !.version = @ + 1,
                                     !.next_transition_sequence = @ + 1],
           tables |-> [a.tables EXCEPT ![HistoryTable(a)] =
                         Append(@, [from_state |-> a.root.lifecycle_state,
                                    to_state   |-> next_state,
                                    version    |-> a.root.version + 1,
                                    sequence   |-> a.root.next_transition_sequence,
                                    reason     |-> reason])]]}
    ELSE {}

\* A mutation that appends one owned value: it takes a version of its own but
\* is no lifecycle transition.
AppendOwned(a, table, value) ==
    [root   |-> [a.root EXCEPT !.version = @ + 1],
     tables |-> [a.tables EXCEPT ![table] = Append(@, value)]]

\* _validate_transition_history, and the version floor every _reconstruct_*
\* derives from it: no record is newer than the root.
ValidHistory(a, initial_state, allowed_edges, terminal_states) ==
    LET h == transition_history(a) IN
    /\ h = <<>> => a.root.lifecycle_state = initial_state
    /\ \A i \in 1..Len(h) :
          /\ h[i].sequence = i
          /\ <<h[i].from_state, h[i].to_state>> \in allowed_edges
          /\ h[i].from_state = IF i = 1 THEN initial_state ELSE h[i - 1].to_state
          /\ i > 1 => h[i - 1].to_state \notin terminal_states
          /\ h[i].version <= a.root.version
    /\ h # <<>> => h[Len(h)].to_state = a.root.lifecycle_state
    /\ a.root.next_transition_sequence = Len(h) + 1

NoDuplicates(values) ==
    \A i, j \in 1..Len(values) : values[i] = values[j] => i = j

------------------------------------------------------------------------------
\* The lifecycle states of the four aggregates.
LifecycleStates ==
    {"DRAFT", "READY_FOR_AUTHORIZATION", "AUTHORIZED", "ACTIVE", "SUSPENDED", "COMPLETED",
     "CANCELLED", "CREATED", "ACQUIRING", "NORMALIZING", "VALIDATING", "EXECUTION_COMPLETED",
     "FAILED", "INITIALIZED", "COLLECTING", "SEALED", "INVALIDATED", "ASSIGNED", "IN_PROGRESS"}

Records == [from_state : LifecycleStates, to_state : LifecycleStates, version : Nat,
            sequence : Nat, reason : Reasons]

Roots(attributes) ==
    [lifecycle_state : LifecycleStates, version : Nat, next_transition_sequence : Nat,
     attributes : attributes]

\* The well-typed aggregates with n child tables and values from "owned" in them.
AggregatesOf(attributes, owned, n) ==
    {a \in [root : Roots(attributes), tables : Seq(Seq(owned \cup Records))] :
        Len(a.tables) = n /\ a.tables[n] \in Seq(Records)}
=============================================================================
