------------------------------ MODULE Campaign ------------------------------
(***************************************************************************)
(* The Campaign aggregate: its business methods as functions of the        *)
(* aggregate, the test _reconstruct_campaign applies to what is loaded,    *)
(* and, as the promise the handlers are held to, the Campaign as an object *)
(* whose methods are called one at a time.                                 *)
(***************************************************************************)
EXTENDS Aggregate

CONSTANTS Scope,       \* scope statements
          NoCampaign,  \* the Campaign does not exist yet
          MaxVersion

VARIABLE campaign

State == {"DRAFT", "READY_FOR_AUTHORIZATION", "AUTHORIZED", "ACTIVE",
          "SUSPENDED", "COMPLETED", "CANCELLED"}

Record == [from_state : State, to_state : State, version : Nat, sequence : Nat,
           reason : Reasons]

Root == [lifecycle_state : State, version : Nat, next_transition_sequence : Nat,
         attributes : Scope]

Campaigns ==
    {a \in [root : Root, tables : Seq(Seq(Record))] : Len(a.tables) = 1}

PostAuthorization == {"AUTHORIZED", "ACTIVE", "SUSPENDED"}

create(scope) == NewAggregate("DRAFT", scope, <<>>)

revise_scope_statement(a, scope) ==
    IF a.root.lifecycle_state = "DRAFT"
    THEN {[a EXCEPT !.root.version = @ + 1, !.root.attributes = scope]}
    ELSE {}

prepare_for_authorization(a) ==
    Transition(a, {"DRAFT"}, "READY_FOR_AUTHORIZATION", NoReason)

record_authorization(a) ==
    Transition(a, {"READY_FOR_AUTHORIZATION"}, "AUTHORIZED", Given)

activate(a) == Transition(a, {"AUTHORIZED"}, "ACTIVE", Given)

suspend(a) == Transition(a, {"ACTIVE"}, "SUSPENDED", Given)

resume(a) == Transition(a, {"SUSPENDED"}, "ACTIVE", Given)

complete(a) == Transition(a, {"ACTIVE"}, "COMPLETED", Given)

\* A reason is mandatory once the Campaign has been authorized.
cancel(a, reason) ==
    IF a.root.lifecycle_state \in PostAuthorization /\ reason = NoReason THEN {}
    ELSE Transition(a, {"DRAFT", "READY_FOR_AUTHORIZATION"} \cup PostAuthorization,
                    "CANCELLED", reason)

AllowedEdges ==
    {<<"DRAFT", "READY_FOR_AUTHORIZATION">>, <<"READY_FOR_AUTHORIZATION", "AUTHORIZED">>,
     <<"AUTHORIZED", "ACTIVE">>, <<"ACTIVE", "SUSPENDED">>, <<"SUSPENDED", "ACTIVE">>,
     <<"ACTIVE", "COMPLETED">>, <<"DRAFT", "CANCELLED">>,
     <<"READY_FOR_AUTHORIZATION", "CANCELLED">>, <<"AUTHORIZED", "CANCELLED">>,
     <<"ACTIVE", "CANCELLED">>, <<"SUSPENDED", "CANCELLED">>}

TerminalStates == {"COMPLETED", "CANCELLED"}

\* _validate_campaign_terminal_reason: the edges that must carry a reason.
RequiredReasonEdges ==
    {<<"READY_FOR_AUTHORIZATION", "AUTHORIZED">>, <<"AUTHORIZED", "ACTIVE">>,
     <<"ACTIVE", "SUSPENDED">>, <<"SUSPENDED", "ACTIVE">>, <<"ACTIVE", "COMPLETED">>,
     <<"AUTHORIZED", "CANCELLED">>, <<"ACTIVE", "CANCELLED">>, <<"SUSPENDED", "CANCELLED">>}

\* Mutant: get() checks the reasons of the history but not that it fits the root.
ReconstructsReasonsOnly(a) ==
    \A i \in 1..Len(transition_history(a)) :
       LET r == transition_history(a)[i]
       IN  <<r.from_state, r.to_state>> \in RequiredReasonEdges => r.reason = Given

\* _reconstruct_campaign accepts the aggregate.
Reconstructs(a) ==
    /\ ValidHistory(a, "DRAFT", AllowedEdges, TerminalStates)
    /\ \A i \in 1..Len(transition_history(a)) :
          LET r == transition_history(a)[i]
          IN  <<r.from_state, r.to_state>> \in RequiredReasonEdges => r.reason = Given

\* Everything one accepted business method can make of a Campaign.
Mutations(a) ==
    UNION {UNION {revise_scope_statement(a, s) : s \in Scope},
           prepare_for_authorization(a), record_authorization(a), activate(a), suspend(a), resume(a), complete(a),
           UNION {cancel(a, r) : r \in Reasons}}

Init == campaign = NoCampaign

Create == /\ campaign = NoCampaign
          /\ \E s \in Scope : campaign' = create(s)

Mutate == /\ campaign # NoCampaign
          /\ \E a \in Mutations(campaign) :
                a.root.version <= MaxVersion /\ campaign' = a

Next == Create \/ Mutate

Spec == Init /\ [][Next]_campaign
=============================================================================
