-------------------------- MODULE DecisionToApproval --------------------------
(***************************************************************************)
(* The decision-to-approval core (MILESTONE-084): versioned operator       *)
(* configurations, evaluation contexts bound to one of them, trade         *)
(* proposals, one human decision per proposal and one approved order       *)
(* intent per proposal, and the command handlers that share these tables.  *)
(*                                                                         *)
(* Every repository call is a transaction of its own, so a handler that    *)
(* makes several calls is several steps, and other handlers run between    *)
(* them.  Configurations, contexts, decisions and intents are never        *)
(* updated, and of a proposal only the status is; reading such an          *)
(* unchanging row is therefore folded into the step that uses it.          *)
(* Instants are parameters of the commands, never clock readings, so they  *)
(* are chosen freely.  One configuration_governance_id is modelled.        *)
(***************************************************************************)
EXTENDS Integers, FiniteSets

CONSTANTS
    Client,       \* concurrent callers of the handlers
    Proposal,     \* proposal governance identities
    Terms,        \* order terms a proposal can carry; a fingerprint names its terms
    None,         \* no such row
    MaxVersion,   \* bound on configuration versions
    MaxInstant,   \* bound on the instants commands carry
    Expiries      \* the values the two expiry settings take

ASSUME BoundsAssumption == MaxVersion \in Nat /\ MaxInstant \in Nat
ASSUME ExpiriesArePositive == Expiries \subseteq Nat \ {0}

VARIABLES
    configurations,  \* version -> stored configuration, or None
    contexts,        \* versions some stored evaluation context is bound to
    proposals,       \* proposal -> stored row, or None
    decisions,       \* proposal -> its decision row, or None
    intents,         \* proposal -> its approved order intent, or None
    session          \* the handler each client is in

vars == <<configurations, contexts, proposals, decisions, intents, session>>

Version == 1..MaxVersion
Instant == 0..MaxInstant
Action == {"APPROVE", "REJECT", "CANCEL"}
Decided == {"APPROVED", "REJECTED", "CANCELLED"}
Status == {"PREPARED", "EXPIRED", "INVALIDATED"} \cup Decided

\* The policy fields a configuration version carries besides its kill switch.
Policy == [proposal_expiry_seconds : Expiries, approval_expiry_seconds : Expiries]
Configuration == [policy : Policy, kill_switch : {"ENGAGED", "DISENGAGED"}]

\* Rows of the proposal, decision and intent tables.
Row == [terms : Terms, version : Version, status : Status, created_at : Nat, expires_at : Nat]
DecisionRow == [action : Action, fingerprint : Terms, decided_at : Nat,
                expires_at : Nat \cup {None}]
Intent == [terms : Terms, created_at : Nat, version : Version, expires_at : Nat]

ASSUME NoneIsNoRow == None \notin Configuration \cup Row \cup DecisionRow \cup Intent

Idle == [pc |-> "idle"]

Init ==
    /\ configurations = [v \in Version |-> None]
    /\ contexts = {}
    /\ proposals = [p \in Proposal |-> None]
    /\ decisions = [p \in Proposal |-> None]
    /\ intents = [p \in Proposal |-> None]
    /\ session = [c \in Client |-> Idle]

Stored(table) == {k \in DOMAIN table : table[k] # None}

\* latest(): v is the highest stored configuration version.
latest(v) ==
    /\ v \in Stored(configurations)
    /\ \A w \in Stored(configurations) : w <= v

\* Mutant: a proposal is still alive at its expiry.
expired_after(p, instant) == instant > proposals[p].expires_at

\* A proposal has expired from its expiry on.
expired_at(p, instant) == instant >= proposals[p].expires_at

resulting_status(action) ==
    CASE action = "APPROVE" -> "APPROVED"
      [] action = "REJECT"  -> "REJECTED"
      [] action = "CANCEL"  -> "CANCELLED"

Go(c, s) == session' = [session EXCEPT ![c] = s]

------------------------------------------------------------------------------
(* Configurations and contexts *)

\* Mutant: a configuration version is upserted.
SaveOver(v, configuration) ==
    configurations' = [configurations EXCEPT ![v] = configuration]

\* The repository's save(): the primary key (identity, version) refuses a
\* second row, which raises and writes nothing.
Save(v, configuration) ==
    /\ configurations[v] = None
    /\ configurations' = [configurations EXCEPT ![v] = configuration]

SaveOperatorTradingConfiguration(v, configuration) ==
    /\ Save(v, configuration)
    /\ UNCHANGED <<contexts, proposals, decisions, intents, session>>

\* SetKillSwitch reads the latest version and returns it when the switch is
\* already where the command wants it ...
SetKillSwitchLoad(c, v, target) ==
    /\ session[c] = Idle
    /\ latest(v)
    /\ configurations[v].kill_switch # target
    /\ Go(c, [pc |-> "switch", version |-> v, target |-> target])
    /\ UNCHANGED <<configurations, contexts, proposals, decisions, intents>>

\* ... and otherwise copies it forward under the next version.  When another
\* caller has stored that version meanwhile the insert raises, and the switch
\* has not moved.
SetKillSwitchSave(c) ==
    /\ session[c].pc = "switch"
    /\ session[c].version < MaxVersion
    /\ \/ Save(session[c].version + 1,
               [configurations[session[c].version] EXCEPT !.kill_switch = session[c].target])
       \/ /\ configurations[session[c].version + 1] # None
          /\ UNCHANGED configurations
    /\ Go(c, Idle)
    /\ UNCHANGED <<contexts, proposals, decisions, intents>>

\* OpenEvaluationContext refuses a configuration that is not stored.
OpenEvaluationContext(v) ==
    /\ configurations[v] # None
    /\ contexts' = contexts \cup {v}
    /\ UNCHANGED <<configurations, proposals, decisions, intents, session>>

------------------------------------------------------------------------------
(* Proposals *)

\* PrepareTradeProposal evaluates under the version its context is bound to,
\* which need not be the latest.  The engine's other gates are abstracted to
\* "a proposal may come out"; an engaged kill switch is always a NO_TRADE,
\* which writes nothing, and a used identity is refused by the primary key.
PrepareTradeProposal(p, v, terms, evaluated_at) ==
    /\ v \in contexts
    /\ configurations[v].kill_switch = "DISENGAGED"
    /\ proposals[p] = None
    /\ proposals' = [proposals EXCEPT ![p] =
          [terms |-> terms, version |-> v, status |-> "PREPARED",
           created_at |-> evaluated_at,
           expires_at |-> evaluated_at
                          + configurations[v].policy.proposal_expiry_seconds]]
    /\ UNCHANGED <<configurations, contexts, decisions, intents, session>>

\* Mutant: the update trigger does not treat a decided or lapsed proposal as
\* terminal.
TransitionOpen(from, to) == TRUE

\* The BEFORE UPDATE trigger: an update to the same status passes, PREPARED may
\* move anywhere, every other status is terminal.
is_transition_allowed(from, to) == from = to \/ from = "PREPARED"

\* set_status(), one transaction; FALSE when the trigger raises.
set_status(p, to) ==
    /\ is_transition_allowed(proposals[p].status, to)
    /\ proposals' = [proposals EXCEPT ![p].status = to]

------------------------------------------------------------------------------
(* Decisions *)

\* DecideTradeProposal loads the proposal; record_operator_decision refuses one
\* that is not PREPARED or has expired at decided_at.
DecideLoad(c, p, action, decided_at) ==
    /\ session[c] = Idle
    /\ proposals[p] # None
    /\ proposals[p].status = "PREPARED"
    /\ ~expired_at(p, decided_at)
    /\ Go(c, [pc |-> "decide", proposal |-> p, action |-> action, decided_at |-> decided_at])
    /\ UNCHANGED <<configurations, contexts, proposals, decisions, intents>>

\* The INSERT runs the admission trigger, which reads the proposal without
\* locking its status.
DecideAdmit(c) ==
    /\ session[c].pc = "decide"
    /\ proposals[session[c].proposal].status = "PREPARED"
    /\ Go(c, [session[c] EXCEPT !.pc = "admitted"])
    /\ UNCHANGED <<configurations, contexts, proposals, decisions, intents>>

\* The decision row record_operator_decision builds.
Decision(c) ==
    LET s == session[c]
        policy == configurations[proposals[s.proposal].version].policy
    IN  [action |-> s.action, fingerprint |-> proposals[s.proposal].terms,
         decided_at |-> s.decided_at,
         expires_at |-> IF s.action = "APPROVE"
                        THEN s.decided_at + policy.approval_expiry_seconds ELSE None]

\* Mutant: no unique constraint on the proposal of a decision.
DecideCommitAgain(c) ==
    /\ session[c].pc = "admitted"
    /\ decisions' = [decisions EXCEPT ![session[c].proposal] = Decision(c)]
    /\ Go(c, [session[c] EXCEPT !.pc = "recorded"])
    /\ UNCHANGED <<configurations, contexts, proposals, intents>>

\* The transaction of record() commits; a second decision for the proposal
\* meets the unique constraint and raises.
DecideCommit(c) ==
    LET p == session[c].proposal
    IN  /\ session[c].pc = "admitted"
        /\ decisions[p] = None
        /\ decisions' = [decisions EXCEPT ![p] = Decision(c)]
        /\ Go(c, [session[c] EXCEPT !.pc = "recorded"])
        /\ UNCHANGED <<configurations, contexts, proposals, intents>>

\* The second transaction of the handler moves the proposal.
DecideMove(c) ==
    /\ session[c].pc = "recorded"
    /\ set_status(session[c].proposal, resulting_status(session[c].action))
    /\ Go(c, Idle)
    /\ UNCHANGED <<configurations, contexts, decisions, intents>>

------------------------------------------------------------------------------
(* Intents *)

\* build_approved_order_intent on the rows IssueApprovedOrderIntent loads.
IssueLoad(c, p, created_at) ==
    /\ session[c] = Idle
    /\ proposals[p] # None
    /\ decisions[p] # None
    /\ decisions[p].action = "APPROVE"
    /\ decisions[p].fingerprint = proposals[p].terms
    /\ proposals[p].status = "APPROVED"
    /\ ~expired_at(p, created_at)
    /\ created_at < decisions[p].expires_at
    /\ Go(c, [pc |-> "issue", proposal |-> p, terms |-> proposals[p].terms,
              created_at |-> created_at])
    /\ UNCHANGED <<configurations, contexts, proposals, decisions, intents>>

\* The INSERT: the admission trigger re-derives everything from the two rows
\* the intent cites, and a second intent for the proposal is refused.
Issue(c) ==
    LET s == session[c]
        p == s.proposal
    IN  /\ s.pc = "issue"
        /\ intents[p] = None
        /\ decisions[p].action = "APPROVE"
        /\ proposals[p].status = "APPROVED"
        /\ s.terms = proposals[p].terms
        /\ s.terms = decisions[p].fingerprint
        /\ s.created_at < decisions[p].expires_at
        /\ ~expired_at(p, s.created_at)
        /\ intents' = [intents EXCEPT ![p] = [terms |-> s.terms, created_at |-> s.created_at,
                                               version |-> proposals[p].version,
                                               expires_at |-> proposals[p].expires_at]]
        /\ Go(c, Idle)
        /\ UNCHANGED <<configurations, contexts, proposals, decisions>>

------------------------------------------------------------------------------
(* The sweep *)

\* InvalidateStaleProposals lists the PREPARED queue.
SweepList(c, as_of) ==
    /\ session[c] = Idle
    /\ Go(c, [pc |-> "sweep", as_of |-> as_of, cached |-> 0, done |-> {},
              todo |-> {p \in Stored(proposals) : proposals[p].status = "PREPARED"}])
    /\ UNCHANGED <<configurations, contexts, proposals, decisions, intents>>

\* The queue is ordered by created_at; equal ones by identity.
IsHead(c, p) ==
    /\ p \in session[c].todo
    /\ \A q \in session[c].todo : proposals[p].created_at <= proposals[q].created_at

\* The sweep is done with p and turns to the rest.
Advance(c, p) ==
    Go(c, [session[c] EXCEPT !.todo = @ \ {p}, !.done = @ \cup {p}])

\* An expired proposal is expired whatever the configuration did.
SweepExpire(c, p) ==
    /\ session[c].pc = "sweep"
    /\ IsHead(c, p)
    /\ expired_at(p, session[c].as_of)
    /\ set_status(p, "EXPIRED")
    /\ Advance(c, p)
    /\ UNCHANGED <<configurations, contexts, decisions, intents>>

\* The latest version is looked up once per sweep and cached.
SweepLookup(c, v) ==
    /\ session[c].pc = "sweep"
    /\ session[c].cached = 0
    /\ \E p \in session[c].todo : IsHead(c, p) /\ ~expired_at(p, session[c].as_of)
    /\ latest(v)
    /\ Go(c, [session[c] EXCEPT !.cached = v])
    /\ UNCHANGED <<configurations, contexts, proposals, decisions, intents>>

\* Whether the cached version supersedes the one p was evaluated under.
Superseded(c, p) == session[c].cached > proposals[p].version

SweepInvalidate(c, p) ==
    /\ session[c].pc = "sweep"
    /\ session[c].cached # 0
    /\ IsHead(c, p)
    /\ ~expired_at(p, session[c].as_of)
    /\ Superseded(c, p)
    /\ set_status(p, "INVALIDATED")
    /\ Advance(c, p)
    /\ UNCHANGED <<configurations, contexts, decisions, intents>>

\* Mutant: the sweep keeps what has not expired, whatever version it was
\* evaluated under.
SweepKeepAll(c, p) ==
    /\ session[c].pc = "sweep"
    /\ session[c].cached # 0
    /\ IsHead(c, p)
    /\ ~expired_at(p, session[c].as_of)
    /\ Advance(c, p)
    /\ UNCHANGED <<configurations, contexts, proposals, decisions, intents>>

SweepKeep(c, p) ==
    /\ session[c].pc = "sweep"
    /\ session[c].cached # 0
    /\ IsHead(c, p)
    /\ ~expired_at(p, session[c].as_of)
    /\ ~Superseded(c, p)
    /\ Advance(c, p)
    /\ UNCHANGED <<configurations, contexts, proposals, decisions, intents>>

\* handle() returns its outcome.
SweepReturn(c) ==
    /\ session[c].pc = "sweep"
    /\ session[c].todo = {}
    /\ Go(c, Idle)
    /\ UNCHANGED <<configurations, contexts, proposals, decisions, intents>>

------------------------------------------------------------------------------
\* A handler stops where it is: one of its guards raised (nothing of the failed
\* call is written, and a raise inside a sweep abandons the rest of the queue),
\* or its process died between two transactions.
Stop(c) ==
    /\ session[c] # Idle
    /\ Go(c, Idle)
    /\ UNCHANGED <<configurations, contexts, proposals, decisions, intents>>

Next ==
    \/ \E v \in Version, k \in Configuration : SaveOperatorTradingConfiguration(v, k)
    \/ \E v \in Version : OpenEvaluationContext(v)
    \/ \E p \in Proposal, v \in Version, t \in Terms, i \in Instant :
          PrepareTradeProposal(p, v, t, i)
    \/ \E c \in Client :
          \/ \E v \in Version, target \in {"ENGAGED", "DISENGAGED"} : SetKillSwitchLoad(c, v, target)
          \/ SetKillSwitchSave(c)
          \/ \E p \in Proposal, a \in Action, i \in Instant : DecideLoad(c, p, a, i)
          \/ DecideAdmit(c) \/ DecideCommit(c) \/ DecideMove(c)
          \/ \E p \in Proposal, i \in Instant : IssueLoad(c, p, i)
          \/ Issue(c)
          \/ \E i \in Instant : SweepList(c, i)
          \/ \E p \in Proposal :
                SweepExpire(c, p) \/ SweepInvalidate(c, p) \/ SweepKeep(c, p)
          \/ \E v \in Version : SweepLookup(c, v)
          \/ SweepReturn(c)
          \/ Stop(c)

Spec == Init /\ [][Next]_vars
------------------------------------------------------------------------------
(* Properties *)

Session ==
    [pc : {"idle"}]
    \cup [pc : {"switch"}, version : Version, target : {"ENGAGED", "DISENGAGED"}]
    \cup [pc : {"decide", "admitted", "recorded"}, proposal : Proposal, action : Action,
          decided_at : Nat]
    \cup [pc : {"issue"}, proposal : Proposal, terms : Terms, created_at : Nat]
    \cup [pc : {"sweep"}, as_of : Nat, cached : {0} \cup Version,
          done : SUBSET Proposal, todo : SUBSET Proposal]

\* The types of the tables and of the handlers' local state.
TypeOK ==
    /\ configurations \in [Version -> Configuration \cup {None}]
    /\ contexts \subseteq Stored(configurations)
    /\ proposals \in [Proposal -> Row \cup {None}]
    /\ decisions \in [Proposal -> DecisionRow \cup {None}]
    /\ intents \in [Proposal -> Intent \cup {None}]
    /\ session \in [Client -> Session]

\* An order intent exists only for a proposal that is APPROVED, from an APPROVE
\* decision, carrying the very terms that were prepared and approved, and
\* created before the proposal and the approval lapsed: no order of the decide,
\* issue and sweep handlers' transactions yields any other.
IntentAuthorized ==
    \A p \in Stored(intents) :
       /\ proposals[p].status = "APPROVED"
       /\ decisions[p].action = "APPROVE"
       /\ intents[p].terms = proposals[p].terms
       /\ intents[p].terms = decisions[p].fingerprint
       /\ intents[p].created_at < proposals[p].expires_at
       /\ intents[p].created_at < decisions[p].expires_at

\* The decision is recorded before the proposal is moved, so a proposal is
\* never APPROVED, REJECTED or CANCELLED without the decision that says so,
\* even when two operators decide at once or a handler dies between its two
\* transactions.
DecidedHasDecision ==
    \A p \in Stored(proposals) :
       proposals[p].status \in Decided =>
          /\ decisions[p] # None
          /\ proposals[p].status = resulting_status(decisions[p].action)

\* Every intent can be audited: the configuration version it cites is still
\* the one it was evaluated under, with the kill switch disengaged and with
\* the expiry settings its proposal and its approval were given.
IntentTracesToPolicy ==
    \A p \in Stored(intents) :
       LET configuration == configurations[intents[p].version]
       IN  /\ configuration.kill_switch = "DISENGAGED"
           /\ proposals[p].expires_at
                = proposals[p].created_at + configuration.policy.proposal_expiry_seconds
           /\ decisions[p].expires_at
                = decisions[p].decided_at + configuration.policy.approval_expiry_seconds

\* Stored rows of a table stay as they are.
Keeps(table, newTable) == \A k \in Stored(table) : newTable[k] = table[k]

\* History is never rewritten: configurations, decisions and intents stay as
\* stored, and a proposal changes only in status and only once, whichever
\* handlers race for it.
HistoryIsKept ==
    [][/\ Keeps(configurations, configurations')
       /\ Keeps(decisions, decisions')
       /\ Keeps(intents, intents')
       /\ \A p \in Stored(proposals) :
             proposals'[p] # proposals[p] =>
                /\ proposals[p].status = "PREPARED"
                /\ proposals'[p] = [proposals[p] EXCEPT !.status = proposals'[p].status]]_vars

\* What a sweep has worked through is no longer in the queue, or was neither
\* expired nor superseded by the version the sweep saw, although decisions,
\* other sweeps and new configurations came between its transactions.
SweepClearsStale ==
    \A c \in Client :
       session[c].pc = "sweep" =>
          \A p \in session[c].done :
             proposals[p].status = "PREPARED" =>
                /\ ~expired_at(p, session[c].as_of)
                /\ session[c].cached \in 1..proposals[p].version

===============================================================================
