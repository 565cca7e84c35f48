----------------------------- MODULE RuntimeProofs -----------------------------
(***************************************************************************)
(* What carries a command.  That no path through units of work and         *)
(* composed transactions leaves a context variable behind, revives a       *)
(* poisoned scope or commits in part, for any number of services and       *)
(* writes; that the runtime which starts and closes the persistence        *)
(* service (FoundationRuntime) is READY only while both its services are   *)
(* open; and that the exit of every command (OperatorCommands) tells the   *)
(* truth, for any number of attempts that race and die.                    *)
(***************************************************************************)
EXTENDS PersistenceService, FoundationRuntime, OperatorCommands, SequenceTheorems, TLAPS

\* The values the service's fields, the context variables and the open
\* transaction take.
TypeOK ==
    /\ lifecycle \in [Service -> {"new", "ready", "closed"}]
    /\ where \in {"outside", "unit", "completed", "composed", "operation", "joined"}
    /\ raising \in BOOLEAN
    /\ guard \in BOOLEAN
    /\ scope \in ComposedScope \cup {None}
    /\ tx \in Transaction \cup {None}
    /\ db \in SUBSET (Service \X Write)

Inv == TypeOK /\ ContextMatches

------------------------------------------------------------------------------
(* What the parts of an ending do *)

\* COMMIT makes nothing or everything durable, and then only where PostgreSQL
\* had not aborted the transaction.
LEMMA CommittedIsAllOrNothing ==
    ASSUME tx \in Transaction
    PROVE  /\ Committed \in SUBSET (Service \X Write)
           /\ Committed = {} \/ Committed = {<<tx.service, w>> : w \in tx.writes}
           /\ ~tx.aborted => Committed = {<<tx.service, w>> : w \in tx.writes}
  BY DEF Committed, Transaction

\* A unit of work that ends leaves no transaction, and adds to the durable
\* writes nothing or what COMMIT made durable; it ends silently only when it
\* added that.
LEMMA CommitEnds ==
    ASSUME NEW block, Commit(block)
    PROVE  /\ tx' = None
           /\ where' = block
           /\ lifecycle' = lifecycle
           /\ raising' \in BOOLEAN
           /\ db' = db \/ db' = db \cup Committed
           /\ ~raising' => db' = db \cup Committed
  <1>1. CASE End(Committed, FALSE, block)
    BY <1>1 DEF End
  <1>2. CASE \E durable \in {{}, Committed} : End(durable, TRUE, block)
    BY <1>2 DEF End
  <1> QED  BY <1>1, <1>2 DEF Commit

------------------------------------------------------------------------------
(* The invariant *)

LEMMA InitInv == Init => Inv
  BY NoneAssumption DEF Init, Inv, TypeOK, ContextMatches

\* The steps that neither begin nor end a transaction.
LEMMA LifecycleKeepsInv ==
    ASSUME Inv, NEW s \in Service, initialize(s) \/ close(s)
    PROVE  Inv'
  BY DEF Inv, TypeOK, ContextMatches, initialize, close

LEMMA BeginKeepsInv ==
    ASSUME Inv, NEW s \in Service, EnterUnit(s) \/ RunComposed(s)
    PROVE  Inv'
  <1> USE NoneAssumption
  <1>1. tx' \in Transaction /\ tx'.service = s
    <2>1. tx' = [service |-> s, writes |-> {}, aborted |-> FALSE]
      BY DEF EnterUnit, RunComposed, Begin
    <2> QED  BY <2>1 DEF Transaction
  <1>2. CASE EnterUnit(s)
    BY <1>1, <1>2 DEF Inv, TypeOK, ContextMatches, EnterUnit, Begin
  <1>3. CASE RunComposed(s)
    <2>1. scope' \in ComposedScope /\ scope'.owner = s
      BY <1>3 DEF RunComposed, ComposedScope
    <2> QED  BY <1>1, <1>3, <2>1 DEF Inv, TypeOK, ContextMatches, RunComposed, Begin
  <1> QED  BY <1>2, <1>3

LEMMA RaiseKeepsInv ==
    ASSUME Inv, FailOutsideUnit \/ RaiseInUnit \/ Catch \/ UseCompleted
    PROVE  Inv'
  <1>1. raising' \in BOOLEAN /\ UNCHANGED <<lifecycle, where, guard, scope, tx, db>>
    BY DEF FailOutsideUnit, RaiseInUnit, Catch, UseCompleted
  <1> QED  BY <1>1 DEF Inv, TypeOK, ContextMatches

LEMMA MoveKeepsInv ==
    ASSUME Inv, CallOperation \/ LeaveOperation \/ ExitCompleted \/ \E s \in Service : Join(s)
    PROVE  Inv'
  <1>1. CASE CallOperation
    BY <1>1 DEF Inv, TypeOK, ContextMatches, CallOperation
  <1>2. CASE LeaveOperation
    BY <1>2 DEF Inv, TypeOK, ContextMatches, LeaveOperation
  <1>3. CASE ExitCompleted
    BY <1>3 DEF Inv, TypeOK, ContextMatches, ExitCompleted
  <1>4. CASE \E s \in Service : Join(s)
    BY <1>4 DEF Inv, TypeOK, ContextMatches, Join
  <1> QED  BY <1>1, <1>2, <1>3, <1>4

LEMMA ExecuteKeepsInv ==
    ASSUME Inv, ExecuteFails \/ \E w \in Write : Execute(w)
    PROVE  Inv'
  <1> USE NoneAssumption
  <1>1. tx \in Transaction
    BY DEF Inv, TypeOK, ContextMatches, ExecuteFails, Execute
  <1>2. tx' \in Transaction /\ tx'.service = tx.service
    <2>1. CASE ExecuteFails
      BY <1>1, <2>1 DEF ExecuteFails, Transaction
    <2>2. CASE \E w \in Write : Execute(w)
      BY <1>1, <2>2 DEF Execute, Transaction
    <2> QED  BY <2>1, <2>2
  <1> QED  BY <1>1, <1>2 DEF Inv, TypeOK, ContextMatches, ExecuteFails, Execute

LEMMA ExitJoinedKeepsInv ==
    ASSUME Inv, ExitJoined
    PROVE  Inv'
  <1> USE NoneAssumption
  <1>1. scope \in ComposedScope
    BY DEF Inv, TypeOK, ContextMatches, ExitJoined
  <1>2. scope' \in ComposedScope /\ scope'.owner = scope.owner
    BY <1>1 DEF ExitJoined, ComposedScope
  <1> QED  BY <1>1, <1>2 DEF Inv, TypeOK, ContextMatches, ExitJoined

LEMMA EndKeepsInv ==
    ASSUME Inv, ExitUnit \/ CompleteUnit \/ ExitComposed
    PROVE  Inv'
  <1>1. tx \in Transaction
    BY DEF Inv, TypeOK, ContextMatches, ExitUnit, CompleteUnit, ExitComposed
  <1>2. Committed \in SUBSET (Service \X Write)
    BY <1>1, CommittedIsAllOrNothing
  <1>3. ~guard' /\ guard' \in BOOLEAN
    BY DEF ExitUnit, CompleteUnit, ExitComposed
  <1>4. /\ tx' = None /\ where' \in {"outside", "completed"} /\ lifecycle' = lifecycle
        /\ raising' \in BOOLEAN /\ (db' = db \/ db' = db \cup Committed)
    BY CommitEnds DEF ExitUnit, CompleteUnit, ExitComposed, End
  <1>5. scope' = None
    BY DEF Inv, ContextMatches, ExitUnit, CompleteUnit, ExitComposed
  <1> QED  BY <1>2, <1>3, <1>4, <1>5 DEF Inv, TypeOK, ContextMatches

LEMMA NextInv == Inv /\ [Next]_vars => Inv'
  <1> SUFFICES ASSUME Inv, [Next]_vars PROVE Inv'
    OBVIOUS
  <1>1. CASE UNCHANGED vars
    BY <1>1 DEF Inv, TypeOK, ContextMatches, vars
  <1> QED
    BY <1>1, LifecycleKeepsInv, BeginKeepsInv, RaiseKeepsInv, MoveKeepsInv, ExecuteKeepsInv, ExitJoinedKeepsInv,
       EndKeepsInv DEF Next

LEMMA Invariance == Spec => []Inv
  BY InitInv, NextInv, PTL DEF Spec

\* The context variables agree with the transaction on every path out of a
\* unit of work or a composed transaction, failed commits and rollbacks and
\* services closed under their hands included: nothing is left that would
\* block or capture the next caller of the thread.
THEOREM ContextsStayClean == Spec => []ContextMatches
  BY Invariance, PTL DEF Inv

------------------------------------------------------------------------------
(* What a step may do *)

LEMMA PoisonIsKept ==
    ASSUME Inv, Next, scope # None, scope.state = "POISONED"
    PROVE  /\ db' = db
           /\ IF scope' = None THEN raising' ELSE scope'.state = "POISONED"
  <1> USE NoneAssumption
  <1>1. scope \in ComposedScope /\ where \in {"composed", "operation", "joined"}
    BY DEF Inv, TypeOK, ContextMatches
  <1>2. CASE ExitComposed
    BY <1>1, <1>2 DEF ExitComposed, End
  <1>3. CASE ExitJoined
    <2>1. scope' = [scope EXCEPT !.state = "POISONED"] \/ scope' = scope
      BY <1>1, <1>3 DEF ExitJoined, ComposedScope
    <2>2. scope' \in ComposedScope /\ scope'.state = "POISONED"
      BY <1>1, <2>1 DEF ComposedScope
    <2> QED  BY <1>3, <2>2 DEF ExitJoined
  <1>4. CASE ~ExitComposed /\ ~ExitJoined
    BY <1>1, <1>4 DEF Next, initialize, close, EnterUnit, RunComposed, Join, Execute, CallOperation,
         FailOutsideUnit, ExecuteFails, RaiseInUnit, Catch, LeaveOperation, ExitUnit, CompleteUnit,
         UseCompleted, ExitCompleted
  <1> QED  BY <1>2, <1>3, <1>4

\* A failure that passed a joined unit of work dooms the composed transaction:
\* whatever is caught and whatever later operations do, nothing of it becomes
\* durable and run_composed raises.
THEOREM PoisonIsFinal == Spec => PoisonedNeverCommits
  <1>1. Inv /\ [Next]_vars =>
          [scope # None /\ scope.state = "POISONED" =>
             /\ db' = db
             /\ IF scope' = None THEN raising' ELSE scope'.state = "POISONED"]_vars
    BY PoisonIsKept
  <1> QED  BY <1>1, Invariance, PTL DEF Spec, PoisonedNeverCommits

LEMMA EndsWhole ==
    ASSUME Inv, Next
    PROVE  LET written == db \cup {<<tx.service, w>> : w \in tx.writes}
           IN  /\ db' # db => tx # None /\ tx' = None /\ db' = written
               /\ scope # None /\ scope' = None /\ ~raising' /\ ~tx.aborted => db' = written
  <1> USE NoneAssumption
  <1> DEFINE written == db \cup {<<tx.service, w>> : w \in tx.writes}
  <1>1. CASE ExitUnit \/ CompleteUnit \/ ExitComposed
    <2>1. tx \in Transaction
      BY <1>1 DEF Inv, TypeOK, ContextMatches, ExitUnit, CompleteUnit, ExitComposed
    <2>2. tx' = None /\ (db' = db \/ db' = db \cup Committed)
      BY <1>1, CommitEnds DEF ExitUnit, CompleteUnit, ExitComposed, End
    <2>3. db' # db => tx # None /\ tx' = None /\ db' = written
      BY <2>1, <2>2, CommittedIsAllOrNothing
    <2>4. scope # None => ExitComposed
      BY <1>1 DEF Inv, ContextMatches, ExitUnit, CompleteUnit
    <2>5. scope # None /\ ~raising' => db' = db \cup Committed
      BY <2>4, CommitEnds DEF ExitComposed, End
    <2> QED  BY <2>1, <2>3, <2>5, CommittedIsAllOrNothing
  <1>2. CASE ~(ExitUnit \/ CompleteUnit \/ ExitComposed)
    <2>1. db' = db
      BY <1>2 DEF Next, initialize, close, EnterUnit, RunComposed, Begin, Join, Execute, CallOperation,
           FailOutsideUnit, ExecuteFails, RaiseInUnit, Catch, ExitJoined, LeaveOperation,
           UseCompleted, ExitCompleted
    <2>2. scope # None => scope' # None
      <3>1. CASE ExitJoined
        BY <3>1, ExitJoinedKeepsInv DEF Inv, ContextMatches, ExitJoined
      <3>2. CASE ~ExitJoined
        BY <1>2, <3>2 DEF Next, Inv, ContextMatches, initialize, close, EnterUnit, RunComposed, Begin,
           Join, Execute, CallOperation, FailOutsideUnit, ExecuteFails, RaiseInUnit, Catch,
           LeaveOperation, UseCompleted, ExitCompleted
      <3> QED  BY <3>1, <3>2
    <2> QED  BY <2>1, <2>2
  <1> QED  BY <1>1, <1>2

\* A unit of work makes durable all it wrote or nothing, and a run_composed
\* that returns has made it durable unless PostgreSQL had aborted the
\* transaction unnoticed.
THEOREM EndingsAreWhole == Spec => AllOrNothing
  <1>1. Inv /\ [Next]_vars =>
          [LET written == db \cup {<<tx.service, w>> : w \in tx.writes}
           IN  /\ db' # db => tx # None /\ tx' = None /\ db' = written
               /\ scope # None /\ scope' = None /\ ~raising' /\ ~tx.aborted => db' = written]_vars
    BY EndsWhole
  <1> QED  BY <1>1, Invariance, PTL DEF Spec, AllOrNothing

------------------------------------------------------------------------------
(* The runtime that starts and closes the service *)

Health == {"UNKNOWN", "PASS", "FAIL"}

\* While a start or a close is under way, what is open and what is still to be
\* closed; the object storage is never opened before the persistence service.
RuntimeInv ==
    /\ service \in [Layers -> {"new", "ready", "closed"}]
    /\ last \in [Layers -> Health]
    /\ todo \in {<< >>, <<"persistence">>, <<"object_storage">>, <<"object_storage", "persistence">>}
    /\ state \in {"NEW", "STARTING", "CHECKING", "AGGREGATING", "READY", "FAILING", "STOPPING",
                  "FAILED", "STOPPED"}
    /\ state \in {"NEW", "STARTING", "CHECKING", "AGGREGATING", "READY"} =>
          \A l \in Layers : service[l] # "closed"
    /\ state \in {"NEW", "STARTING", "CHECKING"} /\ service["object_storage"] = "ready" =>
          service["persistence"] = "ready"
    /\ state \in {"AGGREGATING", "READY"} => \A l \in Layers : service[l] = "ready"
    /\ state \in {"FAILING", "STOPPING"} =>
          /\ service["persistence"] = "ready" =>
                todo \in {<<"persistence">>, <<"object_storage", "persistence">>}
          /\ service["object_storage"] = "ready" =>
                todo \in {<<"object_storage">>, <<"object_storage", "persistence">>}
    /\ state \in {"FAILED", "STOPPED"} => \A l \in Layers : service[l] # "ready"
    /\ state = "STOPPED" => report = "FAIL"

LEMMA CheckedHealth ==
    ASSUME RuntimeInv, NEW l \in Layers
    PROVE  Checked(l) \in Health
  BY DEF RuntimeInv, Checked, Health

\* The clean-up of a start that failed is owed every service that is open.
LEMMA UndoOwes ==
    ASSUME RuntimeInv, Undo
    PROVE  /\ state' = "FAILING"
           /\ todo' \in {<< >>, <<"persistence">>, <<"object_storage">>,
                         <<"object_storage", "persistence">>}
           /\ service["persistence"] = "ready" =>
                 todo' \in {<<"persistence">>, <<"object_storage", "persistence">>}
           /\ service["object_storage"] = "ready" =>
                 todo' \in {<<"object_storage">>, <<"object_storage", "persistence">>}
<1>. DEFINE first == IF service["object_storage"] = "ready" THEN <<"object_storage">> ELSE << >>
            second == IF service["persistence"] = "ready" THEN <<"persistence">> ELSE << >>
<1>1. state' = "FAILING" /\ todo' = first \o second
  BY DEF Undo, Initialized, Layers
<1>2. <<"object_storage">> \o <<"persistence">> = <<"object_storage", "persistence">>
  <2>1. <<"object_storage">> \in Seq(Layers) /\ "persistence" \in Layers
    BY DEF Layers
  <2>2. Append(<<"object_storage">>, "persistence") = <<"object_storage">> \o <<"persistence">>
    BY <2>1, AppendIsConcat
  <2>3. <<"object_storage", "persistence">> = Append(<<"object_storage">>, "persistence")
    OBVIOUS
  <2>. QED  BY <2>2, <2>3
<1>3. /\ <<"object_storage">> \o << >> = <<"object_storage">>
      /\ << >> \o <<"persistence">> = <<"persistence">>
      /\ << >> \o << >> = << >>
  OBVIOUS
<1>. QED  BY <1>1, <1>2, <1>3

LEMMA InitializeStep ==
    ASSUME RuntimeInv, NEW l \in Layers, initialize_service(l)
    PROVE  RuntimeInv'
<1>1. CASE Undo
  BY <1>1, UndoOwes DEF initialize_service, RuntimeInv, Layers, Health
<1>2. CASE ~Undo
  BY <1>2 DEF initialize_service, RuntimeInv, Layers, Health
<1>. QED  BY <1>1, <1>2

LEMMA RequireReadyStep ==
    ASSUME RuntimeInv, NEW l \in Layers, require_dependency_ready(l)
    PROVE  RuntimeInv'
<1>1. last' \in [Layers -> Health] /\ service' = service /\ report' = report
  BY CheckedHealth DEF require_dependency_ready, RuntimeInv
<1>2. CASE Checked(l) = "PASS"
  BY <1>1, <1>2 DEF require_dependency_ready, RuntimeInv, Unchecked, Layers
<1>3. CASE Checked(l) # "PASS"
  BY <1>1, <1>3, UndoOwes DEF require_dependency_ready, RuntimeInv
<1>. QED  BY <1>2, <1>3

LEMMA AggregateStep ==
    ASSUME RuntimeInv, Aggregate
    PROVE  RuntimeInv'
<1>1. last' = last /\ service' = service
  BY DEF Aggregate
<1>2. CASE report' = "PASS"
  BY <1>1, <1>2 DEF Aggregate, RuntimeInv
<1>3. CASE report' # "PASS"
  BY <1>1, <1>3, UndoOwes DEF Aggregate, RuntimeInv
<1>. QED  BY <1>2, <1>3

\* A close() takes its service off the list and leaves it closed, whether it
\* raises or not.
LEMMA CleanupStep ==
    ASSUME RuntimeInv, cleanup_initialized
    PROVE  RuntimeInv'
<1>1. /\ Head(<<"persistence">>) = "persistence" /\ Tail(<<"persistence">>) = << >>
      /\ Head(<<"object_storage">>) = "object_storage" /\ Tail(<<"object_storage">>) = << >>
      /\ Head(<<"object_storage", "persistence">>) = "object_storage"
      /\ Tail(<<"object_storage", "persistence">>) = <<"persistence">>
  OBVIOUS
<1>2. last' \in [Layers -> Health]
  BY DEF cleanup_initialized, RuntimeInv, Health
<1>3. CASE todo = <<"persistence">>
  BY <1>1, <1>2, <1>3 DEF cleanup_initialized, RuntimeInv, Layers
<1>4. CASE todo = <<"object_storage">>
  BY <1>1, <1>2, <1>4 DEF cleanup_initialized, RuntimeInv, Layers
<1>5. CASE todo = <<"object_storage", "persistence">>
  BY <1>1, <1>2, <1>5 DEF cleanup_initialized, RuntimeInv, Layers
<1>. QED  BY <1>3, <1>4, <1>5 DEF cleanup_initialized, RuntimeInv

LEMMA StoppedStep ==
    ASSUME RuntimeInv, Stopped
    PROVE  RuntimeInv'
<1>1. last' \in [Layers -> Health]
  BY CheckedHealth DEF Stopped
<1>2. report' = "FAIL"
  BY DEF Stopped, aggregate_health
<1>3. \A l \in Layers : service[l] # "ready"
  BY DEF Stopped, RuntimeInv, Layers
<1>. QED  BY <1>1, <1>2, <1>3 DEF Stopped, RuntimeInv

LEMMA RuntimeStep == RuntimeInv /\ [RuntimeNext]_rtvars => RuntimeInv'
<1>. SUFFICES ASSUME RuntimeInv, [RuntimeNext]_rtvars PROVE RuntimeInv'
  OBVIOUS
<1>1. CASE resolve_foundation_config
  BY <1>1 DEF resolve_foundation_config, RuntimeInv
<1>2. CASE refresh_health
  <2>1. last' \in [Layers -> Health]
    BY <1>2, CheckedHealth DEF refresh_health
  <2>. QED  BY <1>2, <2>1 DEF refresh_health, RuntimeInv
<1>3. CASE StartupFails
  BY <1>3 DEF StartupFails, RuntimeInv, Layers
<1>4. CASE close_runtime
  BY <1>4 DEF close_runtime, RuntimeInv
<1>5. CASE \/ \E l \in Layers : Outage(l)
           \/ \E k \in Key : put_object(k)
           \/ \E c \in Client, k \in Key : delete_head(c, k)
           \/ \E c \in Client : delete_object(c)
           \/ UNCHANGED rtvars
  <2>1. UNCHANGED <<state, service, last, report, todo>>
    BY <1>5 DEF Outage, put_object, delete_head, delete_object, rtvars
  <2>. QED  BY <2>1 DEF RuntimeInv
<1>. QED
  BY <1>1, <1>2, <1>3, <1>4, <1>5, InitializeStep, RequireReadyStep, AggregateStep, CleanupStep,
     StoppedStep
  DEF RuntimeNext, RuntimeProgress

\* Whatever goes away or raises while the runtime starts and closes, it is READY
\* only with both services open, a start that failed and a close leave neither
\* open, and a stopped runtime reports FAIL.
THEOREM RuntimeIsReadyWhenOpen == RuntimeInit /\ [][RuntimeNext]_rtvars => []ReadyMeansOpen
<1>1. RuntimeInit => RuntimeInv
  BY DEF RuntimeInit, RuntimeInv, Layers, Health
<1>2. RuntimeInv => ReadyMeansOpen
  BY DEF RuntimeInv, ReadyMeansOpen, Initialized
<1>. QED  BY <1>1, <1>2, RuntimeStep, PTL

------------------------------------------------------------------------------
(* The commands.  What keeps an exit truthful and a whole with its parts is   *)
(* the order of a handler's transactions, which is stated once of a program   *)
(* and shown of every command.                                                *)

Writes  == {"insert", "keep", "save", "file", "stage"}
Durable == {"insert", "keep", "file"}

\* A refusal comes before every write; what an early return skips is only the
\* row that was found; a failed stage jumps over stages only; and a row that
\* cites others comes after all of them.
Ordered(program) ==
    /\ Len(program) \in Nat
    /\ DOMAIN program = 1..Len(program)
    /\ \A i \in DOMAIN program : program[i].does \in {"named", "refuse"} =>
          \A j \in 1..(i - 1) : program[j].does \notin Writes
    /\ \A i \in DOMAIN program : program[i].does = "unless" =>
          \A j \in DOMAIN program :
             j > i /\ program[j].does \in Durable => program[j].row = program[i].row
    /\ \A i \in DOMAIN program : program[i].does = "stage" =>
          /\ i < Len(SessionProgram) /\ Len(SessionProgram) <= Len(program)
          /\ \A j \in 1..(Len(SessionProgram) - 1) : program[j].does \notin Durable
    /\ \A i \in DOMAIN program :
          program[i].does \in Durable \cup {"stage"} /\ program[i].row \in DOMAIN Parts =>
             \A part \in Parts[program[i].row] :
                \E j \in 1..(i - 1) : program[j].does \in Durable /\ program[j].row = part

\* A command without a connection has nothing to do with the database.
WellFormed(c) == Ordered(c.program) /\ (~c.connects => c.program = << >>)

LEMMA QueryForm == ASSUME NEW counts, NEW row PROVE WellFormed(Query(counts, row))
  BY DEF Query, Cli, Read, Step, WellFormed, Ordered, Writes, Durable

LEMMA TransitionForm == ASSUME NEW counts, NEW row PROVE WellFormed(Transition(counts, row))
  BY DEF Transition, Cli, Read, Save, Step, WellFormed, Ordered, Writes, Durable

\* The commands that only read.
LEMMA QueriesForm ==
    /\ WellFormed(get_campaign) /\ WellFormed(get_run) /\ WellFormed(get_evidence_package)
    /\ WellFormed(get_review) /\ WellFormed(get_decision_candidate)
    /\ WellFormed(get_trading_opportunity_scan) /\ WellFormed(get_trade_plan)
    /\ WellFormed(get_position_plan) /\ WellFormed(get_daily_research_session)
    /\ WellFormed(compare_daily_research_sessions)
    /\ WellFormed(get_historical_dataset_snapshot)
    /\ WellFormed(get_historical_backtest_run)
    /\ WellFormed(get_historical_validation_study)
    /\ WellFormed(get_historical_robustness_study)
    /\ WellFormed(get_survivorship_aware_robustness_study)
    /\ WellFormed(get_corporate_action_semantics_stress)
    /\ WellFormed(get_statistical_evidence_report)
    /\ WellFormed(get_portfolio_historical_evidence)
    /\ WellFormed(get_portfolio_dependence_evidence)
    /\ WellFormed(get_evaluation_evidence_watermark)
  BY QueryForm DEF get_campaign, get_run, get_evidence_package, get_review, get_decision_candidate,
         get_trading_opportunity_scan, get_trade_plan, get_position_plan,
         get_daily_research_session, compare_daily_research_sessions,
         get_historical_dataset_snapshot, get_historical_backtest_run,
         get_historical_validation_study, get_historical_robustness_study,
         get_survivorship_aware_robustness_study, get_corporate_action_semantics_stress,
         get_statistical_evidence_report, get_portfolio_historical_evidence,
         get_portfolio_dependence_evidence, get_evaluation_evidence_watermark

\* The commands that load an aggregate and save it.
LEMMA TransitionsForm ==
    /\ WellFormed(revise_campaign_scope_statement)
    /\ WellFormed(prepare_campaign_for_authorization)
    /\ WellFormed(record_campaign_authorization) /\ WellFormed(activate_campaign)
    /\ WellFormed(suspend_campaign) /\ WellFormed(resume_campaign)
    /\ WellFormed(complete_campaign) /\ WellFormed(cancel_campaign)
    /\ WellFormed(authorize_run) /\ WellFormed(start_run_acquisition)
    /\ WellFormed(start_run_normalization) /\ WellFormed(start_run_validation)
    /\ WellFormed(complete_run_execution) /\ WellFormed(append_run_manifest)
    /\ WellFormed(fail_run) /\ WellFormed(start_evidence_package_collection)
    /\ WellFormed(record_evidence_package_criterion_result)
    /\ WellFormed(record_evidence_package_artifact_reference)
    /\ WellFormed(seal_evidence_package) /\ WellFormed(start_review)
    /\ WellFormed(add_review_finding) /\ WellFormed(complete_review)
    /\ WellFormed(cancel_review)
  BY TransitionForm DEF revise_campaign_scope_statement, prepare_campaign_for_authorization,
         record_campaign_authorization, activate_campaign, suspend_campaign,
         resume_campaign, complete_campaign, cancel_campaign, authorize_run,
         start_run_acquisition, start_run_normalization, start_run_validation,
         complete_run_execution, append_run_manifest, fail_run,
         start_evidence_package_collection, record_evidence_package_criterion_result,
         record_evidence_package_artifact_reference, seal_evidence_package, start_review,
         add_review_finding, complete_review, cancel_review

\* The commands that create an aggregate.
LEMMA CreatesForm ==
    /\ WellFormed(create_campaign) /\ WellFormed(create_run)
    /\ WellFormed(create_evidence_package) /\ WellFormed(create_review)
  BY DEF create_campaign, create_run, create_evidence_package, create_review, Read,
         Insert, Parts, Cli, Step, WellFormed, Ordered, Writes, Durable

\* The research chain.
LEMMA ChainForm ==
    /\ WellFormed(evaluate_trading_observation)
    /\ WellFormed(run_trading_opportunity_scan) /\ WellFormed(build_trade_plan)
    /\ WellFormed(build_position_plan)
  BY DEF evaluate_trading_observation, run_trading_opportunity_scan, build_trade_plan,
         build_position_plan, Read, Insert, Parts, Cli, Step, WellFormed, Ordered, Writes,
         Durable

\* Daily sessions and imports of market data.
LEMMA DailyForm ==
    /\ WellFormed(list_daily_research_sessions) /\ WellFormed(build_daily_research_brief)
    /\ WellFormed(run_daily_research_session) /\ WellFormed(run_daily_research_workflow)
    /\ WellFormed(acquire_market_data_snapshot)
    /\ WellFormed(import_historical_dataset_snapshot)
<1>1. WellFormed(list_daily_research_sessions)
  BY DEF list_daily_research_sessions, Unless, Parts, Cli, Step, WellFormed, Ordered,
         Writes, Durable
<1>2. WellFormed(build_daily_research_brief)
  BY DEF build_daily_research_brief, Read, Parts, Cli, Step, WellFormed, Ordered, Writes,
         Durable
<1>3. WellFormed(run_daily_research_session)
  BY DEF run_daily_research_session, SessionProgram, Stage, Insert, Parts, Cli, Step,
         WellFormed, Ordered, Writes, Durable
<1>4. WellFormed(run_daily_research_workflow)
  BY DEF run_daily_research_workflow, SessionProgram, Read, Stage, Insert, Parts, Cli,
         Step, WellFormed, Ordered, Writes, Durable
<1>5. WellFormed(acquire_market_data_snapshot)
  BY DEF acquire_market_data_snapshot, Insert, Keep, File, Parts, Cli, Step, WellFormed,
         Ordered, Writes, Durable
<1>6. WellFormed(import_historical_dataset_snapshot)
  BY DEF import_historical_dataset_snapshot, Insert, Keep, File, Parts, Cli, Step,
         WellFormed, Ordered, Writes, Durable
<1>. QED  BY <1>1, <1>2, <1>3, <1>4, <1>5, <1>6

\* Backtests and studies.
LEMMA StudiesForm ==
    /\ WellFormed(run_historical_backtest) /\ WellFormed(run_historical_validation_study)
    /\ WellFormed(run_historical_robustness_study)
    /\ WellFormed(run_survivorship_aware_robustness_study)
  BY DEF run_historical_backtest, run_historical_validation_study,
         run_historical_robustness_study, run_survivorship_aware_robustness_study, Insert,
         Keep, Parts, Cli, Step, WellFormed, Ordered, Writes, Durable

\* What is derived from a study.
LEMMA EvidenceReportsForm ==
    /\ WellFormed(run_corporate_action_semantics_stress)
    /\ WellFormed(run_statistical_evidence_analysis)
    /\ WellFormed(run_portfolio_historical_evidence)
    /\ WellFormed(run_portfolio_dependence_evidence)
  BY DEF run_corporate_action_semantics_stress, run_statistical_evidence_analysis,
         run_portfolio_historical_evidence, run_portfolio_dependence_evidence, Read,
         Insert, Parts, Cli, Step, WellFormed, Ordered, Writes, Durable

\* The ledger of the operator and its reports.
LEMMA LedgerForm ==
    /\ WellFormed(record_operator_position_event)
    /\ WellFormed(get_operator_position_state)
    /\ WellFormed(get_operator_evidence_snapshot)
    /\ WellFormed(get_asserted_round_trip_report)
    /\ WellFormed(get_asserted_round_trip_ratio_report)
    /\ WellFormed(get_attested_evidence_report)
    /\ WellFormed(audit_research_decision_follow_through)
    /\ WellFormed(capture_evaluation_evidence_watermark)
  BY DEF record_operator_position_event, get_operator_position_state,
         get_operator_evidence_snapshot, get_asserted_round_trip_report,
         get_asserted_round_trip_ratio_report, get_attested_evidence_report,
         audit_research_decision_follow_through, capture_evaluation_evidence_watermark,
         Read, Insert, Keep, Unless, Parts, Cli, Step, WellFormed, Ordered, Writes,
         Durable

\* Configuration and context.
LEMMA SettingsForm ==
    /\ WellFormed(save_trading_configuration) /\ WellFormed(show_trading_configuration)
    /\ WellFormed(kill_switch) /\ WellFormed(open_evaluation_context)
<1>1. WellFormed(save_trading_configuration)
  BY DEF save_trading_configuration, Wrapped, Insert, Parts, Cli, Step, WellFormed,
         Ordered, Writes, Durable
<1>2. WellFormed(show_trading_configuration)
  BY DEF show_trading_configuration, Wrapped, Named, Parts, Cli, Step, WellFormed,
         Ordered, Writes, Durable
<1>3. WellFormed(kill_switch)
  BY DEF kill_switch, Wrapped, Named, Insert, Unless, Parts, Cli, Step, WellFormed,
         Ordered, Writes, Durable
<1>4. WellFormed(open_evaluation_context)
  BY DEF open_evaluation_context, Wrapped, Named, Insert, Parts, Cli, Step, WellFormed,
         Ordered, Writes, Durable
<1>. QED  BY <1>1, <1>2, <1>3, <1>4

\* Proposals.
LEMMA ProposalsForm ==
    /\ WellFormed(prepare_trade_proposal) /\ WellFormed(explain_no_trade)
    /\ WellFormed(get_trade_proposal) /\ WellFormed(list_trade_proposals)
<1>1. WellFormed(prepare_trade_proposal)
  BY DEF prepare_trade_proposal, Wrapped, Named, Insert, Consider, Parts, Cli, Step,
         WellFormed, Ordered, Writes, Durable
<1>2. WellFormed(explain_no_trade)
  BY DEF explain_no_trade, Wrapped, Named, Consider, Parts, Cli, Step, WellFormed,
         Ordered, Writes, Durable
<1>3. WellFormed(get_trade_proposal)
  BY DEF get_trade_proposal, Wrapped, Named, Parts, Cli, Step, WellFormed, Ordered,
         Writes, Durable
<1>4. WellFormed(list_trade_proposals)
  BY DEF list_trade_proposals, Wrapped, Unless, Parts, Cli, Step, WellFormed, Ordered,
         Writes, Durable
<1>. QED  BY <1>1, <1>2, <1>3, <1>4

\* Decisions and intents.
LEMMA ApprovalForm ==
    /\ WellFormed(decide_trade_proposal) /\ WellFormed(issue_order_intent)
    /\ WellFormed(get_order_intent) /\ WellFormed(invalidate_stale_proposals)
    /\ WellFormed(audit_history) /\ WellFormed(system_status)
<1>1. WellFormed(decide_trade_proposal)
  BY DEF decide_trade_proposal, Wrapped, Named, Refuse, Insert, Parts, Cli, Step,
         WellFormed, Ordered, Writes, Durable
<1>2. WellFormed(issue_order_intent)
  BY DEF issue_order_intent, Wrapped, Named, Insert, Parts, Cli, Step, WellFormed,
         Ordered, Writes, Durable
<1>3. WellFormed(get_order_intent)
  BY DEF get_order_intent, Wrapped, Named, Parts, Cli, Step, WellFormed, Ordered, Writes,
         Durable
<1>4. WellFormed(invalidate_stale_proposals)
  BY DEF invalidate_stale_proposals, Wrapped, Keep, Parts, Cli, Step, WellFormed, Ordered,
         Writes, Durable
<1>5. WellFormed(audit_history)
  BY DEF audit_history, Wrapped, Named, Parts, Cli, Step, WellFormed, Ordered, Writes,
         Durable
<1>6. WellFormed(system_status)
  BY DEF system_status, Wrapped, Unless, Parts, Cli, Step, WellFormed, Ordered, Writes,
         Durable
<1>. QED  BY <1>1, <1>2, <1>3, <1>4, <1>5, <1>6

\* Commands without a connection.
LEMMA OfflineForm ==
    /\ WellFormed(validate_trading_configuration) /\ WellFormed(health)
    /\ WellFormed(version)
  BY DEF validate_trading_configuration, health, version, Offline, Cli, Step, WellFormed,
         Ordered, Writes, Durable

LEMMA CommandsAreWellFormed == \A c \in Command : WellFormed(c)
  BY QueriesForm, TransitionsForm, CreatesForm, ChainForm, DailyForm, StudiesForm,
     EvidenceReportsForm, LedgerForm, SettingsForm, ProposalsForm, ApprovalForm, OfflineForm
     DEF Command

------------------------------------------------------------------------------
(* The inductive invariant *)

Place == [phase : {"new", "parse", "connect", "work", "close", "print", "over"},
          pos : Nat \ {0}, args : WorkflowArgs \cup {<< >>}]

CommandTypeOK ==
    /\ WellFormed(command)
    /\ at \in [Attempt -> Place]
    /\ ready \subseteq Attempt
    /\ error \in [Attempt -> {"none", "refusal", "fault"}]
    /\ wrote \in [Attempt -> SUBSET rows]
    /\ exit \in [Attempt -> {"none", "usage", "trace", "zero", "one", "refused", "killed"}]

\* Which phases an open service, an exception and an exit belong to.
Phased(p) ==
    /\ p \in ready => at[p].phase \in {"work", "close"}
    /\ error[p] # "none" => at[p].phase = "close"
    /\ exit[p] # "none" => at[p].phase = "over"

\* What was written was written by a step that is behind; a refusal came first.
NothingBeforeRefusal(p) ==
    /\ at[p].phase \in {"new", "parse", "connect"} => wrote[p] = {}
    /\ at[p].phase = "work" /\ wrote[p] # {} =>
          \E j \in DOMAIN command.program : j < at[p].pos /\ command.program[j].does \in Writes
    /\ error[p] = "refusal" \/ exit[p] = "refused" => wrote[p] = {}

\* Everything the steps behind a process promise is stored, and in the end all.
Kept(p) ==
    /\ at[p].phase = "work" /\ ~Done(p) =>
          \A j \in DOMAIN command.program :
             j < at[p].pos /\ command.program[j].does \in Durable
                => Stored(p, command.program[j].row)
    /\ \/ at[p].phase = "work" /\ Done(p)
       \/ at[p].phase = "close" /\ error[p] = "none"
       \/ at[p].phase = "print"
       \/ exit[p] = "zero"
       => \A name \in Promised(command.program) : Stored(p, name)

\* The citing rows a process wrote have their parts.
Whole(p) ==
    \A whole \in DOMAIN Parts :
        Row(Own(p), whole, 1) \in wrote[p] => \A part \in Parts[whole] : Stored(p, part)

CommandInv ==
    /\ CommandTypeOK
    /\ \A p \in Attempt : Phased(p) /\ NothingBeforeRefusal(p) /\ Kept(p) /\ Whole(p)

LEMMA CommandInvInit == CommandInit => CommandInv
<1>. SUFFICES ASSUME CommandInit PROVE CommandInv
  OBVIOUS
<1>1. CommandTypeOK
  BY CommandsAreWellFormed DEF CommandInit, CommandTypeOK, New, Place
<1>2. ASSUME NEW p \in Attempt
      PROVE  Phased(p) /\ NothingBeforeRefusal(p) /\ Kept(p) /\ Whole(p)
  BY DEF CommandInit, New, Phased, NothingBeforeRefusal, Kept, Whole
<1>. QED  BY <1>1, <1>2 DEF CommandInv

\* Nobody's rows are ever removed, so what another process does leaves a
\* process as it was.
LEMMA OthersKeep ==
    ASSUME CommandInv, NEW p \in Attempt, UNCHANGED command, rows \subseteq rows',
           at'[p] = at[p], (p \in ready') = (p \in ready), error'[p] = error[p],
           wrote'[p] = wrote[p], exit'[p] = exit[p]
    PROVE  Phased(p)' /\ NothingBeforeRefusal(p)' /\ Kept(p)' /\ Whole(p)'
<1>1. \A name : Stored(p, name) => Stored(p, name)'
  BY DEF Stored, Own
<1>2. Phased(p)'
  BY DEF CommandInv, Phased
<1>3. NothingBeforeRefusal(p)'
  BY DEF CommandInv, NothingBeforeRefusal
<1>4. Kept(p)'
  BY <1>1 DEF CommandInv, Kept, Done
<1>5. Whole(p)'
  BY <1>1 DEF CommandInv, Whole, Own
<1>. QED  BY <1>2, <1>3, <1>4, <1>5

\* A step of one process that keeps its own part of the invariant.
LEMMA OneProcess ==
    ASSUME CommandInv, NEW p \in Attempt, UNCHANGED command, rows \subseteq rows', CommandTypeOK',
           \A q \in Attempt \ {p} :
              /\ at'[q] = at[q] /\ (q \in ready') = (q \in ready) /\ error'[q] = error[q]
              /\ wrote'[q] = wrote[q] /\ exit'[q] = exit[q],
           Phased(p)', NothingBeforeRefusal(p)', Kept(p)', Whole(p)'
    PROVE  CommandInv'
<1>1. ASSUME NEW q \in Attempt, q # p
      PROVE  Phased(q)' /\ NothingBeforeRefusal(q)' /\ Kept(q)' /\ Whole(q)'
  BY <1>1, OthersKeep
<1>. QED  BY <1>1 DEF CommandInv

\* A process ends: with code 0 only when it kept what it promised, with a
\* refusal only when it wrote nothing.
LEMMA ExitStep ==
    ASSUME CommandInv, NEW p \in Attempt, NEW code, Exit(p, code),
           UNCHANGED <<command, wrote, rows>>,
           code \in {"usage", "trace", "zero", "one", "refused", "killed"},
           ready' \subseteq ready, ready \ {p} \subseteq ready', p \notin ready',
           code = "zero" => \A name \in Promised(command.program) : Stored(p, name),
           code = "refused" => wrote[p] = {}
    PROVE  CommandInv'
<1>1. Over \in Place
  BY DEF Over, New, Place
<1>2. CommandTypeOK'
  BY <1>1 DEF CommandInv, CommandTypeOK, Exit
<1>3. at'[p].phase = "over" /\ error'[p] = "none" /\ exit'[p] = code
  BY DEF CommandInv, CommandTypeOK, Exit, Over, New
<1>4. \A q \in Attempt \ {p} : at'[q] = at[q] /\ error'[q] = error[q] /\ exit'[q] = exit[q]
  BY DEF CommandInv, CommandTypeOK, Exit
<1>5. Phased(p)' /\ NothingBeforeRefusal(p)'
  BY <1>3 DEF Phased, NothingBeforeRefusal
<1>6. Kept(p)'
  BY <1>3 DEF Kept, Stored, Own
<1>7. Whole(p)'
  BY DEF CommandInv, Whole, Stored, Own
<1>. QED  BY <1>2, <1>4, <1>5, <1>6, <1>7, OneProcess DEF CommandInv, CommandTypeOK

\* The handler goes on, having passed only steps whose rows are stored.
LEMMA GoToStep ==
    ASSUME CommandInv, NEW p \in Attempt, NEW i \in Nat, GoTo(p, i),
           at[p].phase = "work", at[p].pos <= i,
           \A j \in DOMAIN command.program :
              j < i /\ i <= Len(command.program) /\ command.program[j].does \in Durable
                 => Stored(p, command.program[j].row),
           i > Len(command.program) => \A name \in Promised(command.program) : Stored(p, name)
    PROVE  CommandInv'
<1>1. at[p] \in Place /\ at \in [Attempt -> Place] /\ at[p].pos \in Nat \ {0}
  BY DEF CommandInv, CommandTypeOK, Place
<1>2. at'[p] = [at[p] EXCEPT !.pos = i] /\ at' \in [Attempt -> Place]
  BY <1>1 DEF GoTo, Place
<1>3. at'[p].pos = i /\ at'[p].phase = "work"
  BY <1>1, <1>2 DEF Place
<1>4. CommandTypeOK'
  BY <1>2 DEF CommandInv, CommandTypeOK, GoTo
<1>5. \A q \in Attempt \ {p} : at'[q] = at[q]
  BY <1>1 DEF GoTo
<1>6. Phased(p)'
  BY <1>3 DEF CommandInv, Phased, GoTo
<1>7. NothingBeforeRefusal(p)'
  <2>1. ASSUME wrote[p] # {}
        PROVE  \E j \in DOMAIN command.program : j < i /\ command.program[j].does \in Writes
    BY <1>1, <2>1 DEF CommandInv, CommandTypeOK, WellFormed, Ordered, NothingBeforeRefusal
  <2>. QED  BY <1>3, <2>1 DEF CommandInv, NothingBeforeRefusal, GoTo
<1>8. Kept(p)'
  BY <1>3 DEF CommandInv, CommandTypeOK, WellFormed, Ordered, Kept, Done, Stored, Own, GoTo, Phased
<1>9. Whole(p)'
  BY DEF CommandInv, Whole, Stored, Own, GoTo
<1>. QED  BY <1>4, <1>5, <1>6, <1>7, <1>8, <1>9, OneProcess DEF GoTo

\* What a change of phase leaves.
LEMMA PhaseFacts ==
    ASSUME CommandTypeOK, NEW p \in Attempt, Phase(p, "connect") \/ Phase(p, "work")
             \/ Phase(p, "close") \/ Phase(p, "print")
    PROVE  /\ at' \in [Attempt -> Place]
           /\ at'[p].pos = 1
           /\ \A q \in Attempt \ {p} : at'[q] = at[q]
           /\ Phase(p, "connect") => at'[p].phase = "connect"
           /\ Phase(p, "work") => at'[p].phase = "work"
           /\ Phase(p, "close") => at'[p].phase = "close"
           /\ Phase(p, "print") => at'[p].phase = "print"
<1>1. ASSUME NEW phase \in {"connect", "work", "close", "print"}, Phase(p, phase)
      PROVE  /\ at' \in [Attempt -> Place] /\ at'[p].pos = 1 /\ at'[p].phase = phase
             /\ \A q \in Attempt \ {p} : at'[q] = at[q]
  <2>. DEFINE mid == [at EXCEPT ![p].phase = phase]
  <2>1. at \in [Attempt -> Place] /\ at[p] \in Place
    BY DEF CommandTypeOK
  <2>2. mid[p] = [at[p] EXCEPT !.phase = phase] /\ mid \in [Attempt -> Place]
    BY <2>1 DEF Place
  <2>3. mid[p] \in Place /\ mid[p].phase = phase /\ \A q \in Attempt \ {p} : mid[q] = at[q]
    BY <2>1, <2>2 DEF Place
  <2>4. at' = [mid EXCEPT ![p].pos = 1]
    BY <1>1 DEF Phase
  <2>. HIDE DEF mid
  <2>5. at'[p] = [mid[p] EXCEPT !.pos = 1]
    BY <2>2, <2>4
  <2>8. [mid[p] EXCEPT !.pos = 1] \in Place
    BY <2>3 DEF Place
  <2>6. at'[p].pos = 1 /\ at'[p].phase = phase
    BY <2>3, <2>5 DEF Place
  <2>7. \A q \in Attempt \ {p} : at'[q] = mid[q]
    BY <2>2, <2>4
  <2>9. at' \in [Attempt -> Place]
    BY <2>2, <2>4, <2>8
  <2>. QED  BY <2>3, <2>6, <2>7, <2>9
<1>. QED  BY <1>1

\* An exception on its way out.
LEMMA RaiseStep ==
    ASSUME CommandInv, NEW p \in Attempt, NEW kind \in {"refusal", "fault"}, Raise(p, kind),
           at[p].phase = "work", kind = "refusal" => wrote[p] = {}
    PROVE  CommandInv'
<1>2. at' \in [Attempt -> Place] /\ at'[p].phase = "close" /\ \A q \in Attempt \ {p} : at'[q] = at[q]
  BY PhaseFacts DEF CommandInv, Raise
<1>3. at'[p].phase = "close" /\ error'[p] = kind
  BY <1>2 DEF Raise, CommandInv, CommandTypeOK
<1>4. CommandTypeOK'
  BY <1>2 DEF CommandInv, CommandTypeOK, Raise
<1>5. \A q \in Attempt \ {p} : at'[q] = at[q] /\ error'[q] = error[q]
  BY <1>2 DEF CommandInv, CommandTypeOK, Raise
<1>6. Phased(p)' /\ NothingBeforeRefusal(p)'
  BY <1>3 DEF CommandInv, Phased, NothingBeforeRefusal, Raise
<1>7. Kept(p)'
  BY <1>3 DEF CommandInv, Kept, Phased, Raise
<1>8. Whole(p)'
  BY DEF CommandInv, Whole, Stored, Own, Raise
<1>. QED  BY <1>4, <1>5, <1>6, <1>7, <1>8, OneProcess DEF Raise

\* One transaction commits a row of the step a process is at.
LEMMA CommitStep ==
    ASSUME CommandInv, NEW p \in Attempt, NEW v \in {1, 2},
           at[p].phase = "work", ~Done(p),
           v = 1 => Todo(p).does \in Durable \cup {"stage"},
           v = 2 => Todo(p).does = "save",
           CommitRow(p, Row(Own(p), Todo(p).row, v))
    PROVE  CommandInv'
<1>. DEFINE program == command.program
            i == at[p].pos
            row == Row(Own(p), program[i].row, v)
<1>1. /\ i \in 1..Len(program) /\ i \in DOMAIN program
      /\ DOMAIN program = 1..Len(program) /\ Len(program) \in Nat
  BY DEF CommandInv, CommandTypeOK, Place, WellFormed, Ordered, Done
<1>2. /\ rows' = rows \cup {row} /\ wrote' = [wrote EXCEPT ![p] = @ \cup {row}]
      /\ UNCHANGED <<command, ready, exit>>
  BY DEF CommitRow, Todo
<1>3. wrote'[p] = wrote[p] \cup {row} /\ wrote' \in [Attempt -> SUBSET rows']
  BY <1>2 DEF CommandInv, CommandTypeOK
<1>4. program[i].does \in Writes
  BY DEF Todo, Writes, Durable
<1>5. ASSUME NEW j \in DOMAIN program, j < i + 1, program[j].does \in Durable
      PROVE  Row(Own(p), program[j].row, 1) \in rows'
  <2>1. CASE j < i
    BY <1>1, <1>2, <1>5, <2>1 DEF CommandInv, Kept, Stored, Own
  <2>2. CASE j = i
    BY <1>2, <1>5, <2>2 DEF Todo, Durable, Stored, Own, Row
  <2>. QED  BY <1>1, <1>5, <2>1, <2>2
<1>6. Whole(p)'
  <2>1. ASSUME NEW whole \in DOMAIN Parts, Row(Own(p), whole, 1) = row, NEW part \in Parts[whole]
        PROVE  Stored(p, part)'
    <3>1. v = 1 /\ program[i].row = whole
      BY <2>1 DEF Row
    <3>2. PICK j \in 1..(i - 1) : program[j].does \in Durable /\ program[j].row = part
      BY <1>1, <2>1, <3>1 DEF CommandInv, CommandTypeOK, WellFormed, Ordered, Todo
    <3>3. j \in DOMAIN program /\ j < i + 1
      BY <1>1
    <3>. QED  BY <1>2, <1>5, <3>2, <3>3 DEF Stored, Own
  <2>. QED  BY <1>2, <1>3, <2>1 DEF CommandInv, Whole, Stored, Own
<1>7. CASE at' = [at EXCEPT ![p].pos = @ + 1] /\ UNCHANGED error
  <2>1. at[p] \in Place /\ at \in [Attempt -> Place]
    BY DEF CommandInv, CommandTypeOK
  <2>2. /\ at' \in [Attempt -> Place] /\ at'[p].pos = i + 1 /\ at'[p].phase = "work"
        /\ \A q \in Attempt \ {p} : at'[q] = at[q]
    BY <1>7, <2>1 DEF Place
  <2>3. CommandTypeOK'
    BY <1>2, <1>3, <1>7, <2>2 DEF CommandInv, CommandTypeOK
  <2>4. Phased(p)'
    BY <1>2, <1>7, <2>2 DEF CommandInv, Phased
  <2>5. NothingBeforeRefusal(p)'
    BY <1>1, <1>2, <1>4, <1>7, <2>2 DEF CommandInv, NothingBeforeRefusal, Phased
  <2>6. Kept(p)'
    <3>1. ASSUME Done(p)', NEW name \in Promised(program)
          PROVE  Stored(p, name)'
      <4>1. PICK j \in DOMAIN program : program[j].does \in Durable /\ program[j].row = name
        BY <3>1 DEF Promised, Durable
      <4>2. i + 1 > Len(program)
        BY <1>2, <2>2, <3>1 DEF Done
      <4>3. j < i + 1
        BY <1>1, <4>2
      <4>. QED  BY <1>2, <1>5, <4>1, <4>3 DEF Stored, Own
    <3>. QED  BY <1>2, <1>5, <1>7, <2>2, <3>1 DEF CommandInv, Kept, Phased, Stored, Own
  <2>. QED  BY <1>2, <1>3, <1>6, <1>7, <2>2, <2>3, <2>4, <2>5, <2>6, OneProcess
            DEF CommandInv, CommandTypeOK
<1>8. CASE Phase(p, "close") /\ error' = [error EXCEPT ![p] = "fault"]
  <2>1. /\ at' \in [Attempt -> Place] /\ at'[p].phase = "close"
        /\ \A q \in Attempt \ {p} : at'[q] = at[q]
    BY <1>8, PhaseFacts DEF CommandInv
  <2>2. error'[p] = "fault" /\ \A q \in Attempt \ {p} : error'[q] = error[q]
    BY <1>8 DEF CommandInv, CommandTypeOK
  <2>3. CommandTypeOK'
    BY <1>2, <1>3, <1>8, <2>1 DEF CommandInv, CommandTypeOK
  <2>4. Phased(p)' /\ NothingBeforeRefusal(p)' /\ Kept(p)'
    BY <1>2, <2>1, <2>2 DEF CommandInv, Phased, NothingBeforeRefusal, Kept
  <2>. QED  BY <1>2, <1>3, <1>6, <2>1, <2>2, <2>3, <2>4, OneProcess DEF CommandInv, CommandTypeOK
<1>. QED  BY <1>7, <1>8 DEF CommitRow

\* A process leaves the command line and goes on in another phase.
LEMMA StartSteps ==
    ASSUME CommandInv, NEW p \in Attempt, Usage(p) \/ Start(p)
    PROVE  CommandInv'
<1>1. at[p].phase = "new" /\ p \notin ready
  BY DEF Usage, Start, CommandInv, Phased
<1>2. CASE Usage(p)
  BY <1>1, <1>2, ExitStep DEF Usage
<1>3. CASE Start(p)
  <2>1. PICK args \in WorkflowArgs \cup {<< >>} :
          at' = [at EXCEPT ![p] = [phase |-> "parse", pos |-> 1, args |-> args]]
    BY <1>3 DEF Start
  <2>2. [phase |-> "parse", pos |-> 1, args |-> args] \in Place
    BY DEF Place
  <2>3. at' \in [Attempt -> Place] /\ at'[p].phase = "parse" /\ \A q \in Attempt \ {p} : at'[q] = at[q]
    BY <2>1, <2>2 DEF CommandInv, CommandTypeOK
  <2>4. CommandTypeOK'
    BY <1>3, <2>3 DEF Start, CommandInv, CommandTypeOK
  <2>5. Phased(p)' /\ NothingBeforeRefusal(p)' /\ Kept(p)'
    BY <1>1, <1>3, <2>3 DEF Start, CommandInv, Phased, NothingBeforeRefusal, Kept
  <2>6. Whole(p)'
    BY <1>3 DEF Start, CommandInv, Whole, Stored, Own
  <2>. QED  BY <1>3, <2>3, <2>4, <2>5, <2>6, OneProcess DEF Start
<1>. QED  BY <1>2, <1>3

\* One turn of the parser's loop.
LEMMA ParseStep ==
    ASSUME CommandInv, NEW p \in Attempt, Parse(p)
    PROVE  CommandInv'
<1>1. /\ at[p].phase = "parse" /\ p \notin ready /\ at \in [Attempt -> Place] /\ at[p] \in Place
      /\ UNCHANGED <<command, ready, wrote, rows>>
  BY DEF Parse, CommandInv, CommandTypeOK, Phased
<1>2. ASSUME NEW arg, at' = [at EXCEPT ![p].pos = @ + Advance(arg)], UNCHANGED <<error, exit>>
      PROVE  CommandInv'
  <2>1. Advance(arg) \in {0, 1, 2}
    BY DEF Advance
  <2>2. at[p].pos + Advance(arg) \in Nat \ {0}
    BY <1>1, <2>1 DEF Place
  <2>3. at'[p] = [at[p] EXCEPT !.pos = at[p].pos + Advance(arg)]
    BY <1>1, <1>2
  <2>4. at'[p] \in Place /\ at'[p].phase = "parse"
    BY <1>1, <2>2, <2>3 DEF Place
  <2>5. at' \in [Attempt -> Place] /\ \A q \in Attempt \ {p} : at'[q] = at[q]
    BY <1>1, <1>2, <2>4
  <2>6. CommandTypeOK'
    BY <1>1, <1>2, <2>5 DEF CommandInv, CommandTypeOK
  <2>7. Phased(p)' /\ NothingBeforeRefusal(p)' /\ Kept(p)'
    BY <1>1, <1>2, <2>4 DEF CommandInv, Phased, NothingBeforeRefusal, Kept
  <2>8. Whole(p)'
    BY <1>1 DEF CommandInv, Whole, Stored, Own
  <2>. QED  BY <1>1, <1>2, <2>5, <2>6, <2>7, <2>8, OneProcess
<1>3. CASE Exit(p, "usage")
  BY <1>1, <1>3, ExitStep
<1>. QED  BY <1>2, <1>3 DEF Parse

\* What a program that runs through promises when it has no steps, or none yet.
LEMMA EmptyPromise ==
    ASSUME NEW program, DOMAIN program = 1..Len(program), Len(program) = 0
    PROVE  Promised(program) = {}
  BY DEF Promised

\* A process goes on without having written, or without anything to write.
LEMMA PhaseStep ==
    ASSUME CommandInv, NEW p \in Attempt, NEW phase \in {"connect", "work", "close", "print"},
           Phase(p, phase), UNCHANGED <<command, wrote, rows, exit>>,
           error' \in [Attempt -> {"none", "refusal", "fault"}],
           \A q \in Attempt \ {p} : error'[q] = error[q],
           ready' \subseteq Attempt, \A q \in Attempt \ {p} : q \in ready' <=> q \in ready,
           exit[p] = "none", error'[p] # "none" => phase = "close",
           p \in ready' => phase \in {"work", "close"},
           phase \in {"connect", "work"} => wrote[p] = {}, error'[p] # "refusal",
           phase \in {"close", "print"} /\ error'[p] = "none" =>
              \A name \in Promised(command.program) : Stored(p, name)
    PROVE  CommandInv'
<1>1. /\ at' \in [Attempt -> Place] /\ at'[p].pos = 1 /\ at'[p].phase = phase
      /\ \A q \in Attempt \ {p} : at'[q] = at[q]
  BY PhaseFacts DEF CommandInv
<1>2. CommandTypeOK'
  BY <1>1 DEF CommandInv, CommandTypeOK
<1>3. Phased(p)' /\ NothingBeforeRefusal(p)'
  BY <1>1 DEF CommandInv, Phased, NothingBeforeRefusal
<1>4. Kept(p)'
  <2>1. DOMAIN command.program = 1..Len(command.program) /\ Len(command.program) \in Nat
    BY DEF CommandInv, CommandTypeOK, WellFormed, Ordered
  <2>2. 1 > Len(command.program) => Promised(command.program) = {}
    BY <2>1, EmptyPromise
  <2>. QED  BY <1>1, <2>1, <2>2 DEF Kept, Done, Stored, Own
<1>5. Whole(p)'
  BY DEF CommandInv, Whole, Stored, Own
<1>. QED  BY <1>1, <1>2, <1>3, <1>4, <1>5, OneProcess

\* The arguments are converted, or are not what they should be.
LEMMA ParsedStep ==
    ASSUME CommandInv, NEW p \in Attempt, Parsed(p)
    PROVE  CommandInv'
<1>1. /\ at[p].phase = "parse" /\ p \notin ready /\ wrote[p] = {} /\ exit[p] = "none"
      /\ error[p] = "none" /\ UNCHANGED <<command, ready, wrote, rows>>
  BY DEF Parsed, CommandInv, CommandTypeOK, Phased, NothingBeforeRefusal
<1>2. CASE Phase(p, IF command.connects THEN "connect" ELSE "print") /\ UNCHANGED <<error, exit>>
  <2>1. ~command.connects => Promised(command.program) = {}
    BY DEF CommandInv, CommandTypeOK, WellFormed, Promised
  <2>. QED  BY <1>1, <1>2, <2>1, PhaseStep DEF CommandInv, CommandTypeOK
<1>3. CASE Exit(p, IF command.flags THEN "usage" ELSE operator_command("refusal"))
  BY <1>1, <1>3, ExitStep DEF operator_command
<1>. QED  BY <1>2, <1>3 DEF Parsed

\* The service is opened, or is not.
LEMMA ConnectStep ==
    ASSUME CommandInv, NEW p \in Attempt, postgres_repository_runtime(p)
    PROVE  CommandInv'
<1>1. /\ at[p].phase = "connect" /\ p \notin ready /\ wrote[p] = {} /\ exit[p] = "none"
      /\ error[p] = "none" /\ UNCHANGED <<command, wrote, rows>>
  BY DEF postgres_repository_runtime, CommandInv, CommandTypeOK, Phased, NothingBeforeRefusal
<1>2. CASE ready' = ready \cup {p} /\ Phase(p, "work") /\ UNCHANGED <<error, exit>>
  BY <1>1, <1>2, PhaseStep DEF CommandInv, CommandTypeOK
<1>3. CASE Exit(p, "trace") /\ UNCHANGED ready
  BY <1>1, <1>3, ExitStep
<1>4. CASE error' = [error EXCEPT ![p] = "fault"] /\ Phase(p, "close") /\ UNCHANGED <<ready, exit>>
  BY <1>1, <1>4, PhaseStep DEF CommandInv, CommandTypeOK
<1>. QED  BY <1>2, <1>3, <1>4 DEF postgres_repository_runtime

\* The handler goes on to its next step; the row of this one is stored if it
\* has to be.
LEMMA NextStep ==
    ASSUME CommandInv, NEW p \in Attempt, at[p].phase = "work", ~Done(p), GoTo(p, at[p].pos + 1),
           Todo(p).does \in Durable => Stored(p, Todo(p).row)
    PROVE  CommandInv'
<1>. DEFINE program == command.program
            i == at[p].pos
<1>1. /\ i \in 1..Len(program) /\ i \in DOMAIN program
      /\ DOMAIN program = 1..Len(program) /\ Len(program) \in Nat
  BY DEF CommandInv, CommandTypeOK, Place, WellFormed, Ordered, Done
<1>2. ASSUME NEW j \in DOMAIN program, j < i + 1, program[j].does \in Durable
      PROVE  Stored(p, program[j].row)
  <2>1. CASE j < i
    BY <1>2, <2>1 DEF CommandInv, Kept
  <2>2. CASE j = i
    BY <1>2, <2>2 DEF Todo
  <2>. QED  BY <1>1, <1>2, <2>1, <2>2
<1>3. ASSUME i + 1 > Len(program), NEW name \in Promised(program)
      PROVE  Stored(p, name)
  <2>1. PICK j \in DOMAIN program : program[j].does \in Durable /\ program[j].row = name
    BY <1>3 DEF Promised, Durable
  <2>2. j < i + 1
    BY <1>1, <1>3
  <2>. QED  BY <1>2, <2>1, <2>2
<1>4. i + 1 \in Nat /\ i <= i + 1
  BY <1>1
<1>. HIDE DEF program, i
<1>. QED  BY <1>2, <1>3, <1>4, GoToStep DEF program, i

\* Where a refusal may come nothing has been written.
LEMMA RefusalFirst ==
    ASSUME CommandInv, NEW p \in Attempt, at[p].phase = "work", ~Done(p),
           Todo(p).does \in {"named", "refuse"}
    PROVE  wrote[p] = {}
<1>. DEFINE program == command.program
            i == at[p].pos
<1>1. /\ i \in DOMAIN program /\ DOMAIN program = 1..Len(program) /\ Len(program) \in Nat
  BY DEF CommandInv, CommandTypeOK, Place, WellFormed, Ordered, Done
<1>2. \A j \in 1..(i - 1) : program[j].does \notin Writes
  BY <1>1 DEF CommandInv, CommandTypeOK, WellFormed, Ordered, Todo
<1>3. ASSUME NEW j \in DOMAIN program, j < i  PROVE j \in 1..(i - 1)
  BY <1>1, <1>3
<1>. QED  BY <1>2, <1>3 DEF CommandInv, NothingBeforeRefusal

\* An early return leaves nothing out that is not stored.
LEMMA ReturnEarly ==
    ASSUME CommandInv, NEW p \in Attempt, at[p].phase = "work", ~Done(p),
           GoTo(p, Len(command.program) + 1),
           \/ Todo(p).does = "unless" /\ Stored(p, Todo(p).row)
           \/ Todo(p).does = "consider"
    PROVE  CommandInv'
<1>. DEFINE program == command.program
            i == at[p].pos
<1>1. /\ i \in 1..Len(program) /\ i \in DOMAIN program
      /\ DOMAIN program = 1..Len(program) /\ Len(program) \in Nat
  BY DEF CommandInv, CommandTypeOK, Place, WellFormed, Ordered, Done
<1>2. ASSUME NEW name \in Promised(program)
      PROVE  Stored(p, name)
  <2>1. Todo(p).does # "consider"
    BY <1>1, <1>2 DEF Promised, Todo
  <2>2. Todo(p).does = "unless" /\ Stored(p, program[i].row)
    BY <2>1 DEF Todo
  <2>3. PICK j \in DOMAIN program : program[j].does \in Durable /\ program[j].row = name
    BY <1>2 DEF Promised, Durable
  <2>4. CASE j < i
    BY <2>3, <2>4 DEF CommandInv, Kept
  <2>5. CASE j > i
    BY <1>1, <2>2, <2>3, <2>5 DEF CommandInv, CommandTypeOK, WellFormed, Ordered, Todo
  <2>6. CASE j = i
    BY <2>2, <2>3, <2>6 DEF Todo, Durable
  <2>. QED  BY <1>1, <2>4, <2>5, <2>6
<1>3. Len(program) + 1 \in Nat /\ i <= Len(program) + 1 /\ ~(Len(program) + 1 <= Len(program))
  BY <1>1
<1>. HIDE DEF program, i
<1>. QED  BY <1>2, <1>3, GoToStep DEF program, i

\* Reads, refusals and early returns.
LEMMA LookStep ==
    ASSUME CommandInv, NEW p \in Attempt, Look(p)
    PROVE  CommandInv'
<1>1. /\ at[p].phase = "work" /\ ~Done(p)
      /\ Todo(p).does \in {"read", "named", "refuse", "unless", "consider"}
  BY DEF Look, Working
<1>2. CASE GoTo(p, at[p].pos + 1)
  BY <1>1, <1>2, NextStep DEF Durable
<1>3. CASE GoTo(p, Len(command.program) + 1) /\ Todo(p).does = "unless" /\ Stored(p, Todo(p).row)
  BY <1>1, <1>3, ReturnEarly
<1>4. CASE GoTo(p, Len(command.program) + 1) /\ Todo(p).does = "consider"
  BY <1>1, <1>4, ReturnEarly
<1>5. CASE Raise(p, "fault")
  BY <1>1, <1>5, RaiseStep
<1>6. CASE Raise(p, "refusal") /\ Todo(p).does \in {"named", "refuse"}
  BY <1>1, <1>6, RaiseStep, RefusalFirst
<1>7. CASE Todo(p).does = "read"
  BY <1>2, <1>5, <1>7 DEF Look
<1>8. CASE Todo(p).does = "named"
  BY <1>2, <1>6, <1>8 DEF Look
<1>9. CASE Todo(p).does = "refuse"
  BY <1>2, <1>6, <1>9 DEF Look
<1>10. CASE Todo(p).does = "unless"
  BY <1>2, <1>3, <1>10 DEF Look
<1>11. CASE Todo(p).does = "consider"
  BY <1>2, <1>4, <1>11 DEF Look
<1>. QED  BY <1>1, <1>7, <1>8, <1>9, <1>10, <1>11

\* Inserts, saves and files.
LEMMA WriteStep ==
    ASSUME CommandInv, NEW p \in Attempt, WriteRow(p)
    PROVE  CommandInv'
<1>1. /\ at[p].phase = "work" /\ ~Done(p)
      /\ Todo(p).does \in {"insert", "keep", "save", "file"}
  BY DEF WriteRow, Working
<1>2. CASE CommitRow(p, Row(Own(p), Todo(p).row, 1)) /\ Todo(p).does # "save"
  BY <1>1, <1>2, CommitStep DEF Durable
<1>3. CASE CommitRow(p, Row(Own(p), Todo(p).row, 2)) /\ Todo(p).does = "save"
  BY <1>1, <1>3, CommitStep
<1>4. CASE Raise(p, "fault")
  BY <1>1, <1>4, RaiseStep
<1>5. CASE GoTo(p, at[p].pos + 1) /\ Stored(p, Todo(p).row)
  BY <1>1, <1>5, NextStep
<1>6. CASE Todo(p).does = "insert"
  BY <1>2, <1>4, <1>6 DEF WriteRow
<1>7. CASE Todo(p).does = "keep"
  BY <1>2, <1>5, <1>7 DEF WriteRow, Stored
<1>8. CASE Todo(p).does = "save"
  BY <1>3, <1>4, <1>8 DEF WriteRow
<1>9. CASE Todo(p).does = "file"
  BY <1>2, <1>9 DEF WriteRow
<1>. QED  BY <1>1, <1>6, <1>7, <1>8, <1>9

\* A stage commits, or the session is recorded as failed.
LEMMA StageStep ==
    ASSUME CommandInv, NEW p \in Attempt, RunStage(p)
    PROVE  CommandInv'
<1>. DEFINE program == command.program
            i == at[p].pos
<1>1. at[p].phase = "work" /\ ~Done(p) /\ Todo(p).does = "stage"
  BY DEF RunStage, Working
<1>2. CASE CommitRow(p, Row(Own(p), Todo(p).row, 1))
  BY <1>1, <1>2, CommitStep
<1>3. CASE GoTo(p, Len(SessionProgram))
  <2>1. Len(SessionProgram) = 4
    BY DEF SessionProgram
  <2>2. /\ i \in DOMAIN program /\ DOMAIN program = 1..Len(program) /\ Len(program) \in Nat
        /\ i \in Nat
    BY <1>1 DEF CommandInv, CommandTypeOK, Place, WellFormed, Ordered, Done
  <2>3. /\ i < Len(SessionProgram) /\ Len(SessionProgram) <= Len(program)
        /\ \A j \in 1..(Len(SessionProgram) - 1) : program[j].does \notin Durable
    BY <1>1, <2>2 DEF CommandInv, CommandTypeOK, WellFormed, Ordered, Todo
  <2>4. ASSUME NEW j \in DOMAIN program, j < 4 PROVE program[j].does \notin Durable
    BY <2>1, <2>2, <2>3, <2>4
  <2>5. i <= 4 /\ ~(4 > Len(program)) /\ 4 \in Nat
    BY <2>1, <2>2, <2>3
  <2>. HIDE DEF program, i
  <2>. QED  BY <1>1, <1>3, <2>1, <2>4, <2>5, GoToStep DEF program, i
<1>. QED  BY <1>2, <1>3 DEF RunStage

\* The handler returns, or fails, and the service is closed.
LEMMA CloseSteps ==
    ASSUME CommandInv, NEW p \in Attempt, Fault(p) \/ Return(p) \/ CloseService(p)
    PROVE  CommandInv'
<1>1. CASE Fault(p)
  BY <1>1, RaiseStep DEF Fault, Working
<1>2. CASE Return(p)
  <2>1. error[p] = "none" /\ exit[p] = "none"
    BY <1>2 DEF Return, CommandInv, Phased
  <2>2. \A name \in Promised(command.program) : Stored(p, name)
    BY <1>2 DEF Return, CommandInv, Kept
  <2>. QED  BY <1>2, <2>1, <2>2, PhaseStep DEF Return, CommandInv, CommandTypeOK
<1>3. CASE CloseService(p)
  <2>1. /\ at[p].phase = "close" /\ exit[p] = "none" /\ ready' = ready \ {p}
        /\ UNCHANGED <<command, wrote, rows>>
    BY <1>3 DEF CloseService, CommandInv, Phased
  <2>2. CASE error[p] = "none" /\ Phase(p, "print") /\ UNCHANGED <<error, exit>>
    <3>1. \A name \in Promised(command.program) : Stored(p, name)
      BY <2>1, <2>2 DEF CommandInv, Kept
    <3>. QED  BY <2>1, <2>2, <3>1, PhaseStep DEF CommandInv, CommandTypeOK
  <2>3. CASE error[p] # "none" /\ Exit(p, operator_command(error[p]))
    <3>1. /\ operator_command(error[p]) \in {"trace", "refused"}
          /\ operator_command(error[p]) = "refused" => wrote[p] = {}
      BY DEF operator_command, CommandInv, NothingBeforeRefusal
    <3>. QED  BY <2>1, <2>3, <3>1, ExitStep
  <2>4. CASE Exit(p, "trace")
    BY <2>1, <2>4, ExitStep
  <2>. QED  BY <1>3, <2>2, <2>3, <2>4 DEF CloseService
<1>. QED  BY <1>1, <1>2, <1>3

\* The answer is printed; or the process dies.
LEMMA LastSteps ==
    ASSUME CommandInv, NEW p \in Attempt, PrintAnswer(p) \/ Kill(p)
    PROVE  CommandInv'
<1>1. CASE PrintAnswer(p)
  <2>1. p \notin ready /\ \A name \in Promised(command.program) : Stored(p, name)
    BY <1>1 DEF PrintAnswer, CommandInv, Phased, Kept
  <2>. QED  BY <1>1, <2>1, ExitStep DEF PrintAnswer
<1>2. CASE Kill(p)
  BY <1>2, ExitStep DEF Kill
<1>. QED  BY <1>1, <1>2

LEMMA CommandInvNext ==
    ASSUME CommandInv, [CommandNext]_cmdvars
    PROVE  CommandInv'
<1>1. ASSUME NEW p \in Attempt, Usage(p) \/ Start(p) \/ Progress(p) \/ Kill(p)
      PROVE  CommandInv'
  BY <1>1, StartSteps, ParseStep, ParsedStep, ConnectStep, LookStep, WriteStep, StageStep,
     CloseSteps, LastSteps DEF Progress
<1>2. CASE Lapse
  <2>1. CommandTypeOK'
    BY <1>2 DEF Lapse, CommandInv, CommandTypeOK
  <2>. QED  BY <1>2, <2>1, OthersKeep DEF Lapse, CommandInv
<1>3. CASE UNCHANGED cmdvars
  <2>1. CommandTypeOK'
    BY <1>3 DEF cmdvars, CommandInv, CommandTypeOK
  <2>. QED  BY <1>3, <2>1, OthersKeep DEF cmdvars, CommandInv
<1>. QED  BY <1>1, <1>2, <1>3 DEF CommandNext

LEMMA CommandInvariant == CommandSpec => []CommandInv
  BY CommandInvInit, CommandInvNext, PTL DEF CommandSpec

\* Whatever the command, however many attempts and whoever is killed: code 0
\* is given only when all that the command writes is durable, a refusal only
\* when the process changed nothing, and no process prints or ends with its
\* service open.
THEOREM CommandsTellTheTruth == CommandSpec => []ExitTellsTheTruth
<1>1. CommandInv => ExitTellsTheTruth
  BY DEF CommandInv, Phased, NothingBeforeRefusal, Kept, ExitTellsTheTruth
<1>. QED  BY <1>1, CommandInvariant, PTL

\* A row that cites others is never without them, whichever command stored it
\* and wherever it or another attempt was killed.
THEOREM WholesHaveParts == CommandSpec => []WholeHasParts
<1>1. CommandInv => WholeHasParts
  BY DEF CommandInv, Whole, WholeHasParts
<1>. QED  BY <1>1, CommandInvariant, PTL

==============================================================================
