--------------------------- MODULE OperatorCommands ---------------------------
(***************************************************************************)
(* The command-line entrypoints.  Every command is one process: main()     *)
(* counts its arguments, converts them, opens one persistence service for  *)
(* the handler, closes it, prints the answer and exits.  A command is      *)
(* described by the argument counts it admits, by whether operator_command *)
(* wraps it, and by its handler's program: the transactions it commits one *)
(* after the other, with the reads and refusals between them.  The rows    *)
(* themselves are the other modules' subject; here a row is the name of a  *)
(* table, for the governance id the operator gave, and is stored or not.   *)
(*                                                                         *)
(* One operator issues one command and issues it again, with the same      *)
(* arguments, once for each member of Attempt and without waiting for the  *)
(* attempt before.  A process may be killed anywhere.                      *)
(***************************************************************************)
EXTENDS Integers, Sequences

CONSTANTS
    Attempt,       \* the processes started for the command
    WorkflowFlag   \* options of the daily workflow the operator may give

------------------------------------------------------------------------------
(* Programs: what a handler does with the database *)

Step(does, row) == [does |-> does, row |-> row]

Read(row)    == Step("read", row)      \* raises AggregateNotFound when absent
Named(row)   == Step("named", row)     \* raises NotFoundError when absent
Insert(row)  == Step("insert", row)    \* raises AggregateAlreadyExists when stored
Keep(row)    == Step("keep", row)      \* ON CONFLICT DO NOTHING, or a return of the winner
Save(row)    == Step("save", row)      \* raises a conflict unless the version is as expected
Refuse(row)  == Step("refuse", row)    \* ValueError when stored
Unless(row)  == Step("unless", row)    \* returns early when stored
Consider     == Step("consider", "evaluation")   \* an evaluation that may answer NO_TRADE
Stage(row)   == Step("stage", row)     \* a stage whose failure is recorded, not raised
File(row)    == Step("file", row)      \* writes a file beside the database

\* Rows of the kinds that are there before the command, when anything is.
Sources(program) ==
    {program[i].row : i \in {j \in DOMAIN program : program[j].does \in {"read", "named", "save"}}}

\* Rows the program leaves when it runs through.
Results(program) ==
    {program[i].row : i \in {j \in DOMAIN program :
                               program[j].does \in {"insert", "keep", "stage", "file"}}}

Cli(counts, program) ==
    [counts |-> counts, wrapped |-> FALSE, connects |-> TRUE, flags |-> FALSE, program |-> program]

\* operator_command(_main), the MILESTONE-084 commands.
Wrapped(counts, program) == [Cli(counts, program) EXCEPT !.wrapped = TRUE]

\* No connection at all.
Offline(counts) == [Cli(counts, << >>) EXCEPT !.connects = FALSE]

Query(counts, row) == Cli(counts, <<Read(row)>>)

\* A use case that loads an aggregate and saves it at the expected version.
Transition(counts, row) == Cli(counts, <<Read(row), Save(row)>>)

------------------------------------------------------------------------------
(* The commands.  Counts are those of len(sys.argv), or of the positional  *)
(* arguments where main() splits off the options; AnyCount where it does   *)
(* not count at all.                                                       *)

AnyCount == 0..20

\* Campaign
create_campaign    == Cli({3}, <<Insert("campaign")>>)
get_campaign       == Query({3}, "campaign")
revise_campaign_scope_statement    == Transition({5}, "campaign")
prepare_campaign_for_authorization == Transition({6, 7, 8}, "campaign")
record_campaign_authorization      == Transition({7, 8}, "campaign")
activate_campaign  == Transition({7, 8}, "campaign")
suspend_campaign   == Transition({7, 8}, "campaign")
resume_campaign    == Transition({7, 8}, "campaign")
complete_campaign  == Transition({7, 8}, "campaign")
cancel_campaign    == Transition({6, 7, 8}, "campaign")

\* Run; the campaign a run names is a foreign key.
create_run         == Cli({3}, <<Read("campaign"), Insert("run")>>)
get_run            == Query({3}, "run")
authorize_run      == Transition({6, 7, 8}, "run")
start_run_acquisition   == Transition({6, 7, 8}, "run")
start_run_normalization == Transition({6, 7, 8}, "run")
start_run_validation    == Transition({6, 7, 8}, "run")
complete_run_execution  == Transition({6, 7, 8}, "run")
append_run_manifest     == Transition({6, 7, 8}, "run")
fail_run           == Transition({7, 8}, "run")

\* Evidence package
create_evidence_package == Cli({3}, <<Read("run"), Insert("package")>>)
get_evidence_package    == Query({3}, "package")
start_evidence_package_collection          == Transition({6, 7, 8}, "package")
record_evidence_package_criterion_result   == Transition({7, 8}, "package")
record_evidence_package_artifact_reference == Transition({5}, "package")
seal_evidence_package   == Transition({6, 7, 8}, "package")

\* Review
create_review      == Cli({4}, <<Read("package"), Insert("review")>>)
get_review         == Query({3}, "review")
start_review       == Transition({6, 7, 8}, "review")
add_review_finding == Transition({5, 6}, "review")
complete_review    == Transition({8, 9}, "review")
cancel_review      == Transition({7, 8}, "review")

\* The research chain
evaluate_trading_observation == Cli({4, 5}, <<Read("package"), Insert("candidate")>>)
get_decision_candidate       == Query({3}, "candidate")
run_trading_opportunity_scan ==
    Cli({4, 5}, <<Read("package"), Insert("candidate"), Insert("scan")>>)
get_trading_opportunity_scan == Query({3}, "scan")
build_trade_plan   == Cli({7}, <<Read("scan"), Read("candidate"), Insert("trade_plan")>>)
get_trade_plan     == Query({3}, "trade_plan")
build_position_plan == Cli({6}, <<Read("trade_plan"), Insert("position_plan")>>)
get_position_plan  == Query({3}, "position_plan")

\* Daily sessions.  A stage that fails is recorded in the session; what the
\* stages commit stays.  The workflow makes up a session id of its own.
SessionProgram == <<Stage("governance"), Stage("dataset"), Stage("chain"), Insert("session")>>

run_daily_research_session == Cli(7..20, SessionProgram)
run_daily_research_workflow ==
    [Cli(AnyCount, SessionProgram \o <<Read("session")>>) EXCEPT !.flags = TRUE]
get_daily_research_session      == Query({3}, "session")
compare_daily_research_sessions == Query({3}, "session")
list_daily_research_sessions    == Cli(2..20, <<Unless("session")>>)
build_daily_research_brief      == Cli({0, 2}, <<Read("session")>>)

\* Market data
acquire_market_data_snapshot ==
    Cli(7..20, <<Keep("instrument"), Insert("dataset"), File("artifact")>>)
import_historical_dataset_snapshot ==
    Cli({14}, <<Keep("instrument"), Insert("dataset"), File("artifact"),
                Insert("corporate_action"), Insert("adjusted"), File("adjusted_artifact")>>)
get_historical_dataset_snapshot == Query({3}, "dataset")

\* Historical evidence
run_historical_backtest     == Cli(5..9, <<Insert("backtest")>>)
get_historical_backtest_run == Query({3}, "backtest")
\* Mutant: the study is stored before the runs it cites.
StudyFirst == Cli(9..11, <<Insert("validation"), Insert("backtest")>>)
run_historical_validation_study == Cli(9..11, <<Insert("backtest"), Insert("validation")>>)
get_historical_validation_study == Query({3}, "validation")
run_historical_robustness_study == Cli(7..9, <<Insert("backtest"), Insert("robustness")>>)
get_historical_robustness_study == Query({3}, "robustness")
run_survivorship_aware_robustness_study ==
    Cli(13..15, <<Keep("instrument"), Keep("universe"), Keep("membership"), Insert("backtest"),
                  Insert("stress_backtest"), Insert("robustness"), Insert("survivorship")>>)
get_survivorship_aware_robustness_study == Query({3}, "survivorship")
run_corporate_action_semantics_stress ==
    Cli({11, 12}, <<Read("dataset"), Insert("backtest"), Insert("naive_backtest"),
                    Insert("stress")>>)
get_corporate_action_semantics_stress == Query({3}, "stress")
run_statistical_evidence_analysis ==
    Cli(4..7, <<Read("survivorship"), Read("backtest"), Insert("statistics")>>)
get_statistical_evidence_report == Query({3}, "statistics")
run_portfolio_historical_evidence ==
    Cli(4..8, <<Read("survivorship"), Read("backtest"), Insert("portfolio")>>)
get_portfolio_historical_evidence == Query({3}, "portfolio")
run_portfolio_dependence_evidence == Cli(5..7, <<Read("portfolio"), Insert("dependence")>>)
get_portfolio_dependence_evidence == Query({3}, "dependence")

\* The operator's ledger and its reports, which are empty rather than missing
record_operator_position_event == Cli(AnyCount, <<Insert("event")>>)
get_operator_position_state    == Cli(AnyCount, <<Unless("event")>>)
get_operator_evidence_snapshot == Cli(AnyCount, <<Unless("event")>>)
get_asserted_round_trip_report == Cli(AnyCount, <<Unless("event")>>)
get_asserted_round_trip_ratio_report   == Cli(AnyCount, <<Unless("event")>>)
get_attested_evidence_report           == Cli(AnyCount, <<Unless("event")>>)
audit_research_decision_follow_through == Cli({2}, <<Read("session"), Unless("event")>>)
capture_evaluation_evidence_watermark  == Cli({1}, <<Keep("watermark")>>)
get_evaluation_evidence_watermark      == Query({1}, "watermark")

\* Decision to approval
validate_trading_configuration == [Offline({1}) EXCEPT !.wrapped = TRUE]
save_trading_configuration == Wrapped({1}, <<Insert("configuration")>>)
show_trading_configuration == Wrapped({1, 2}, <<Named("configuration")>>)
\* "status" reads; "on" and "off" copy the latest version forward, unless the
\* switch is already there.
kill_switch == Wrapped({2}, <<Named("configuration"), Unless("moved"), Insert("moved")>>)
open_evaluation_context ==
    Wrapped({1}, <<Named("configuration"), Named("watermark"), Insert("context")>>)
prepare_trade_proposal ==
    Wrapped({5}, <<Named("context"), Named("configuration"), Consider, Insert("proposal")>>)
explain_no_trade    == Wrapped({4}, <<Named("context"), Named("configuration"), Consider>>)
get_trade_proposal  == Wrapped({1}, <<Named("proposal")>>)
list_trade_proposals == Wrapped({0, 1}, <<Unless("proposal")>>)

\* A proposal that has moved on is refused; the decision is recorded, then the
\* proposal moved.
decide_trade_proposal ==
    Wrapped({4, 5}, <<Named("proposal"), Named("configuration"), Refuse("status"),
                      Insert("decision"), Insert("status")>>)
issue_order_intent ==
    Wrapped({3, 4}, <<Named("proposal"), Named("decision"), Insert("intent")>>)
get_order_intent    == Wrapped({1}, <<Named("intent")>>)
invalidate_stale_proposals == Wrapped({0, 1, 2}, <<Keep("swept")>>)
audit_history       == Wrapped({1}, <<Named("proposal")>>)
system_status       == Wrapped({0, 1}, <<Unless("proposal")>>)

\* Foundation
health  == Offline(AnyCount)
version == Offline(AnyCount)

Command ==
    {create_campaign, get_campaign, revise_campaign_scope_statement,
     prepare_campaign_for_authorization, record_campaign_authorization, activate_campaign,
     suspend_campaign, resume_campaign, complete_campaign, cancel_campaign, create_run, get_run,
     authorize_run, start_run_acquisition, start_run_normalization, start_run_validation,
     complete_run_execution, append_run_manifest, fail_run, create_evidence_package,
     get_evidence_package, start_evidence_package_collection,
     record_evidence_package_criterion_result, record_evidence_package_artifact_reference,
     seal_evidence_package, create_review, get_review, start_review, add_review_finding,
     complete_review, cancel_review, evaluate_trading_observation, get_decision_candidate,
     run_trading_opportunity_scan, get_trading_opportunity_scan, build_trade_plan, get_trade_plan,
     build_position_plan, get_position_plan, run_daily_research_session,
     run_daily_research_workflow, get_daily_research_session, compare_daily_research_sessions,
     list_daily_research_sessions, build_daily_research_brief, acquire_market_data_snapshot,
     import_historical_dataset_snapshot, get_historical_dataset_snapshot, run_historical_backtest,
     get_historical_backtest_run, run_historical_validation_study, get_historical_validation_study,
     run_historical_robustness_study, get_historical_robustness_study,
     run_survivorship_aware_robustness_study, get_survivorship_aware_robustness_study,
     run_corporate_action_semantics_stress, get_corporate_action_semantics_stress,
     run_statistical_evidence_analysis, get_statistical_evidence_report,
     run_portfolio_historical_evidence, get_portfolio_historical_evidence,
     run_portfolio_dependence_evidence, get_portfolio_dependence_evidence,
     record_operator_position_event, get_operator_position_state, get_operator_evidence_snapshot,
     get_asserted_round_trip_report, get_asserted_round_trip_ratio_report,
     get_attested_evidence_report, audit_research_decision_follow_through,
     capture_evaluation_evidence_watermark, get_evaluation_evidence_watermark,
     validate_trading_configuration, save_trading_configuration, show_trading_configuration,
     kill_switch, open_evaluation_context, prepare_trade_proposal, explain_no_trade,
     get_trade_proposal, list_trade_proposals, decide_trade_proposal, issue_order_intent,
     get_order_intent, invalidate_stale_proposals, audit_history, system_status, health, version}

------------------------------------------------------------------------------
(* The processes *)

VARIABLES
    command,   \* what the operator asked for
    at,        \* where each process is
    ready,     \* the processes whose service is initialized and not closed
    error,     \* the exception on its way out: "none", "refusal" or "fault"
    wrote,     \* history: the rows a process committed
    exit,      \* how a process ended
    rows       \* the rows stored, with their version

cmdvars == <<command, at, ready, error, wrote, exit, rows>>

Row(of, name, v) == [of |-> of, name |-> name, version |-> v]

\* The governance id of the rows a process works on: the one it was given, or
\* one that _random_session_governance_id made up.
Own(p) == IF command.flags THEN p ELSE "given"

Stored(p, name) == Row(Own(p), name, 1) \in rows

New  == [phase |-> "new", pos |-> 1, args |-> << >>]
Over == [New EXCEPT !.phase = "over"]

\* What the command reads is there, all of it or none of it.
CommandInit ==
    /\ command \in Command
    /\ at = [p \in Attempt |-> New]
    /\ ready = {}
    /\ error = [p \in Attempt |-> "none"]
    /\ wrote = [p \in Attempt |-> {}]
    /\ exit = [p \in Attempt |-> "none"]
    /\ rows \in {{}, {Row("given", name, 1) : name \in Sources(command.program)}}

Phase(p, phase) == at' = [at EXCEPT ![p].phase = phase, ![p].pos = 1]

\* The process ends; SystemExit, a traceback and a normal return all come here.
Exit(p, code) ==
    /\ at' = [at EXCEPT ![p] = Over]
    /\ exit' = [exit EXCEPT ![p] = code]
    /\ error' = [error EXCEPT ![p] = "none"]

\* Mutant: the wrapper prints the refusal and returns.
SwallowRefusal(kind) == IF command.wrapped /\ kind = "refusal" THEN "zero" ELSE "trace"

\* The exit an exception that reaches main() ends in: InputError, ValueError
\* and NotFoundError are refusals of a wrapped command, all else a traceback.
operator_command(kind) == IF command.wrapped /\ kind = "refusal" THEN "refused" ELSE "trace"

\* len(sys.argv) or len(positional) is not a count main() admits.
Usage(p) ==
    /\ at[p].phase = "new"
    /\ command.counts # AnyCount
    /\ Exit(p, "usage")
    /\ UNCHANGED <<command, ready, wrote, rows>>

\* The arguments of the daily workflow are parsed one by one.
WorkflowArgs == {<<"symbol">>} \cup {<<f, "symbol">> : f \in WorkflowFlag}
                \cup {<<"symbol", f>> : f \in WorkflowFlag} \cup {<<f>> : f \in WorkflowFlag}

Start(p) ==
    /\ at[p].phase = "new"
    /\ \E args \in IF command.flags THEN WorkflowArgs ELSE {<< >>} :
          at' = [at EXCEPT ![p] = [phase |-> "parse", pos |-> 1, args |-> args]]
    /\ UNCHANGED <<command, ready, error, wrote, exit, rows>>

NumberOptions == {"--lookback-days", "--account-equity", "--risk-percent"}
ValueOptions  == NumberOptions \cup {"--as-of", "--artifact-path"}

\* Mutant: another option's branch forgets to advance as well.
AdvanceShort(arg) ==
    CASE arg \in {"--no-capital-feasibility", "--no-portfolio-aware-feasibility"} -> 0
      [] arg \in ValueOptions -> 2
      [] OTHER -> 1

\* By how much one turn of _parse_args' loop advances; the branch of
\* --no-capital-feasibility has no increment.
Advance(arg) ==
    CASE arg = "--no-capital-feasibility" -> 0
      [] arg \in ValueOptions -> 2
      [] OTHER -> 1

\* One turn of the loop; a turn that does not advance leaves everything as it
\* was, for ever.  An option without its value, an unknown option and a
\* value that does not convert end in the usage message; so does a line
\* without a symbol.  Without options this is the one conversion of main().
Parse(p) ==
    /\ at[p].phase = "parse"
    /\ at[p].pos <= Len(at[p].args)
    /\ LET arg == at[p].args[at[p].pos]
       IN  \/ /\ Advance(arg) = 2 => at[p].pos < Len(at[p].args)
              /\ arg # "--unknown"
              /\ at' = [at EXCEPT ![p].pos = @ + Advance(arg)]
              /\ UNCHANGED <<error, exit>>
           \/ /\ \/ arg \in NumberOptions \cup {"--unknown"}
                 \/ arg \in ValueOptions /\ at[p].pos = Len(at[p].args)
              /\ Exit(p, "usage")
    /\ UNCHANGED <<command, ready, wrote, rows>>

\* A symbol that was taken as an option's value is not one of the universe.
HasSymbol(args) ==
    \E i \in DOMAIN args : args[i] = "symbol" /\ (i > 1 => Advance(args[i - 1]) # 2)

Parsed(p) ==
    /\ at[p].phase = "parse"
    /\ at[p].pos > Len(at[p].args)
    /\ \/ /\ command.flags => HasSymbol(at[p].args)
          /\ Phase(p, IF command.connects THEN "connect" ELSE "print")
          /\ UNCHANGED <<error, exit>>
       \/ /\ ~command.flags \/ ~HasSymbol(at[p].args)
          /\ Exit(p, IF command.flags THEN "usage" ELSE operator_command("refusal"))
    /\ UNCHANGED <<command, ready, wrote, rows>>

\* An exception leaves the handler; the finally clause comes next.
Raise(p, kind) ==
    /\ error' = [error EXCEPT ![p] = kind]
    /\ Phase(p, "close")
    /\ UNCHANGED <<command, ready, wrote, exit, rows>>

\* postgres_repository_runtime up to its yield: the configuration may not
\* resolve, which leaves nothing to close, and initialize() may raise.
postgres_repository_runtime(p) ==
    /\ at[p].phase = "connect"
    /\ \/ /\ ready' = ready \cup {p}
          /\ Phase(p, "work")
          /\ UNCHANGED <<error, exit>>
       \/ /\ Exit(p, "trace")
          /\ UNCHANGED ready
       \/ /\ error' = [error EXCEPT ![p] = "fault"]
          /\ Phase(p, "close")
          /\ UNCHANGED <<ready, exit>>
    /\ UNCHANGED <<command, wrote, rows>>

Todo(p) == command.program[at[p].pos]
Done(p) == at[p].pos > Len(command.program)

\* The program goes on at step i.
GoTo(p, i) ==
    /\ at' = [at EXCEPT ![p].pos = i]
    /\ UNCHANGED <<command, ready, error, wrote, exit, rows>>

\* One transaction commits.  When the acknowledgement is lost the handler sees
\* an exception instead.
CommitRow(p, row) ==
    /\ rows' = rows \cup {row}
    /\ wrote' = [wrote EXCEPT ![p] = @ \cup {row}]
    /\ \/ /\ at' = [at EXCEPT ![p].pos = @ + 1]
          /\ UNCHANGED error
       \/ /\ Phase(p, "close")
          /\ error' = [error EXCEPT ![p] = "fault"]
    /\ UNCHANGED <<command, ready, exit>>

Working(p, kinds) ==
    /\ at[p].phase = "work"
    /\ ~Done(p)
    /\ Todo(p).does \in kinds

\* Reads, refusals and early returns.
Look(p) ==
    /\ Working(p, {"read", "named", "refuse", "unless", "consider"})
    /\ LET step == Todo(p)
           next == at[p].pos + 1
           last == Len(command.program) + 1
       IN  CASE step.does \in {"read", "named"} /\ Stored(p, step.row)  -> GoTo(p, next)
             [] step.does = "read" /\ ~Stored(p, step.row)              -> Raise(p, "fault")
             [] step.does = "named" /\ ~Stored(p, step.row)             -> Raise(p, "refusal")
             [] step.does = "refuse" /\ Stored(p, step.row)             -> Raise(p, "refusal")
             [] step.does = "refuse" /\ ~Stored(p, step.row)            -> GoTo(p, next)
             [] step.does = "unless" /\ Stored(p, step.row)             -> GoTo(p, last)
             [] step.does = "unless" /\ ~Stored(p, step.row)            -> GoTo(p, next)
             [] step.does = "consider"                -> GoTo(p, next) \/ GoTo(p, last)

\* Inserts, saves and files.
WriteRow(p) ==
    /\ Working(p, {"insert", "keep", "save", "file"})
    /\ LET step == Todo(p)
           one == Row(Own(p), step.row, 1)
           two == Row(Own(p), step.row, 2)
       IN  CASE step.does = "insert" /\ one \notin rows -> CommitRow(p, one)
             [] step.does = "insert" /\ one \in rows  -> Raise(p, "fault")
             [] step.does = "keep" /\ one \notin rows -> CommitRow(p, one)
             [] step.does = "keep" /\ one \in rows    -> GoTo(p, at[p].pos + 1)
             [] step.does = "save" /\ two \notin rows -> CommitRow(p, two)
             [] step.does = "save" /\ two \in rows    -> Raise(p, "fault")
             [] step.does = "file"                    -> CommitRow(p, one)

\* A stage of the daily session commits its rows; when it raises the session
\* is recorded as failed, which is the program's last insert.
RunStage(p) ==
    /\ Working(p, {"stage"})
    /\ \/ /\ ~Stored(p, Todo(p).row)
          /\ CommitRow(p, Row(Own(p), Todo(p).row, 1))
       \/ GoTo(p, Len(SessionProgram))

\* The database is gone, or a lock, a deadlock or a constraint gets in the way.
Fault(p) ==
    /\ Working(p, {"read", "named", "insert", "keep", "save", "file", "unless"})
    /\ Raise(p, "fault")

Return(p) ==
    /\ at[p].phase = "work"
    /\ Done(p)
    /\ Phase(p, "close")
    /\ UNCHANGED <<command, ready, error, wrote, exit, rows>>

\* service.close() in the finally clause.  Its own exception replaces the
\* answer, and the exception, of the handler.
CloseService(p) ==
    /\ at[p].phase = "close"
    /\ ready' = ready \ {p}
    /\ \/ /\ error[p] = "none"
          /\ Phase(p, "print")
          /\ UNCHANGED <<error, exit>>
       \/ /\ error[p] # "none"
          /\ Exit(p, operator_command(error[p]))
       \/ Exit(p, "trace")
    /\ UNCHANGED <<command, wrote, rows>>

\* The daily session's main() exits 1 after printing a session that failed.
CompletedStages(p) ==
    \A i \in DOMAIN command.program :
        command.program[i].does = "stage" =>
            Row(Own(p), command.program[i].row, 1) \in wrote[p]

PrintAnswer(p) ==
    /\ at[p].phase = "print"
    /\ \/ Exit(p, IF command.flags \/ CompletedStages(p) THEN "zero" ELSE "one")
       \/ Exit(p, "trace")
    /\ UNCHANGED <<command, ready, wrote, rows>>

\* The process dies; the server drops its connection and rolls back.
Kill(p) ==
    /\ at[p].phase \notin {"new", "over"}
    /\ Exit(p, "killed")
    /\ ready' = ready \ {p}
    /\ UNCHANGED <<command, wrote, rows>>

\* Somebody else's sweep or decision moves the proposal meanwhile.
Lapse ==
    /\ "status" \in Results(command.program)
    /\ Row("given", "status", 1) \notin rows
    /\ rows' = rows \cup {Row("given", "status", 1)}
    /\ UNCHANGED <<command, at, ready, error, wrote, exit>>

Progress(p) ==
    \/ Parse(p)
    \/ Parsed(p)
    \/ postgres_repository_runtime(p)
    \/ Look(p)
    \/ WriteRow(p)
    \/ RunStage(p)
    \/ Fault(p)
    \/ Return(p)
    \/ CloseService(p)
    \/ PrintAnswer(p)

CommandNext ==
    \/ \E p \in Attempt : Usage(p) \/ Start(p) \/ Progress(p) \/ Kill(p)
    \/ Lapse

\* A process that is not killed is scheduled, and its requests to the database
\* and the network return or time out.  Nobody has to start one.
Fairness == \A p \in Attempt : WF_cmdvars(Progress(p))

CommandSpec == CommandInit /\ [][CommandNext]_cmdvars /\ Fairness

------------------------------------------------------------------------------
(* Properties *)

\* What a program promises when it answers: everything it writes, unless the
\* evaluation may decline.
Promised(program) ==
    IF \E i \in DOMAIN program : program[i].does = "consider" THEN {}
    ELSE {program[i].row : i \in {j \in DOMAIN program :
                                     program[j].does \in {"insert", "keep", "file"}}}

\* However a command ends, its exit tells the truth.  Code 0 is only given when
\* everything the command writes is durable, whoever wrote it, and whatever other
\* attempts did or left undone; REFUSED is a final answer, after which nothing
\* has changed; and no answer is printed, nor a traceback or a usage message
\* left behind, with the service still open.
ExitTellsTheTruth ==
    \A p \in Attempt :
        /\ exit[p] = "zero" => \A name \in Promised(command.program) : Stored(p, name)
        /\ exit[p] = "refused" => wrote[p] = {}
        /\ at[p].phase \in {"new", "print", "over"} => p \notin ready

\* Rows that cite others, which are committed in transactions of their own.
Parts ==
    [scan         |-> {"candidate"},
     validation   |-> {"backtest"},
     robustness   |-> {"backtest"},
     survivorship |-> {"instrument", "universe", "membership", "backtest", "stress_backtest",
                       "robustness"},
     stress       |-> {"backtest", "naive_backtest"},
     adjusted     |-> {"dataset", "corporate_action"},
     status       |-> {"decision"}]

\* Several transactions, one whole: when a process has stored a study, a scan, an
\* adjusted dataset or a decided proposal, every row it cites is stored too,
\* although the parts are committed one by one and any process may die between.
WholeHasParts ==
    \A p \in Attempt : \A whole \in DOMAIN Parts :
        Row(Own(p), whole, 1) \in wrote[p] => \A part \in Parts[whole] : Stored(p, part)

\* Every command that is started ends, however it is answered.
EveryCommandEnds ==
    \A p \in Attempt : at[p].phase # "new" ~> at[p].phase = "over"

==============================================================================
