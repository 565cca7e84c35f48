# Specifications of the Empirical Platform

TLA+ modules for the core of `src/empirical_platform`: the state the platform
keeps in PostgreSQL, the handlers that change it, what can happen between two
of their transactions, and what must hold all the same. TLC checks the modules
on small instances; TLAPS proves the most important properties for instances
of any size. `PROJECT.json` maps every definition to the lines it models.

Each run is `tlc -config <cfg> <module>`, each proof `tlapm <module>.tla`.

## The system

The platform is a Python package over PostgreSQL. It has no server process and
no background threads: some 90 command-line entrypoints build one command each and
call one handler (`usecases/`), so concurrency comes from several processes on
one database. Nothing sets an isolation level, so transactions are READ
COMMITTED: every statement sees what is committed when it starts. A handler
that makes several repository calls makes several transactions, except inside
`run_composed`. Times are arguments of the
commands and never clock readings, with the exception of a receipt's label.

| Component | State | Operations | Why it is hard |
|---|---|---|---|
| Campaign, Run, EvidencePackage, Review (M013–M052) | a versioned root row, its owned rows, a transition history | create; lifecycle and content methods, each load–modify–save with an expected version | two handlers hold the same version; `get()` reads root and children in several statements; `save()` deletes and re-inserts all children; the reconstruction rules repeat the methods' guards in a second place |
| Persistence service (M023, M024) | service lifecycle, two context variables, one open transaction | unit of work, joined unit of work, `run_composed`, `initialize`, `close` | failures, swallowed exceptions and a failed COMMIT on every exit path |
| Decision to approval (M084) | configurations by version, evaluation contexts, proposals, decisions, order intents | save configuration, kill switch, open context, prepare, decide, issue, sweep | decide is two transactions; the admission trigger reads without a lock; sweeps race decisions; the switch is a copy-forward |
| Operator position ledger (M076) | append-only events | `append_validated`, `derive_position_state` | events arrive in any order of their timestamps; writers race; one advisory lock per position |
| Receipts and watermarks (M082, M083) | receipts of events, captured sets of receipts | `attest`, `capture` | idempotent calls race; the set is computed before the row commits |
| Trade proposal engine (M084) | none | `evaluate_trade_proposal` | 26 refusals with a precedence, prices and sizes rounded to cents and lots against reserves and caps, wall-clock validity windows |
| Operator reports (M078–M081) | none | evidence snapshot, round trips, ratios, follow-through audit, all with a knowledge cutoff | two timestamps per event; partial knowledge does not fold; decimals rendered and parsed back |
| Candidate to position plan, daily session and brief (M057–M060, M070–M073) | stored candidates, scans, plans, sessions, price artifacts on disk | a session is some ten transactions and a file; each step reads its predecessor | one step of several fails; derived ids collide; the brief infers what the session did not store |
| Capital feasibility (M075, M077) | none | greedy admission of ranked plans under a ceiling | held exposure and plans already acted upon share it |
| Datasets, backtests, studies, portfolios, evidence (M061–M069, M074) | snapshots, runs, studies, reports, masters, memberships, files | import, acquire, stress, six kinds of study and report, evidence discovery | parts and whole are separate transactions; look-ahead; membership and splits at a boundary day |
| Command-line entrypoints | a process: its service, its exit code | parse, start, call, print, close | exit codes on every path; a hand-written parse loop |
| Foundation runtime | two services, their state | start, cleanup, health, close | the second service fails after the first is up |

The components meet in the database. Handlers of the aggregates and of M084 use
a repository each; the repositories use the persistence service, whose composed
transactions let several repository calls share one transaction. Receipts refer
to ledger events, watermarks to receipts, and proposals to configuration
versions through evaluation contexts. A study names its backtest runs, a report
its study, and a daily session is shown reports through an evidence query; files
hold the price artifacts whose digests the database stores.

What makes each component correct:

- aggregates: no lost update, nothing half written, finished objects frozen,
  and whatever was saved can be loaded again;
- persistence: a composed transaction is all or nothing, failures are sticky,
  the context variables are clean afterwards;
- decision to approval: no order intent without a live approval of exactly its
  terms; audit history is never rewritten; stale proposals do not stay queued;
- ledger: every stored position folds, at every instant; late events never
  increase a known exposure;
- receipts and watermarks: one authority per identity, and watermarks that
  never contradict each other;
- engine: a proposal keeps to every limit of its policy through all roundings,
  and the engine always answers where an answer is possible;
- reports: nothing recorded after the cutoff shows at it, and what is rendered
  is exact;
- research: no decision, trade or study uses what was not known at its time;
  records cite their own rows; sums of reports are sums of stored trades;
- entrypoints: every command ends, with an exit code that is true of the
  database, and nothing stored cites a part that is not.

## Modules

| Module | Models | Correspondence |
|---|---|---|
| `Aggregate` | `_transition` and the history validation shared by the four aggregates | a record of a root row and child tables; a method returns the set of results, empty when it raises |
| `Campaign`, `Run`, `EvidencePackage`, `Review` | the aggregate classes and their `_reconstruct_*` rules | one operator per method; `Next` calls them one at a time: the abstract specification of a stored aggregate |
| `AggregateStore` | the four repositories and the load–modify–save shape of a handler | `db` is the stored rows, `session` what a client has read; one step per SELECT of `get()`, one for `save()`, whose guarded UPDATE holds the row lock |
| `CampaignHandlers`, `RunHandlers`, `EvidencePackageHandlers`, `ReviewHandlers` | the use-case handlers of each aggregate | one action per handler over `AggregateStore`; `Domain` is the aggregate's module with `db` as its state |
| `Aggregates` | the last three side by side | `kind` selects which aggregate the one followed identity belongs to; `Guess` is a Campaign whose callers pass a version one ahead |
| `PersistenceService` | `shared/persistence/postgres.py` | `where` is the block the thread is in, `guard` and `scope` the context variables, `tx` the open transaction |
| `DecisionToApproval` | the M084 handlers, repositories and triggers | one variable per table, `session` the handler a client is in; one step per transaction |
| `Decimals` | the `Decimal` operations of M084 | a number is an integer in a fixed unit; rounding half even, up and down |
| `TradeProposalEngine` | `trade_proposal.py`, the policy's and the inputs' own checks | the inputs are the state, each step changes one of them, `evaluate_trade_proposal` is an operator built from the refusals in their precedence |
| `PositionFold` | `decision_candidate/operator_position_ledger.py` | the fold, the validation and the derivation as operators |
| `OperatorPositionLedger` | the M076 repository and handler | one step per statement of `append_validated` |
| `OperatorReports` | M078–M081 over `PositionFold` | the ledger grows event by event; each report is an operator of ledger, cutoff and as-of |
| `OperatorEventReceipts` | M082 and M083 repositories, handlers and triggers | one step per transaction; capture has its INSERT and its COMMIT apart |
| `ResearchChain` | strategy, ranking, plan geometry, sizing, M075 and M077 | operators over bars and requests |
| `ResearchSession` | the daily session, its repositories, the brief | one step per transaction, file write or vendor call of a session; `db` and `disk` are shared by the sessions |
| `HistoricalBacktest` | M061 | the walk over the bars as operators |
| `HistoricalStudies` | M062–M064, M066–M068 | windows, membership, pooled trades, the portfolio's event loop, overlap |
| `DatasetSnapshots` | M065, M069, corporate actions | the checks of import and acquisition, adjusted bars, the stress comparison |
| `HistoricalEvidence` | the commands of M061–M069 and the evidence query of M074 | `todo` is what a process has left to store; a start reads and builds, then one step per repository call or file write; composes the four modules above |
| `OperatorCommands` | `entrypoints/` and their composition | a command has a class that says how it parses, which parts and whole it stores and how it exits; one step per call |
| `FoundationRuntime` | `shared/bootstrap.py`, health and readiness of both services, put and delete of `s3.py` | one step per call that can fail; a delete is a head and a delete |
| `*Proofs` | theorems and their lemmas | see below; `RuntimeProofs` is about the persistence service, the runtime and the commands, `DecisionToApprovalProofs` also about the engine, `OperatorPositionLedgerProofs` also about the reports, `AggregatesProofs` about Run, EvidencePackage, Review and Campaign |
| `MC*` | symmetry sets, small markets, policies and histories for TLC | |

Left out throughout: actors, reasons' wording, correlation ids, notes and
prices where no guard reads them; error texts; rows of other identities where
identities never meet. A crash is an action of the model: a client can stop
between any two transactions, which loses what it has read and rolls back what
it has open.

Operators named as mutants are deliberate mistakes, each of which makes TLC
report the property it is listed with.

## Runs

| Run | Configuration | Shows |
|---|---|---|
| `campaign_handlers` | 2 clients, 2 scopes, versions up to 5 | the handlers over the repository implement the atomic Campaign (`AtomicCampaign`, a refinement); what `get()` hands out was committed |
| `aggregate_handlers` | 2 clients, versions up to 5 (objects up to 7) | the same refinement for Run, EvidencePackage and Review; what is stored reconstructs; finished aggregates are frozen; a sealed package is loaded exactly; also with a wrong expected version, child rows only grow |
| `decision_to_approval` | 2 clients, 2 proposals, 2 versions, instants 0..1 | intents are authorised and auditable; a decided status has its decision; a sweep leaves nothing stale behind it; history is kept |
| `position_ledger` | 2 clients, 2 positions, 2 instruments, 3 events, quantities to 2, instants 0..2 | the ledger folds; at every instant the loop computes what a definition without a loop says; late events only take exposure away |
| `operator_calculations` | the reports: 3 events, 2 positions, quantities to 2, 2 instants in both timestamps, one entry price, four exit prices, ratios to 2 places; the engine: 2 policies, 2 markets, every combination of up to 3 changed inputs | reports: knowledge firewall; round trips reconcile for events asserted in order; ratios are exact, and their decimal approximations honest about sign and digits; the audit accounts for every position. Engine: a proposal respects reserve, caps, lots and liquidation time through all roundings; it fails to answer only where a cent is too coarse for the exits |
| `event_receipts` | 3 clients, 2 events, 3 receipts, 2 watermarks | one authority per identity, which is what every call that returns hands out and every call told of a conflict can read; watermarks are nested |
| `research_session` | 2 sessions, 7 pairs of short price histories, 2 as-of days, 3 equities | no look-ahead; a session cites its own rows; a brief is accurate; both feasibility assessments keep to their policy |
| `historical_evidence` | 2 processes, 3 commands of 14, five-day histories of 3 instruments, horizon 2 | reports add up to the stored trades; portfolio capital; membership as of; evidence a session is shown; splits disappear; trades unchanged by any later bar |
| `operator_commands` | every entrypoint, 2 attempts of one command; one runtime and two dependencies; 2 persistence services, 2 writes | exit codes, parts before wholes, ready means open, and (liveness) every started command ends; context variables match the transaction on every exit path; a poisoned scope never commits; all or nothing |
| `workflow_flag` | one command, with the flag `--no-capital-feasibility` | expected violation |
| `receipt_fault` | 2 clients, 2 receipts | expected violation |
| `proposal_notional` | the engine as above | expected violation |

The three expected violations are disagreements of the code with what it says of
itself:

- `workflow_flag` (`EveryCommandEnds`): the branch for `--no-capital-feasibility` in
  `run_daily_research_workflow.py:233` does not advance the index, so a command
  given that flag never ends.
- `receipt_fault` (`LoserReportsWinner`): of two attesters of one event "the loser
  reports the winner's receipt, not a fault"
  (`operator_event_receipt_repository.py:175`). A loser that carries the same receipt
  id violates the primary key as well as the unique index of the event, and where
  PostgreSQL names the primary key its call raises.
- `proposal_notional` (`NotionalWithinCap`): the reported notional can never exceed the
  cap "because it was derived from it" (`trade_proposal.py:772`). It is rounded half
  even to the cent after the cap was applied, so above a cap with more than two
  decimals it may lie by part of a cent. What does hold, that the notional is within
  the cap rounded in the same way, is a part of `ProposalWithinPolicy`.

Two runs explore components that share no state, as a choice of the initial
state: `operator_calculations` (the reports or the engine) and
`operator_commands` (the commands, the runtime or the persistence service). The
ratios of `operator_calculations` lie on both sides of what 2 places can show: one
hundred and twentieth below and above zero, zero itself, one that 2 places show
(1/2), one that needs a third (-7/40) and one that never ends (-1/12).

The bounds. Every conflict in the code is between two transactions, so two
clients meet all of them; receipts have three because a loser, a winner and a
late retry of one identity are three. Five versions take a Campaign to COMPLETED, or
through a suspension and back, and a Run to completion. Two configuration versions
are one switch. Instant 1 with an expiry of 1 is the very instant a proposal
lapses. Three events are opening, reduction and closing, in every order and with
equal timestamps. A proposal is bound by at most three of its limits at once, and
the engine's inputs include for each refusal a value on either side of its
boundary. The longest chain of research commands that build on each other and
can conflict with a third is study, report and query. The price histories have a
breakout that fills and exits by target, stop and time within the horizon, gaps,
and an instrument that joins or leaves the universe inside a window.
Client symmetry is used where the properties do not name clients. Deadlock
checking is off where a bounded system has nothing left to do: versions, inputs,
events, sessions or commands run out.

Fairness. Only `operator_commands` assumes any: weak fairness of the next step
of each process that was started and not killed (`Progress`). A process waits for
nothing but its own requests, each of which the driver answers or fails, so
nothing is asked of other processes, and starting or killing one is not fair.
Everything else is safety. The handlers have no retry loops, and what happens
after an answer is up to the operator.

### Observations

Behaviour that a reader of the code may not expect, met while modelling it. Most
of it is a path of the model, and none of it contradicts a property of a passing
run.

*Aggregates and persistence.*
- A command whose expected version is one ahead is classified UNCHANGED and still
  rewrites the root row, with contents its caller computed from an older one. The
  kind `Guess` of `aggregate_handlers` is such a caller: `ChildRowsOnlyGrow` says of
  it that no child row is lost or changed, and nothing of the root's content;
  `Atomic` and `StoredReconstructs` are about callers that pass what they were told.
- A package read while another handler saves it can mix two versions until it is
  sealed; a Campaign read so is refused as malformed although it is stored well.
- An SQL error caught inside a joined block leaves the transaction aborted and the
  scope ACTIVE: `run_composed` (`postgres.py:382`) returns and nothing is
  committed. A refusal raised outside a joined block and swallowed does not poison
  the scope.

*Decision to approval.*
- A sweep or a crash between the two transactions of decide leaves a lapsed or
  PREPARED proposal with a recorded decision; a retry raises, and no intent follows
  from a lapsed one.
- Engaging the kill switch adds a version; a proposal prepared under an earlier
  version can still be approved under that version.
- Instants come from the commands: a decision may be dated before its proposal.
  An approval may outlive its proposal, which the intent's trigger makes harmless.
- The engine compares the age of quotes but not of account, session or liquidity
  snapshots, and not the symbol of the cost estimate; a stop of 100 percent or a price of a
  few cents makes an otherwise passing evaluation raise `ValueError`; more cash
  does not always buy more; on the day clocks go forward a
  window computed on wall clocks can end after mandatory liquidation.

*Ledger, receipts and reports.*
- The quantity of a CLOSED event is stored once; an assertion dated before it
  makes the stored value disagree with the derived one, which is what reports use.
- Follow-through compares unstripped plan ids for uniqueness and stripped ones for
  citations.

*Research.*
- Scans and studies commit their parts, then the whole: a crash leaves orphans and
  a retry with the same ids fails for good. Import and acquisition commit the
  snapshot before they write its file; a manifest mismatch is found after the raw
  snapshot is stored.
- Masters and universes are stored ON CONFLICT DO NOTHING, so evidence may be
  offered under a symbol that an earlier master gave to another instrument
  (`historical_portfolio_evidence.py:346`, `survivorship_study_repository.py:531`).
  Its compatibility order is F, S, U, while the docstring lists H, W, C, U, S, F.
- A session re-run with its governance id fails at GOVERNANCE_SETUP, and recording
  that failure raises AlreadyExists; so does a duplicate symbol, uncaught, and an
  exception with an empty message. A session that fails at POSITION_SIZING records
  no position plans although decisions may carry plan ids. The most recent prior
  session may be a FAILED one. Derived ids are hashes into 10,000 names.
- `compute_ranking_score` divides by zero when all reference volumes are zero.
- M064 raises for a window with one scoring bar, and the statistical report for no
  executed trades. M067 frees the capital of an exit inside bar t before an entry
  at its open; M068's closed intervals count a position closed at an instant as
  concurrent with one opened then, against its docstring. A member removed from the
  universe trades until its window ends. Ties in discovery go to the first
  governance id.

*Runtime and entrypoints.*
- A service whose own `initialize()` raised is not closed by the cleanup. `close()`
  raising in `finally` replaces the answer of a command that has committed.
- `run_daily_research_session` exits 1 on a FAILED session, the workflow exits 0.
- S3 `list_objects` reads one page; its delete is a head and then a delete.

## Proofs

TLAPS proves the following without bounds on clients, identities, versions,
quantities or instants (the bounds are constants about which only their type is
assumed).

**The repository and the four aggregates** (`AggregateStoreProofs`,
`AggregatesProofs`). `AggregateStoreProofs` is stated for any
kind of aggregate and carries all four. Atomicity rests on `VersionNamesContent`:
commits are numbered one by one, and all rows a handler has read come from the
commit of its root row or a later one. So a handler whose expected version is
still stored has read exactly what is stored, and `save()` writes what one method
call on the stored value gives. From this follow, for Campaign, Run,
EvidencePackage and Review, the refinement of the atomic object
(`AtomicCampaign`, `Atomic`), that what is stored reconstructs
(`CampaignReconstructs`, `StoredReconstructs`) and that finished aggregates are
frozen (`FinishedIsFrozen`). Each business method gets one lemma that says what it makes
of root row and tables, and one that the result meets the reconstruction rules,
which the code states a second time and in another form. Two properties of loads
need more. For `LoadedIsCommitted` of a Campaign, `CommitsContinue`: each
committed history is a prefix of the later ones, so a root row with a longer
history than its own cannot reconstruct. For `SealedLoadIsExact`, `SealedIsLast`:
nothing is committed after SEALED, so rows drawn from that commit or a later one
are its own.

These theorems assume that callers pass only versions they were told (`Ahead = 0`):
with a version one ahead the UNCHANGED branch rewrites the root row, and neither
atomicity nor `VersionNamesContent` holds. `ChildRowsOnlyGrow` is proved without
that assumption, from `VersionNamesTables`: whatever versions callers pass, stored
versions never decrease and two commits of one version have the same child tables.

**Decision to approval** (`DecisionToApprovalProofs`). `IntentAuthorized` is not
inductive, since a handler acts on rows read in earlier transactions. The
invariant adds that stored rows cite stored rows and carry over what was copied
from them (`Cited`), and that what each open handler relies on is still so
(`HandlersFit`), which holds because decisions and intents are never rewritten
and a proposal leaves PREPARED once. `HistoryIsKept` is proved as an action
property from the same invariant, and in turn gives `SweepClearsStale`: all that
another handler can do to a row a sweep is done with is to take it out of the
queue, and before the version lookup every row it is done with has left.

**The trade proposal engine** (`DecisionToApprovalProofs`, second part), for every
policy and market the constructors accept and every number of units in a cent,
assuming that amounts, percentages and times are whole numbers of their units.
Nothing changes after an evaluation, so the invariant only says that the outcome
is the engine's on the configuration and the market of the state. The rest is
arithmetic: `RoundHalfEven` is monotone, indifferent to the denominator a quotient
is written with, and at most half a unit off (`HalfEvenMonotone`,
`HalfEvenScales`, `Nearest`), and whole lots rounded down stay within the budget
(`LotsFitBudget`). So a notional to the cent is at most the cap to the cent, and
two exits more than a cent apart are apart after rounding, but not two that are
one cent apart.

**Persistence service, runtime and commands** (`RuntimeProofs`), assuming only
that `None` is neither a transaction nor a scope. `ContextMatches` is inductive
together with the types; `PoisonedNeverCommits` and `AllOrNothing` follow from it
for each step. For the runtime that starts and closes the service the invariant
of `ReadyMeansOpen` says what is open and what is owed a `close()` in each phase
(`RuntimeInv`). For the commands, what all their programs have in common is proved
of each of them first (`CommandsAreWellFormed`): whatever can refuse comes before
the first write, and the parts of a whole come before it. `ExitTellsTheTruth` and
`WholeHasParts` then follow from an invariant on the place a process is at
(`CommandInv`): before its first write it has written nothing, what the steps
behind it store is stored, and a whole is stored only with its parts.

**Position ledger** (`OperatorPositionLedgerProofs`). `LedgerFolds` follows from
mutual exclusion: whoever is between its read and its commit holds the lock of
its position, so the event it validated still folds with what is stored. What the
fold computes is proved for every finite set of events. Sorted by `_order_key`,
such a set has a last event (`Latest`) and the fold is the step for it applied to
the fold of the rest; a set of events with a property that breaks somewhere has a
smallest subset where it breaks, which gives induction along the order
(`LogInduction`). By it a prefix of a sequence that folds also folds
(`FoldsBefore`), and the state the loop reaches is the one that totals and
opening events say (`DerivesReference`). `ExposureOnlyShrinks` adds one late
event to a sequence that folds before and after: it can only be a reduction or a
closing, because a second opening would not fold.

**Operator reports** (same module). `KnowledgeFirewall` holds because a report
reads the ledger only through the events recorded up to its cutoff. The invariant
of `InOrderReconciles` says that stored events fold (`Kept`) and, as long as all
were asserted in order, that an event ordered after another was not recorded
before it and that a closing carries what was left (`Orderly`). So what is visible
of a position at a cutoff is its beginning, and the exits of a round trip add up
to its opening quantity. `EveryPositionAccounted` needs that references without
incoherence give each plan id to one plan, so that an open position is in one
entry of the audit or among the unlinked, and never in both.

**Research session** (`ResearchSessionProofs`). `SessionCitesItsOwn` and
`BriefIsAccurate` rest on `SessionInv`: a name is given to one row of a table
(`OneEach`), the decisions a session holds in memory fit its scan and cite stored
plans and approved positions of its own (`Under`), so do those of every record
(`Recorded`), and a position plan was sized by the session it names for a plan of
its own (`PositionFits`). `NoLookAhead` adds that the shared evaluation day is
sought among the days up to the as-of, where a data set that goes on to a later
day has the same days (`LaterBarsDoNotMatter`). For `FeasibilityWithinPolicy` the
admission of candidates is a recursion over ranks; the running totals never pass
the policy's limits because no rank can be the first at which they do
(`AdmitIsSound`).

**Historical evidence** (`HistoricalEvidenceProofs`), for any bundles,
membership files, masters and commands. `EvidenceInv` says of everything that is
stored *or yet to be stored* by a command under way that it is sound: a run's
totals are those of its trades and its trades lie within its window; a study's
windows copy the runs of their own start; a survivorship window's run traded
members only; a portfolio or statistical report agrees with the study it was
computed from. Without the second half it would not be inductive, since a report
reads rows that two other commands stored. What lets a row be stored is that its
constraints hold: a study's runs are there already (a foreign key), and runtime
ids come from the number of the start, so a row of an earlier one is never
mistaken for its own. `StoredEvidenceReconciles` needs more: that `InOrder` lists
every element once in the order of its key (`SortedByKey`), and that a sum over
all executed trades is that of the runs' sums (`SumByGroups`), both by an
induction over finite sets. For `FoundEvidenceIsSound` a trade enters on the bar
after its cutoff and leaves within the holding period (`TradeSays`), and the
window's buffer is that long (`WindowTrades`). `MembershipIsAsOf` follows from the
same ranges and from membership being looked up when scoring starts.
`TradesKnowNoFuture` compares a run with the runs of other datasets: on a grid of
whole bars the scan and the plan of a trade read bars up to its cutoff only
(`SameScan`, `PlannedAgain`) and its settlement bars up to its exit (`SameExit`,
`TradeAgain`), so a dataset with every later bar forgotten yields the same trade
(`HindsightFree`). That what a run reads is such a grid is the invariant
`HindsightInv`, about the dataset files and every call still queued: imported and
acquired series are checked for their grid, taking the splits out keeps prices and
volumes whole (`AdjustedFits`), and slices of a bundle keep its days.
`PortfoliosObeyTheirPolicy` compares the portfolio's event loop with what a report
says of itself. The loop is a fold, so its states are those of a sequence of turns
(`SimulationSays`); the keys of the sorted timeline place every opening before its
closing and tell whether another position had opened or left by then
(`TimelineSays`); and after every event the state's books are right
(`BooksStayRight`): cash, reserved risk, realised gain, equity curve and peak are
what the sets of positions held and gone by then amount to. Money is in millionths
of a unit, as the code quantizes it.

**Receipts and watermarks** (`OperatorEventReceiptsProofs`). That watermarks are
nested is extended to the sets captured by transactions that have not committed:
a new set is everything stored, hence above all of these, and receipts are never
deleted. That a conflict's winner can be read, a part of `OneAuthority`, rests on
the same: a call is told of a conflict by a row that stays.

Where a proof needs induction over numbers or finite sets, it takes the least
counterexample, whose existence is `NatLessThanWellFounded` with `WFMin`: the
library's induction theorems take an operator as parameter, and the provers cannot
instantiate one.

Proved and in no run: that versions name contents, that a stored Campaign
reconstructs, and that event identities are unique (`VersionNamesContent`,
`CampaignReconstructs`, `OneEventPerId`), and the type invariants.

The assumptions on constants are those the code's types and constructors make:
`SessionAssumption` (days, ids and amounts are whole numbers, a market is a
sequence of histories within the days of the model, a digest is positive),
`EventsAssumption` (ids, quantities and instants are whole numbers),
`LedgerAssumption` (`NoClient` is no client) and `ReportsAssumption` (prices are
positive and a plan has an id), besides those named above. TLC evaluates them in
the runs of their modules. `EvidenceAssumption` says what the loaders of the files
and the command constructors check: bundles and manifests pass their own
validation, days, ids and the bars of bundles, imported files and answers are whole
numbers of their units, so are a portfolio policy's capital and its limit on
positions, and a command names a bundle and a manifest that are there.

Checked by TLC only:

- `RatioIsExact`: greatest common divisors, powers of ten and digit strings are
  nonlinear arithmetic beyond the SMT backend;
- `SplitsDisappear`, which holds only for histories whose prices divide by the
  split factors, as those of the run do;
- `EveryCommandEnds`, since liveness under fairness is beyond the prover.

## Not modelled

- Averages, ratios, bootstrap intervals and correlations over Decimals of the
  studies: their inputs and counts are modelled, their values are out of reach of
  model checking.
- `decision_to_approval_io.py` and the other `*_io.py` modules, settings, logging
  and redaction: formatting and parsing of JSON and text around modelled handlers.
- Vendor payloads, CSV parsing, network transfers, and reading and listing objects
  of the object store.
- `identifiers` and `contracts` declare types; `acquisition`, `archive`, `audit`,
  `governance`, `normalization`, `registry` and `validation` are empty packages.
- `tools/` and `external-review/`: the repository's own review process, and copies
  of earlier milestones' sources.
- Foreign keys between aggregates: the code promises nothing about the lifecycle
  of a parent.

## Plan

The order is by how much a mistake would cost: what may become an order first,
the stores it rests on next, then the research that leads to it.

1. *Done*: aggregates and repositories, persistence service, decision to approval,
   ledger, receipts and watermarks, with their proofs.
2. *Done*: proposal engine, operator reports, research chain and session, capital
   feasibility, backtest, studies, datasets and evidence, entrypoints and runtime,
   with progress of every command.
3. *Done*: proofs about Run, EvidencePackage and Review, the sweep, the engine's
   arithmetic and the runtime.
4. *Done*: proofs about the commands, the research session, what the position
   fold computes, the operator reports, and the stored evidence.
5. *Done*: proof that a portfolio report obeys its policy, by an induction over
   the events of its timeline.
6. Left: what is listed above as checked by TLC only.
