-------------------------- MODULE HistoricalEvidence --------------------------
(***************************************************************************)
(* The commands that build historical evidence, against one database and   *)
(* one directory of dataset files: imports and acquisitions of snapshots,  *)
(* backtests, the three kinds of study, the reports derived from a study,  *)
(* and the discovery of evidence for a session.                            *)
(*                                                                         *)
(* A handler reads what it needs, builds its result purely and then stores *)
(* it in several transactions, one repository call each.  Every row it     *)
(* reads is never changed once stored, so the model reads and builds at    *)
(* the start and keeps the calls that are left in todo.  A process may die *)
(* between two calls; what it stored stays.                                *)
(***************************************************************************)
EXTENDS HistoricalStudies, DatasetSnapshots

CONSTANTS
    Procs,            \* processes of the command line
    MaxStarts,        \* bound: commands started in all
    Commands,         \* the requests made of each process
    Bundles,          \* the bundle files, by name
    Masters,          \* the instrument master files, by name
    Manifests,        \* the membership files, by name
    Frozen,           \* the identifiers of the policy stack every study uses
    MinimumWindows,   \* MINIMUM_M064_WINDOW_COUNT
    StalenessDays,    \* HISTORICAL_EVIDENCE_STALENESS_DAYS
    Queries           \* the sessions that look for evidence

\* An incomplete row has no bar.
ResponseType(response) ==
    /\ IsFiniteSet(DOMAIN response.rows) /\ DOMAIN response.rows \subseteq Nat
    /\ \A k \in DOMAIN response.rows : response.rows[k].complete => response.rows[k].bar \in BarType

\* What is imported, and the splits to take out of it.
ImportType(sent, actions) ==
    /\ IsFiniteSet(sent) /\ IsFiniteSet(actions)
    /\ \A file \in sent : file.symbol \in Nat /\ file.bars \in Seq(BarType)
    /\ \A a \in actions : a.new \in Nat /\ a.old \in Nat

\* Governance ids count from 1; 0 stands for none.
CommandType(c) ==
    /\ c.kind \in {"validation", "robustness", "survivorship"} => c.bundle \in DOMAIN Bundles
    /\ c.kind = "validation" => c.runs \in [1..3 -> Nat \ {0}]
    /\ c.kind = "robustness" => c.base \in Nat
    /\ c.kind = "survivorship" => /\ c.base \in Nat /\ c.stress_base \in Nat
                                 /\ c.manifest \in DOMAIN Manifests
    /\ c.kind = "portfolio" => c.policy.capital \in Int /\ c.policy.concurrent \in Int
    /\ c.kind = "import" => ImportType(c.files, c.actions.actions)
    /\ c.kind = "acquire" => /\ IsFiniteSet(DOMAIN c.responses) /\ DOMAIN c.responses \subseteq Nat
                            /\ \A u \in DOMAIN c.responses : ResponseType(c.responses[u])

ASSUME EvidenceAssumption ==
    /\ MaxStarts \in Nat /\ StalenessDays \in Nat
    /\ \A b \in DOMAIN Bundles : RobustnessDatasetBundle(Bundles[b]) /\ BundleType(Bundles[b])
    /\ \A m \in DOMAIN Manifests : MembershipManifest(Manifests[m])
    /\ \A m \in DOMAIN Manifests : \A r \in Manifests[m].records : r.from \in Nat /\ r.to \in Nat
    /\ \A p \in Procs : \A c \in Commands[p] : CommandType(c)
    /\ \A query \in Queries : query.as_of \in Nat

VARIABLES
    db,        \* the tables
    files,     \* the dataset artifacts, by path
    todo,      \* per process, the repository calls it has left
    started    \* the number of commands started

evidencevars == <<db, files, todo, started>>

Studies == db.validations \cup db.robustness \cup db.survivorship

EvidenceInit ==
    /\ db = [instruments |-> <<>>, universes |-> {}, memberships |-> {}, snapshots |-> {},
             actions |-> {}, runs |-> {}, validations |-> {}, robustness |-> {},
             survivorship |-> {}, portfolios |-> {}, dependences |-> {}, statistics |-> {},
             stresses |-> {}]
    /\ files = <<>>
    /\ todo = [p \in Procs |-> <<>>]
    /\ started = 0

------------------------------------------------------------------------------
(* The tables' constraints *)

Unique(rows, row) == \A r \in rows : r.gov # row.gov /\ r.runtime # row.runtime

CitesRuns(study) ==
    \A k \in DOMAIN study.windows :
        study.windows[k].gov # 0 =>
            /\ \E r \in db.runs : r.gov = study.windows[k].gov
            /\ \E r \in db.runs : r.runtime = study.windows[k].runtime

historical_backtest_run(row) == Unique(db.runs, row)
validation_study(row)        == Unique(db.validations, row) /\ CitesRuns(row)
robustness_study(row)        == Unique(db.robustness, row) /\ CitesRuns(row)

survivorship_study(row) ==
    /\ Unique(db.survivorship, row)
    /\ CitesRuns(row)
    /\ row.universe \in db.universes
    /\ \E r \in db.robustness : r.gov = row.stress

portfolio_study(row) ==
    Unique(db.portfolios, row) /\ \E s \in db.survivorship : s.runtime = row.study

portfolio_dependence_report(row) ==
    Unique(db.dependences, row) /\ \E r \in db.portfolios : r.runtime = row.portfolio

statistical_evidence_report(row) ==
    Unique(db.statistics, row) /\ \E s \in db.survivorship : s.runtime = row.study

dataset_snapshot(row) ==
    ~\E s \in db.snapshots : s.dataset = row.dataset /\ s.version = row.version

corporate_action(manifest) ==
    /\ \E s \in db.snapshots : s.dataset = manifest.dataset /\ s.version = manifest.version
    /\ \A a \in manifest.actions :
          ~\E b \in db.actions : /\ b.dataset = manifest.dataset /\ b.version = manifest.version
                                 /\ b.instrument = a.instrument /\ b.day = a.day /\ b.type = a.type

corporate_action_semantics_stress(row) == Unique(db.stresses, row)

\* An instrument already known by its id is passed over; a new id may not take
\* a symbol that is taken.
NewInstruments(master)    == DOMAIN master \ DOMAIN db.instruments
instrument_master(master) ==
    \A i \in NewInstruments(master) : ~\E j \in DOMAIN db.instruments : db.instruments[j] = master[i]

membership_record(manifest) ==
    /\ manifest.universe \in db.universes
    /\ \A r \in manifest.records : r.instrument \in DOMAIN db.instruments

------------------------------------------------------------------------------
(* The repository calls: one transaction each.  A violated constraint raises *)
(* out of the handler.                                                       *)

Call(into, row) == [into |-> into, row |-> row]

Next1(p, into) == todo[p] # <<>> /\ Head(todo[p]).into = into
RowOf(p)       == Head(todo[p]).row
Goes(p, ok)    == todo' = [todo EXCEPT ![p] = IF ok THEN Tail(@) ELSE <<>>]

AddRow(p, table, Fits(_)) ==
    /\ Next1(p, table)
    /\ Goes(p, Fits(RowOf(p)))
    /\ db' = IF Fits(RowOf(p)) THEN [db EXCEPT ![table] = @ \cup {RowOf(p)}] ELSE db
    /\ UNCHANGED <<files, started>>

AddBacktestRun(p)       == AddRow(p, "runs", historical_backtest_run)
AddValidationStudy(p)   == AddRow(p, "validations", validation_study)
AddRobustnessStudy(p)   == AddRow(p, "robustness", robustness_study)
AddSurvivorshipStudy(p) == AddRow(p, "survivorship", survivorship_study)
AddPortfolioReport(p)   == AddRow(p, "portfolios", portfolio_study)
AddDependenceReport(p)  == AddRow(p, "dependences", portfolio_dependence_report)
AddStatistics(p)        == AddRow(p, "statistics", statistical_evidence_report)
AddSnapshot(p)          == AddRow(p, "snapshots", dataset_snapshot)
AddStress(p)            == AddRow(p, "stresses", corporate_action_semantics_stress)

ActionRows(manifest) ==
    {a @@ [dataset |-> manifest.dataset, version |-> manifest.version] : a \in manifest.actions}

AddCorporateActions(p) ==
    /\ Next1(p, "actions")
    /\ Goes(p, corporate_action(RowOf(p)))
    /\ db' = IF corporate_action(RowOf(p)) THEN [db EXCEPT !.actions = @ \cup ActionRows(RowOf(p))] ELSE db
    /\ UNCHANGED <<files, started>>

Instruments(master) ==
    [i \in DOMAIN db.instruments \cup DOMAIN master |->
        IF i \in DOMAIN db.instruments THEN db.instruments[i] ELSE master[i]]

\* add_all()
AddInstruments(p) ==
    /\ Next1(p, "instruments")
    /\ Goes(p, instrument_master(RowOf(p)))
    /\ db' = IF instrument_master(RowOf(p)) THEN [db EXCEPT !.instruments = Instruments(RowOf(p))] ELSE db
    /\ UNCHANGED <<files, started>>

AddUniverse(p) ==
    /\ Next1(p, "universes")
    /\ Goes(p, TRUE)
    /\ db' = [db EXCEPT !.universes = @ \cup {RowOf(p)}]
    /\ UNCHANGED <<files, started>>

\* A record already stored for the instrument and start is passed over.
NewMemberships(manifest) ==
    LET known(r) == \E m \in db.memberships : /\ m.universe = manifest.universe
                                              /\ m.instrument = r.instrument /\ m.from = r.from
    IN  {r @@ [universe |-> manifest.universe] : r \in {q \in manifest.records : ~known(q)}}

AddMembership(p) ==
    /\ Next1(p, "memberships")
    /\ Goes(p, membership_record(RowOf(p)))
    /\ db' = IF membership_record(RowOf(p))
             THEN [db EXCEPT !.memberships = @ \cup NewMemberships(RowOf(p))] ELSE db
    /\ UNCHANGED <<files, started>>

\* write_dataset_artifact(): the file is written over.
WriteArtifact(p) ==
    /\ Next1(p, "file")
    /\ files' = [f \in DOMAIN files \cup {RowOf(p).path} |->
                    IF f = RowOf(p).path THEN RowOf(p).artifact ELSE files[f]]
    /\ Goes(p, TRUE)
    /\ UNCHANGED <<db, started>>

\* A check the handler makes between two calls, and fails.
Raise(p) ==
    /\ Next1(p, "raise")
    /\ Goes(p, FALSE)
    /\ UNCHANGED <<db, files, started>>

Crash(p) ==
    /\ todo[p] # <<>>
    /\ todo' = [todo EXCEPT ![p] = <<>>]
    /\ UNCHANGED <<db, files, started>>

------------------------------------------------------------------------------
(* Starting a command.  A builder that raises leaves nothing behind, so only *)
(* the requests that build are started.  Runtime ids are fresh: the number   *)
(* of the start and a place in it.                                           *)

Ready(p) == todo[p] = <<>> /\ started < MaxStarts

Begin(p, calls) ==
    /\ started' = started + 1
    /\ todo' = [todo EXCEPT ![p] = calls]
    /\ UNCHANGED <<db, files>>

Identity(gov, place) == [gov |-> gov, runtime |-> <<started + 1, place>>]

\* The places of the windows that have a run.
Cited(rows) == InOrder([k \in {j \in DOMAIN rows : rows[j].gov # 0} |-> <<k>>])

CallsFor(runs) == [i \in DOMAIN Cited(runs) |-> Call("runs", runs[Cited(runs)[i]])]

ArtifactRun(gov, place, artifact) ==
    build_historical_backtest_run(Identity(gov, place), artifact.series, artifact)

RunHistoricalBacktest(p, c) ==
    /\ Ready(p)
    /\ c.kind = "backtest"
    /\ c.path \in DOMAIN files
    /\ Runnable(files[c.path].series)
    /\ Begin(p, <<Call("runs", ArtifactRun(c.gov, 1, files[c.path]))>>)

\* The identity of a study names its bundle too.
StudyIdentity(gov, place, bundle) ==
    [gov |-> gov, runtime |-> <<started + 1, place>>, bundle |-> bundle]

\* Which bars of a bundle a run saw.
Of(bundle, range, symbols) == [bundle |-> bundle, range |-> range, symbols |-> symbols]

RunHistoricalValidationStudy(p, c) ==
    /\ Ready(p)
    /\ c.kind = "validation"
    /\ LET bundle == Bundles[c.bundle]
           range == _segment_bar_ranges(bundle)
           run(k) == build_historical_backtest_run(Identity(c.runs[k], k), _segment_dataset(bundle, k),
                                                   Of(c.bundle, range[k], DOMAIN bundle.series))
           runs == [k \in DOMAIN bundle.specs |-> run(k)]
           study == build_validation_study(StudyIdentity(c.gov, 0, c.bundle), bundle, runs)
       IN  /\ _validate_bundle_segments(bundle)
           /\ \A k \in DOMAIN bundle.specs : Runnable(_segment_dataset(bundle, k))
           /\ Begin(p, Append(CallsFor(runs), Call("validations", study)))

\* Run k of a robustness study is numbered base + sequence_index + 1.
RobustnessRuns(c, base, place) ==
    LET bundle == Bundles[c.bundle]
        range == _window_bar_ranges(bundle)
    IN  [k \in DOMAIN bundle.specs |->
            build_historical_backtest_run(Identity(base + k, place + k), _window_dataset(bundle, k),
                                          Of(c.bundle, range[k], DOMAIN bundle.series))]

RunHistoricalRobustnessStudy(p, c) ==
    /\ Ready(p)
    /\ c.kind = "robustness"
    /\ LET bundle == Bundles[c.bundle]
           runs == RobustnessRuns(c, c.base, 0)
           study == build_robustness_study(StudyIdentity(c.gov, 0, c.bundle), bundle, runs)
       IN  /\ _validate_bundle_windows(bundle)
           /\ \A k \in DOMAIN bundle.specs : Runnable(_window_dataset(bundle, k))
           /\ Begin(p, Append(CallsFor(runs), Call("robustness", study)))

\* Two families of runs, each numbered from a base of its own.
SurvivorshipRuns(c) ==
    LET bundle == Bundles[c.bundle]
        range == _window_bar_ranges(bundle)
        dataset(k) == SurvivorshipDataset(bundle, Masters[c.master], Manifests[c.manifest], k)
    IN  [k \in DOMAIN bundle.specs |->
            IF DOMAIN dataset(k) = {} THEN NoRun
            ELSE build_historical_backtest_run(Identity(c.base + k, k), dataset(k),
                                               Of(c.bundle, range[k], DOMAIN dataset(k)))]

\* The names of the master and the manifest are kept for the properties; the
\* code keeps a digest of the manifest only.
RunSurvivorshipAwareRobustnessStudy(p, c) ==
    /\ Ready(p)
    /\ c.kind = "survivorship"
    /\ LET bundle == Bundles[c.bundle]
           master == Masters[c.master]
           manifest == Manifests[c.manifest]
           places == Len(bundle.specs)
           runs == SurvivorshipRuns(c)
           stressed == RobustnessRuns(c, c.stress_base, places)
           stress == build_robustness_study(StudyIdentity(c.stress, 2 * places + 1, c.bundle), bundle, stressed)
           identity == [gov |-> c.gov, runtime |-> <<started + 1, 0>>, bundle |-> c.bundle,
                        universe |-> manifest.universe, stress |-> c.stress, policy |-> Frozen,
                        master |-> c.master, manifest |-> c.manifest]
           study == build_survivorship_aware_robustness_study(identity, bundle, master, manifest, runs)
       IN  /\ SurvivorshipBuildable(bundle, master, manifest)
           /\ Begin(p, <<Call("instruments", master), Call("universes", manifest.universe),
                         Call("memberships", manifest)>>
                       \o CallsFor(runs) \o CallsFor(stressed)
                       \o <<Call("robustness", stress), Call("survivorship", study)>>)

\* get(): a run by both of its ids.
GetRun(gov, runtime) == CHOOSE r \in db.runs : r.gov = gov /\ r.runtime = runtime

\* get(): the study, or the report, that a command names.
NamedStudies == db.survivorship
NamedReports == db.portfolios

WindowRuns(study) ==
    [i \in DOMAIN Cited(study.windows) |->
        LET window == study.windows[Cited(study.windows)[i]] IN GetRun(window.gov, window.runtime)]

RunPortfolioHistoricalEvidence(p, c) ==
    /\ Ready(p)
    /\ c.kind = "portfolio"
    /\ PortfolioCapitalPolicy(c.policy)
    /\ \E study \in NamedStudies :
          Begin(p, <<Call("portfolios", build_portfolio_evidence_report(Identity(c.gov, 0), study,
                                                                        WindowRuns(study), c.policy))>>)

\* The bundle file must be the one the portfolio was computed from.
RunPortfolioDependenceEvidence(p, c) ==
    /\ Ready(p)
    /\ c.kind = "dependence"
    /\ \E report \in NamedReports :
          /\ report.bundle = c.bundle
          /\ Begin(p, <<Call("dependences", build_portfolio_dependence_report(Identity(c.gov, 0), report,
                                                                              Bundles[c.bundle].series))>>)

\* Resampling raises on a study without a trade.
RunStatisticalEvidenceAnalysis(p, c) ==
    /\ Ready(p)
    /\ c.kind = "statistics"
    /\ \E study \in NamedStudies :
          /\ study.executed > 0
          /\ \E excludes_zero \in BootstrapAnswers(AllTrades(WindowRuns(study))) :
                Begin(p, <<Call("statistics", build_statistical_evidence_report(Identity(c.gov, 0), study,
                                                                    WindowRuns(study), excludes_zero))>>)

SnapshotOf(dataset, version) ==
    {s \in db.snapshots : s.dataset = dataset /\ s.version = version}

MatchesSnapshot(artifact, snapshot) == artifact = snapshot.sha

RunCorporateActionSemanticsStress(p, c) ==
    /\ Ready(p)
    /\ c.kind = "stress"
    /\ {c.correct_path, c.naive_path} \subseteq DOMAIN files
    /\ \E correct \in SnapshotOf(c.dataset, c.correct), naive \in SnapshotOf(c.dataset, c.naive) :
          LET first == ArtifactRun(c.runs[1], 1, files[c.correct_path])
              second == ArtifactRun(c.runs[2], 2, files[c.naive_path])
          IN  /\ MatchesSnapshot(files[c.correct_path], correct)
              /\ MatchesSnapshot(files[c.naive_path], naive)
              /\ files[c.correct_path].version # files[c.naive_path].version
              /\ Runnable(files[c.correct_path].series) /\ Runnable(files[c.naive_path].series)
              /\ Begin(p, <<Call("runs", first), Call("runs", second),
                            Call("stresses", build_corporate_action_semantics_stress(Identity(c.gov, 0), first, second))>>)

ImportCalls(raw, master, path) ==
    <<Call("instruments", master), Call("snapshots", raw), Call("file", [path |-> path, artifact |-> raw.sha])>>

\* The manifest is looked at only once the raw snapshot is stored and written.
AdjustmentCalls(c, raw, master) ==
    LET manifest == c.actions
        adjusted == derive_split_adjusted_snapshot(raw, c.adjusted, manifest, master)
    IN  IF manifest.dataset # c.dataset \/ manifest.version # c.version \/ ~Derivable(raw, manifest, master)
        THEN <<Call("raise", 0)>>
        ELSE <<Call("actions", manifest), Call("snapshots", adjusted),
               Call("file", [path |-> c.adjusted_path, artifact |-> adjusted.sha])>>

ImportHistoricalDatasetSnapshot(p, c) ==
    /\ Ready(p)
    /\ c.kind = "import"
    /\ Importable(c.files, Masters[c.master])
    /\ CorporateActionManifest(c.actions)
    /\ LET raw == import_raw_historical_dataset_snapshot(c.dataset, c.version, c.files)
       IN  Begin(p, ImportCalls(raw, Masters[c.master], c.path) \o AdjustmentCalls(c, raw, Masters[c.master]))

\* One response per symbol; an error in any of them ends the command.
AcquireMarketDataSnapshot(p, c) ==
    /\ Ready(p)
    /\ c.kind = "acquire"
    /\ LET master == build_trivial_instrument_master(DOMAIN c.responses)
           sent == {[symbol |-> u, bars |-> translate_yahoo_chart_json_to_pipeline_csv(c.responses[u].rows)] :
                       u \in DOMAIN c.responses}
       IN  /\ \A u \in DOMAIN c.responses : Fetched(c.responses[u])
           /\ Importable(sent, master)
           /\ Begin(p, ImportCalls(import_raw_historical_dataset_snapshot(c.dataset, c.version, sent), master, c.path))

------------------------------------------------------------------------------
(* Discovery: the evidence a session's brief may show.  It reads the tables  *)
(* and changes nothing.                                                      *)

\* Ids the stored instrument master does not know are dropped.
_resolve_symbols(ids) == {db.instruments[i] : i \in ids \cap DOMAIN db.instruments}

list_survivorship_candidates == db.survivorship

\* The first by governance id, if there is one.
find_portfolio_report_for(study) ==
    LET reports == {r \in db.portfolios : r.study = study.runtime}
    IN  {r \in reports : \A q \in reports : r.gov <= q.gov}

coverage_end(study) == Max({study.windows[k].end : k \in DOMAIN study.windows})

\* Mutant: evidence from after the session is not told from other evidence.
StatusWithoutFuture(study, query) ==
    IF query.as_of - coverage_end(study) > StalenessDays THEN "STALE" ELSE "COMPATIBLE"

\* Future evidence has a status of its own, looked at before staleness.
StatusAt(study, query) ==
    IF coverage_end(study) > query.as_of THEN "FUTURE_EVIDENCE"
    ELSE IF query.as_of - coverage_end(study) > StalenessDays THEN "STALE"
    ELSE "COMPATIBLE"

\* A requested symbol was evaluated in some window (U1), and one window was
\* allowed to consider them all (U2).
UniverseFits(study, requested) ==
    /\ requested # {}
    /\ requested \subseteq UNION {_resolve_symbols(study.windows[k].evaluated) : k \in DOMAIN study.windows}
    /\ \E k \in DOMAIN study.windows : requested \subseteq _resolve_symbols(study.windows[k].eligible)

_evaluate_compatibility(study, query) ==
    LET mismatch == \E part \in DOMAIN query.policy :
                        query.policy[part] # "None" /\ query.policy[part] # study.policy[part]
    IN  IF \/ mismatch
           \/ Len(study.windows) < MinimumWindows
           \/ study.classification # "SURVIVORSHIP_AWARE_MEMBERSHIP_MECHANICS_PROVEN"
        THEN "INCOMPATIBLE"
        ELSE IF StatusAt(study, query) = "COMPATIBLE" /\ ~UniverseFits(study, query.requested)
        THEN "INCOMPATIBLE"
        ELSE StatusAt(study, query)

_build_summary(study, query) ==
    [study |-> study, status |-> _evaluate_compatibility(study, query), report |-> find_portfolio_report_for(study)]

\* The summary selected is the compatible one of the latest coverage.  Runtime
\* ids, which break ties, are random: any of the latest may be the first.
find_compatible_historical_evidence(query) ==
    LET summaries == {_build_summary(s, query) : s \in list_survivorship_candidates}
        compatible == {e \in summaries : e.status = "COMPATIBLE"}
    IN  {e \in compatible : \A f \in compatible : coverage_end(f.study) <= coverage_end(e.study)}

------------------------------------------------------------------------------

EvidenceNext ==
    \E p \in Procs :
        \/ AddBacktestRun(p)
        \/ AddValidationStudy(p)
        \/ AddRobustnessStudy(p)
        \/ AddSurvivorshipStudy(p)
        \/ AddPortfolioReport(p)
        \/ AddDependenceReport(p)
        \/ AddStatistics(p)
        \/ AddSnapshot(p)
        \/ AddStress(p)
        \/ AddCorporateActions(p)
        \/ AddInstruments(p)
        \/ AddUniverse(p)
        \/ AddMembership(p)
        \/ WriteArtifact(p)
        \/ Raise(p)
        \/ Crash(p)
        \/ \E c \in Commands[p] :
              \/ RunHistoricalBacktest(p, c)
              \/ RunHistoricalValidationStudy(p, c)
              \/ RunHistoricalRobustnessStudy(p, c)
              \/ RunSurvivorshipAwareRobustnessStudy(p, c)
              \/ RunPortfolioHistoricalEvidence(p, c)
              \/ RunPortfolioDependenceEvidence(p, c)
              \/ RunStatisticalEvidenceAnalysis(p, c)
              \/ RunCorporateActionSemanticsStress(p, c)
              \/ ImportHistoricalDatasetSnapshot(p, c)
              \/ AcquireMarketDataSnapshot(p, c)

EvidenceSpec == EvidenceInit /\ [][EvidenceNext]_evidencevars

------------------------------------------------------------------------------
(* Properties *)

DatasetOf(run) ==
    IF "bundle" \in DOMAIN run.of THEN Slice(Bundles[run.of.bundle], run.of.range, run.of.symbols)
    ELSE run.of.series

\* No trade of a run is planned with a bar after its cutoff, nor settled with a
\* bar after its exit: had every later bar been different, it would have been
\* the same trade.  Checked of every run a command is about to store.
TradesAreFreeOfHindsight ==
    [][\A p \in Procs : todo[p] = <<>> =>
          \A i \in {j \in DOMAIN todo'[p] : todo'[p][j].into = "runs"} :
             FreeOfHindsight(DatasetOf(todo'[p][i].row), todo'[p][i].row.trades)]_evidencevars

WindowRunOf(study, k) == {r \in db.runs : r.runtime = study.windows[k].runtime}

\* The results a study and its reports show are those of the trades stored for
\* them: a window's are its run's, a portfolio report decides on exactly the
\* executed trades of each window of its study, and a statistical report counts
\* each of them once.  Crashes, retries and windows without a run included.
EvidenceReconciles ==
    /\ \A s \in Studies : \A k \in DOMAIN s.windows :
          IF s.windows[k].gov = 0 THEN s.windows[k].net = 0 /\ s.windows[k].executed = 0
          ELSE \E r \in WindowRunOf(s, k) :
                  /\ r.gov = s.windows[k].gov
                  /\ s.windows[k].net = NetOf(r.trades)
                  /\ s.windows[k].executed = Cardinality(Executed(r.trades))
    /\ \A report \in db.portfolios, s \in db.survivorship : report.study = s.runtime =>
          \A k \in DOMAIN s.windows : \A r \in WindowRunOf(s, k) :
             {d.trade : d \in {e \in Range(report.decisions) : e.window = s.windows[k].gov}}
               = {r.trades[i] : i \in Executed(r.trades)}
    /\ \A report \in db.portfolios, s \in db.survivorship : report.study = s.runtime =>
          Len(report.decisions) = s.executed
    /\ \A report \in db.statistics, s \in db.survivorship : report.study = s.runtime =>
          report.net = _quantize(s.net) /\ report.trades = s.executed

\* The allocated positions still open when decision i is taken: opened ahead of
\* it and closed at no earlier instant.  A position that closes in the bar it
\* opened in closes after the others of that instant have opened.
OpensAhead(report, j, i) ==
    LET key(k) == LET d == report.decisions[k]
                  IN  <<d.trade.entry, d.trade.rank, d.trade.symbol, d.sequence, k>>
    IN  Precedes(key(j), key(i))

ClosedBy(trade, instant) ==
    trade.exit < instant \/ (trade.exit = instant /\ trade.entry < instant)

Earlier(report, i) ==
    {j \in DOMAIN report.decisions : report.decisions[j].decision = "ALLOCATED" /\ OpensAhead(report, j, i)}

HeldAt(report, i) ==
    {j \in Earlier(report, i) : ~ClosedBy(report.decisions[j].trade, report.decisions[i].trade.entry)}

RiskOf(report, S) == SumFunction([j \in S |-> report.decisions[j].trade.risk])
GainOf(report, S) == SumFunction([j \in S |-> report.decisions[j].trade.net])

CashAt(report, i) ==
    report.policy.capital - Million * RiskOf(report, HeldAt(report, i))
      + GainOf(report, Earlier(report, i) \ HeldAt(report, i))

\* A portfolio report obeys its capital policy at every instant, and refuses a
\* trade only for a limit it would really have passed: it never spends capital
\* that open positions hold, never opens more than it may at once, and the
\* capital it ends with is what it started with and made.
PortfolioWithinPolicy ==
    \A report \in db.portfolios :
        LET policy == report.policy
            all == {i \in DOMAIN report.decisions : report.decisions[i].decision = "ALLOCATED"}
            affordable(i) == CashAt(report, i) >= Million * report.decisions[i].trade.risk
            room(i) == Cardinality(HeldAt(report, i)) < policy.concurrent
            excessive(i) == Million * (RiskOf(report, HeldAt(report, i)) + report.decisions[i].trade.risk)
                              > UtilizationLimit(policy)
        IN  /\ \A i \in DOMAIN report.decisions :
                  report.decisions[i].decision
                    = IF ~affordable(i) THEN "INSUFFICIENT_AVAILABLE_CAPITAL"
                      ELSE IF ~room(i) THEN "MAX_CONCURRENT_POSITIONS"
                      ELSE IF excessive(i) THEN "MAX_CAPITAL_UTILIZATION_EXCEEDED"
                      ELSE "ALLOCATED"
            /\ report.ending = policy.capital + GainOf(report, all)
            /\ report.peak <= policy.concurrent

\* A survivorship-aware study trades only instruments that had joined the
\* universe by the trade's cutoff and had not left it when the window's scoring
\* began.
MembershipAsOf ==
    \A s \in db.survivorship : \A k \in DOMAIN s.windows : \A run \in WindowRunOf(s, k) :
        \A i \in DOMAIN run.trades :
            \E r \in Manifests[s.manifest].records :
                /\ r.status = "ACTIVE"
                /\ Masters[s.master][r.instrument] = run.trades[i].symbol
                /\ r.from <= run.trades[i].cutoff
                /\ s.windows[k].start < r.to

EvaluatedSymbols(study) ==
    UNION {UNION {r.of.symbols : r \in WindowRunOf(study, k)} : k \in DOMAIN study.windows}

\* The evidence a session is shown ended before the session and not too long
\* before, none of its trades was still open then, the portfolio report beside
\* it was computed from it, and its runs did trade on the bars of every symbol
\* asked for, as long as the stored instrument master names the instruments as
\* the study's own did.
EvidenceIsSound ==
    \A query \in Queries : \A e \in find_compatible_historical_evidence(query) :
        /\ \A k \in DOMAIN e.study.windows : \A run \in WindowRunOf(e.study, k) :
              \A i \in DOMAIN run.trades : run.trades[i].exit <= query.as_of
        /\ \E k \in DOMAIN e.study.windows : query.as_of - e.study.windows[k].end \in 0..StalenessDays
        /\ \A report \in e.report : \A d \in Range(report.decisions) :
                 \E k \in DOMAIN e.study.windows : \E run \in WindowRunOf(e.study, k) :
                    \E i \in DOMAIN run.trades : run.trades[i] = d.trade
        /\ (\A i \in DOMAIN Masters[e.study.master] : db.instruments[i] = Masters[e.study.master][i])
              => query.requested \subseteq EvaluatedSymbols(e.study)

\* From one bar of a split-adjusted snapshot to the next, a holder makes what
\* the raw bars and the splits between them say, and the last bar is the raw
\* one; the actions stored with the raw snapshot are those it was derived with.
SplitsDisappear ==
    \A adjusted \in {s \in db.snapshots : s.semantics = "SPLIT_ADJUSTED"} :
        \E raw \in {s \in db.snapshots : s.semantics = "RAW_UNADJUSTED" /\ s.dataset = adjusted.dataset} :
            /\ {[instrument |-> a.instrument, day |-> a.day, new |-> a.new, old |-> a.old, type |-> a.type] :
                   a \in {b \in db.actions : b.dataset = raw.dataset /\ b.version = raw.version}}
                 = adjusted.manifest
            /\ \A u \in DOMAIN raw.sha.series :
                  LET before == raw.sha.series[u]
                      after == adjusted.sha.series[u]
                      between(i) == {a \in adjusted.manifest :
                                        /\ db.instruments[a.instrument] = u
                                        /\ before[i - 1].day < a.day /\ a.day <= before[i].day}
                  IN  /\ Last(after) = Last(before)
                      /\ \A i \in 2..Len(before) :
                            after[i].close * before[i - 1].close * ProductOf([a \in between(i) |-> a.old])
                              = before[i].close * after[i - 1].close * ProductOf([a \in between(i) |-> a.new])

==============================================================================
