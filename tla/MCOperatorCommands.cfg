SPECIFICATION MCSpec
CONSTANTS
    Attempt = {"first", "second"}
    WorkflowFlag = {"--json", "--as-of", "--risk-percent", "--no-historical-evidence", "--no-portfolio-aware-feasibility", "--unknown"}
    Key = {"report"}
    Client = {"c1", "c2"}
    Service = {"s1", "s2"}
    Write = {"w1", "w2"}
    None = None
INVARIANTS
    ExitTellsTheTruth
    WholeHasParts
    ReadyMeansOpen
    ContextMatches
PROPERTIES
    PoisonedNeverCommits
    AllOrNothing
    EveryCommandEnds
CHECK_DEADLOCK FALSE
