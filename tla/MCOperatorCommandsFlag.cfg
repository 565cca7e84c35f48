SPECIFICATION MCSpec
CONSTANTS
    Attempt = {"first"}
    WorkflowFlag = {"--no-capital-feasibility"}
    Key = {"report"}
    Client = {"c1"}
    Service = {"s1"}
    Write = {"w1"}
    None = None
PROPERTY EveryCommandEnds
CHECK_DEADLOCK FALSE
