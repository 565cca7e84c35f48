SPECIFICATION MCSpec
CONSTANTS
    Position = {A, B}
    Instrument = {"I1", "I2"}
    Plan = {"P1"}
    None = None
    EventId = {1, 2, 3}
    MaxEvents = 3
    MaxQuantity = 2
    MaxInstant = 1
    EntryPrice = {120}
    ExitPrice = {99, 119, 121, 180}
    Places = 2
    SessionPlans <- MCSessionPlans
    Absent = Absent
    Cent = 4
    Configurations <- MCConfigurations
    Markets <- MCMarkets
    Amendments <- MCAmendments
    Observations <- MCObservations
    MaxChanges = 3
    JumpAt = 17
SYMMETRY Symmetry
INVARIANTS
    InOrderReconciles
    RatioIsExact
    EveryPositionAccounted
    ProposalWithinPolicy
    AnswersWhenExitsFit
PROPERTY KnowledgeFirewall
CHECK_DEADLOCK FALSE
