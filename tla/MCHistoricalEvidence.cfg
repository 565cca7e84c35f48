SPECIFICATION EvidenceSpec
CONSTANTS
    ReferenceWindow = 1
    MaxConcurrent = 2
    Utilization = 50
    Horizon = 2
    AccountEquity = 40000
    RiskPercent = 200
    MinimumSample = 1
    TradeThresholds <- MCTradeThresholds
    WindowThresholds <- MCWindowThresholds
    Lookback = 3
    MinimumOverlap = 2
    Procs = {1, 2}
    MaxStarts = 3
    Commands <- MCCommands
    Bundles <- MCBundles
    Masters <- MCMasters
    Manifests <- MCManifests
    Frozen <- MCFrozen
    MinimumWindows = 2
    StalenessDays = 6
    Queries <- MCQueries
INVARIANTS
    EvidenceReconciles
    PortfolioWithinPolicy
    MembershipAsOf
    EvidenceIsSound
    SplitsDisappear
PROPERTY TradesAreFreeOfHindsight
CHECK_DEADLOCK FALSE
