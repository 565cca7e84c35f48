SPECIFICATION Spec
CONSTANTS
    ReferenceWindow = 2
    MaxConcurrent = 2
    Utilization = 50
    Session = {1, 2}
    Markets <- MCMarkets
    LastDay = 4
    Digests <- MCDigests
    AsOf = {3, 4}
    Equity = {100, 2000, 5000}
    Risk = 100
INVARIANTS
    NoLookAhead
    SessionCitesItsOwn
    BriefIsAccurate
    FeasibilityWithinPolicy
CHECK_DEADLOCK FALSE
