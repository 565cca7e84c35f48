SPECIFICATION Spec
CONSTANTS
    c1 = c1
    c2 = c2
    p1 = p1
    p2 = p2
    t1 = t1
    t2 = t2
    Client = {c1, c2}
    Proposal = {p1, p2}
    Terms = {t1}
    None = None
    MaxVersion = 2
    MaxInstant = 1
    Expiries = {1}
SYMMETRY Symmetry
INVARIANTS IntentAuthorized DecidedHasDecision IntentTracesToPolicy SweepClearsStale
PROPERTY HistoryIsKept
