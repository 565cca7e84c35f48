CONSTANTS
    Client = {c1, c2}
    NoRow = NoRow
    MaxVersion = 5
    Ahead = 0
    ScopeStatement = {s1, s2}
SPECIFICATION CampaignSpec
SYMMETRY ClientSymmetry
INVARIANT LoadedIsCommitted
PROPERTY AtomicCampaign
