CONSTANTS
    Client = {c1, c2}
    Position = {p1, p2}
    Instrument = {i1, i2}
    NoClient = NoClient
    EventId = {1, 2, 3}
    MaxQuantity = 2
    MaxInstant = 2
SPECIFICATION Spec
SYMMETRY Symmetry
INVARIANTS LedgerFolds DerivesReference
PROPERTY ExposureOnlyShrinks
