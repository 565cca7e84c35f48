CONSTANTS
    Client = {c1, c2}
    EventId = {e1, e2}
    ReceiptId = {r1, r2}
    WatermarkId = {w1, w2}
    Instant = {t1, t2}
SPECIFICATION Spec
SYMMETRY Symmetry
PROPERTY LoserReportsWinner
