CONSTANTS
    Client = {c1, c2}
    NoRow = NoRow
    MaxVersion = 5
    Ahead = 0
    Scope = {s1}
    ManifestId = {m1}
    NoManifestId = NoManifestId
    Criterion = {k1, k2}
    Artifact = {f1}
    Disposition = {accepted, rejected}
    NoDisposition = NoDisposition
    MaxGuessVersion = 3
    MaxObjectVersion = 7
SPECIFICATION Spec
SYMMETRY ClientSymmetry
INVARIANTS StoredReconstructs SealedLoadIsExact
PROPERTIES Atomic ChildRowsOnlyGrow FinishedIsFrozen
CHECK_DEADLOCK FALSE
