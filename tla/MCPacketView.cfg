SPECIFICATION FairSpec
CONSTANTS
    f1 = f1
    f2 = f2
    Filters = {f1}
    NoFilter = NoFilter
    MaxPackets = 2
    Rows = 1
    MaxGestures = 2
    MaxWire = 2
INVARIANTS
    TypeOK
    RowsAreRight
    AsksFinishedPackets
PROPERTIES
    RowsConverge
