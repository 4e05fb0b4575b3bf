SPECIFICATION FairSpec
CONSTANTS
    f1 = f1
    f2 = f2
    Filters = {f1, f2}
    NoFilter = NoFilter
    MaxPackets = 2
    Rows = 1
    MaxGestures = 1
    MaxWire = 1
PROPERTIES
    ShowsPackets
