SPECIFICATION FairSpec
CONSTANTS
    odd = odd
    bad = bad
    Filters = {odd, bad}
    Broken = {bad}
    NoFilter = NoFilter
    Matching <- MCMatching
    Dissectors = {d1}
    FilterThreads = {f1}
    QueueLimit = 1
    MaxPackets = 2
    MaxDropped = 0
PROPERTIES
    FilterCatchesUp
