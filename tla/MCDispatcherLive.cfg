SPECIFICATION FairSpec
CONSTANTS
    odd = odd
    bad = bad
    Filters = {odd, bad}
    Broken = {bad}
    NoFilter = NoFilter
    Matching <- MCMatching
    Dissectors = {d1, d2}
    FilterThreads = {f1, f2}
    QueueLimit = 1
    MaxPackets = 2
    MaxDropped = 0
PROPERTIES
    EveryPacketIsPublished
    ServerReturns
    FetchedIsSettled
