SPECIFICATION Spec
CONSTANTS
    odd = odd
    bad = bad
    Filters = {odd, bad}
    Broken = {bad}
    NoFilter = NoFilter
    Matching <- MCMatching
    Dissectors = {d1, d2}
    FilterThreads = {f1, f2}
    QueueLimit = 1
    MaxPackets = 4
    MaxDropped = 1
SYMMETRY Symmetry
INVARIANTS
    QueueIsSound
    PipelineOrder
    ReadersSeeFinishedPackets
    FilteredIsExact
    NoMatchHeldBack
PROPERTIES
    ImplementsPacketLog
    PagesAreStable
