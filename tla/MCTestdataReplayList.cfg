SPECIFICATION FairSpec
CONSTANTS
    w1 = w1
    w2 = w2
    Workers = {w1}
    NPackets = 2
    QueueLimit = 3
    MaxSources = 1
    MaxStarts = 1
    MaxInserts = 4
PROPERTIES
    ShowsPackets
