SPECIFICATION ScriptsSpec
CONSTANTS
    a = a
    b = b
    c = c
    Names = {a, b, c}
    MaxDepth = 4
    k1 = k1
    k2 = k2
    k3 = k3
    Keys = {k1, k2, k3}
    FreeKeys = {k1, k2}
    MaxLayers = 4
    MaxScripts = 2
    s1 = s1
    l1 = l1
    l2 = l2
    Ids = {s1}
    VisitLayers = {l1, l2}
    NumNamespaces = 2
    MaxPackets = 2
    MaxItems = 3
INVARIANTS
    LoadingIsSound
    WalkIsSound
    VisitIsSound
PROPERTIES
    InstanceIffResolvable
    EngineReturns
