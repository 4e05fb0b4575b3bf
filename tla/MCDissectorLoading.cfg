SPECIFICATION FairSpec
CONSTANTS
    mac = mac
    host = host
    flags = flags
    eth = eth
    tcp = tcp
    Workers = {w1, w2}
    Scripts = {eth, tcp}
    Start = Start
    Builtin <- MCBuiltin
    Registered <- MCRegistered
    Uses <- MCUses
    MaxPackets = 3
INVARIANTS
    TypeOK
    NoScriptRejected
    PacketsFullyDissected
PROPERTIES
    EveryWorkerLoads
