SPECIFICATION FairSpec
CONSTANTS
    t1 = t1  t2 = t2  p1 = p1  p2 = p2  h1 = h1
    api = api  worker = worker
    a1 = a1  a2 = a2  w1 = w1  k1 = k1
    NoKey = NoKey  NoConn = NoConn
    Ticks = {t1}
    Posts = {p1}
    Probes = {h1}
    Procs = {api, worker}
    Conns = {a1, a2, w1}
    ProcOf <- MCProcOf
    PoolOf <- MCPoolOf
    KeyOf <- OneKey
    Configs = {1, 2}
    MaxFaults = 1
CHECK_DEADLOCK FALSE
INVARIANTS
    TypeOK
    MutualExclusion
    OpenRowsAreOwned
PROPERTIES
    ImplementsLedger
    EveryFlowEnds
    AcceptedRunsEnd
