\* Two threads and two keys on caches of one entry, where nodes are evicted and
\* reused, and of none, where store has to remove what it has just inserted.
CONSTANTS
    k1 = k1  k2 = k2  v1 = v1  t1 = t1  t2 = t2  n1 = n1  n2 = n2
    Key = {k1, k2}
    Value = {v1}
    None = None
    TicksPerMs = 1
    Thread = {t1, t2}
    Node = {n1, n2}
    Capacities = {0, 1}
    Ttl <- Ttls
    MaxTime = 1
    MaxCalls = 3
SPECIFICATION FairSpec
INVARIANTS NoDanglingAccess StructuresAgree CriticalSectionIsTheOperation
PROPERTIES CallsReturn
