\* One thread saves two keys, dies and starts again; the clock is finer than a
\* millisecond and may be set.
CONSTANTS
    k1 = k1  k2 = k2  v1 = v1  main = main
    Key = {k1, k2}
    Value = {v1}
    None = None
    TicksPerMs = 2
    Hash <- OneShard
    Thread = {main}
    Main = main
    shard_count = 1
    total_capacity = 2
    Ttl <- Ttls
    Epoch = 4
    MaxTime = 4
    MaxStores = 2
    MaxSaves = 1
    MaxLoads = 0
    MaxCrashes = 1
    MaxJumps = 1
SYMMETRY KeySymmetry
SPECIFICATION Spec
INVARIANTS RestartRestores DeadlinesSurvive NeverMoreThanSaved
