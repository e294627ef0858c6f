\* The system clock is set back between the save and the restart.
CONSTANTS
    k1 = k1  v1 = v1  main = main
    Key = {k1}
    Value = {v1}
    None = None
    TicksPerMs = 2
    Hash <- OneShard
    Thread = {main}
    Main = main
    shard_count = 1
    total_capacity = 2
    Ttl <- Ttls
    Epoch = 4
    MaxTime = 6
    MaxStores = 1
    MaxSaves = 1
    MaxLoads = 0
    MaxCrashes = 1
    MaxJumps = 1
SPECIFICATION Spec
INVARIANTS NeverResurrects
