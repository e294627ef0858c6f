\* Two threads making two saves and a load of two keys between them, with a restart
\* in the middle; any call on a file may fail.
CONSTANTS
    k1 = k1  k2 = k2  v1 = v1  main = main  t1 = t1
    Key = {k1, k2}
    Value = {v1}
    None = None
    TicksPerMs = 1
    Hash <- OneShard
    Thread = {main, t1}
    Main = main
    shard_count = 1
    total_capacity = 2
    Ttl = {}
    Epoch = 0
    MaxTime = 0
    MaxStores = 2
    MaxSaves = 2
    MaxLoads = 1
    MaxCrashes = 1
    MaxJumps = 0
SYMMETRY KeySymmetry
SPECIFICATION Spec
INVARIANTS SnapshotIsWhole NoTemporaryLeft
PROPERTIES FailedLoadChangesNothing
