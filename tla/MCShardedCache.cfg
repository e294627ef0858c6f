\* Three shards asked for, a total capacity of two: two shards of one entry, the
\* first with two keys.  Every sweep, with and without another clear under way.
CONSTANTS
    k1 = k1  k2 = k2  k3 = k3  v1 = v1  t1 = t1  t2 = t2
    Key = {k1, k2, k3}
    Value = {v1}
    None = None
    TicksPerMs = 1
    Hash <- TwoAndOne
    Thread = {t1, t2}
    Sweeps <- ClearedUnder
    shard_count = 3
    total_capacity = 2
    Ttl <- Ttls
    MaxTime = 1
    MaxStores = 3
SPECIFICATION Spec
INVARIANTS SumsAreBracketed ExportIsFaithful ClearRemovesOlderEntries
PROPERTIES StoresAreKept
