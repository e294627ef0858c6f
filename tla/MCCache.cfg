\* Caches of no, of two and of any number of entries under three keys, with a
\* clock finer than a millisecond: evictions of live and of dead entries, revived
\* keys and every order of uses happen.
CONSTANTS
    k1 = k1  k2 = k2  k3 = k3  v1 = v1  v2 = v2
    Key = {k1, k2, k3}
    Value = {v1, v2}
    None = None
    TicksPerMs = 2
    Capacities = {0, 2, None}
    Ttl <- Ttls
    MaxTime = 3
    MaxUses = 4
SYMMETRY KeyValueSymmetry
SPECIFICATION Spec
INVARIANTS RecencyOrder WithinCapacity Accounting
PROPERTIES EvictsOnlyTheOldest ImplementsTtlStore
