\* Zero shards, more shards than entries, and every remainder of the division.
CONSTANTS
    Key = {}
    Value = {}
    None = None
    TicksPerMs = 1
    Hash <- NoKeys
    ShardCounts <- Counts
    TotalCapacities <- Totals
SPECIFICATION Spec
INVARIANTS SplitIsExact NoEmptyShard
