\* Two workers and three writes, with and without a snapshot and an interval.
CONSTANTS
    w1 = w1  w2 = w2
    Worker = {w1, w2}
    None = None
    MaxWrites = 3
SPECIFICATION FairSpec
INVARIANTS FinalSnapshotIsCurrent NoThreadOutlivesMain
PROPERTIES StopsWithoutTimeout
