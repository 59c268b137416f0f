\* Flushes and allocations fail while compaction overlaps the flushes.
SPECIFICATION FairSpec
CONSTANTS
    Writers = {w1, w2}
    Readers = {}
    Keys = {k1}
    Deletes = {FALSE}
    Threshold = 1
    Capacity = 1
    L0Trigger = 1
    Faults = {"sst"}
    Nobody = Nobody
    MaxPuts = 3
    MaxCompactions = 1
    MaxFlushing = 1
    CompactAlone = FALSE
INVARIANTS TypeOK NothingVanishes
PROPERTIES PutReturns RetiredSettled
CHECK_DEADLOCK FALSE
