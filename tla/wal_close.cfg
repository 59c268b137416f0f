\* Writes and fsyncs that fail, and a close at any point.
SPECIFICATION FairSpec
CONSTANTS
    Threads = {t1, t2, t3}
    MaxAppends = 3
    MaxBatch = 2
    Faults = {"write", "fsync", "close"}
    Nobody = Nobody
INVARIANT NoRequestLost
PROPERTY AppendReturns
CHECK_DEADLOCK FALSE
