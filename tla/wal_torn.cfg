\* A write that fails half-way, an append that succeeds after it, and a crash.
SPECIFICATION Spec
CONSTANTS
    Threads = {t1, t2}
    MaxAppends = 2
    MaxBatch = 2
    Faults = {"write", "crash"}
    Nobody = Nobody
INVARIANT AckedReplayed
CHECK_DEADLOCK FALSE
