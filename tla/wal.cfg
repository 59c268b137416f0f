\* Three appending threads, batches of at most two, writes that fail half-way
\* and a crash at any point.
SPECIFICATION Spec
CONSTANTS
    Threads = {t1, t2, t3}
    MaxAppends = 4
    MaxBatch = 2
    Faults = {"write", "crash"}
    Nobody = Nobody
SYMMETRY Symmetry
INVARIANTS TypeOK AckedDurable LogInQueueOrder AckedRecovered
CHECK_DEADLOCK FALSE
