\* Four processes, crashes at any point, two compactions.
SPECIFICATION Spec
CONSTANTS
    Keys = {k1}
    Deletes = {TRUE, FALSE}
    Threshold = 2
    Capacity = 4
    L0Trigger = 2
    Faults = {"crash", "relapse", "sst"}
    MaxPuts = 4
    MaxStarts = 4
    MaxCompactions = 2
    MaxFlushing = 1
INVARIANTS TypeOK  NoOrphanWal
 
CHECK_DEADLOCK FALSE
