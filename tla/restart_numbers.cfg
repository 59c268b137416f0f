\* After a compaction start-up counts file numbers again.
SPECIFICATION Spec
CONSTANTS
    Keys = {k1}
    Deletes = {TRUE, FALSE}
    Threshold = 2
    Capacity = 4
    L0Trigger = 2
    Faults = {"crash", "relapse"}
    MaxPuts = 3
    MaxStarts = 4
    MaxCompactions = 1
    MaxFlushing = 1
INVARIANT NumbersGrow
CHECK_DEADLOCK FALSE
