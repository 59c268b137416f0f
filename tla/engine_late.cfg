\* A put that checked isImmutable_ before the flush inserts after it.
SPECIFICATION Spec
CONSTANTS
    Writers = {w1, w2}
    Readers = {}
    Keys = {k1}
    Deletes = {FALSE}
    Threshold = 1
    Capacity = 3
    L0Trigger = 2
    Faults = {}
    Nobody = Nobody
    MaxPuts = 3
    MaxCompactions = 0
    MaxFlushing = 1
    CompactAlone = TRUE
SYMMETRY Symmetry
INVARIANTS NoLateInsert
CHECK_DEADLOCK FALSE
