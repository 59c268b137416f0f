\* A key whose versions fill whole blocks.
SPECIFICATION Spec
CONSTANTS
    Keys = {1, 2}
    Sizes = {1}
    BlockSize = 2
    MaxRecords = 6
    MaxVersions = 5
INVARIANT FindsNewest
