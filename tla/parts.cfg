\* The smaller components, one at a time, and the liveness of the skip list.
SPECIFICATION PartsSpec
CONSTANTS
    \* Merge (Keys too)
    FileIds = {1, 2, 3}
    MaxRecords = 2
    Keys = {1, 2}
    \* BlockCache
    Engines = {e1, e2}
    Files = {f1, f2, f3, f4}
    MaxCapacity = 2
    Nothing = Nothing
    \* VectorLog
    Callers = {b1, b2}
    Dims = {2}
    MaxVectors = 3
    MaxCrashes = 1
    \* Server
    Connections = {c1}
    StoreKeys = {1}
    Length = 2
    Payload = 2
    MaxRequests = 2
    \* Bloom
    BitSizes = {1, 7, 8, 9, 17}
    Hashes = {1, 3}
    Width = 8
    FilterKeys <- ShortKeys
    \* SkipList
    Writers = {w1, w2}
    Readers = {r1}
    MaxHeight = 2
    MaxNodes = 3
INVARIANTS MergedNewest OutputSorted ListAndMapAgree KeepsMostRecent AckedVectorReads PointersApart AnswersInOrder NoFalseNegative
PROPERTIES RequestsAnswered CallsReturn
CHECK_DEADLOCK FALSE
