\* The search in a file, and the vector index, one call after the other.
SPECIFICATION SearchSpec
CONSTANTS
    \* SSTable: records of at most half a block, two versions of a key.
    Keys = {1, 2, 3, 4}
    Sizes = {1, 2}
    BlockSize = 4
    MaxRecords = 6
    MaxVersions = 2
    \* Hnsw
    Vectors = {0, 1, 3, 20}
    VectorKeys = {1, 2}
    MaxM = 1
    Ef = 3
    MaxLevel = 1
    MaxVectorNodes = 4
INVARIANTS TypeOK FindsNewest LinksSound FindsNearest RemovedMadeUpFor
PROPERTIES SearchEnds CallsEnd
