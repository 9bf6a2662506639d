\* Pages of two or three entries, ten identifiers and nine objects at most: trees of up to
\* three levels in which leaves and internal pages split, lend, merge and collapse, and
\* limits on objects, pages and depth that some batches exceed.
CONSTANTS
    Ids <- MCIds
    LeafCapacity = 3
    InternalFanout = 3
    MaxObjects = 9
    MaxPages = 7
    MaxDepth = 2
    Batches <- MCBatches
    NoTree = NoTree
SPECIFICATION Spec
INVARIANTS ContentsApplied OnlyCallersFail WritersAgree
