\* Up to three leaves of two or three out of seven identifiers, batches that name
\* up to three of them; limits that some batches exceed.
CONSTANTS
    Ids <- MCIds
    Capacity = 3
    Minimum = 2
    MaxObjects = 6
    MaxPages = 3
    MaxActions = 3
    MaxInput = 3
    MaxBatch = 3
SPECIFICATION Spec
INVARIANTS NothingLost
CHECK_DEADLOCK FALSE
