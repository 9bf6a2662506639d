SPECIFICATION Spec
CONSTANTS
    LeafCapacity = 2
    InternalCapacity = 2
    Batches <- MCBatches
    RootSets <- MCRootSets
    Probes = {0, 1, 2, 3, 7}
    Readers = {"stable", "plain"}
    Targets = {1}
    Limits <- MCLimits
    Defaults <- MCLimits
    Recovery <- MCRecovery
    MaxCommits = 3
    MaxChanges = 4
    MaxDamage = 1
    MaxLookupChanges = 3
INVARIANTS
    StrictExact
    LookupExact
    RecoveryExact
    HistoryExact
    AnswerIsOfOneVersion
CHECK_DEADLOCK FALSE
