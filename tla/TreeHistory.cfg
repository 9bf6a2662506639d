SPECIFICATION Spec
CONSTANTS
    LeafCapacity = 2
    InternalFanout = 2
    Genesis <- MCGenesis
    Puts <- MCPuts
    Updates <- MCUpdates
    Published <- MCPublished
    Planned <- MCPlanned
    Selections <- MCSelections
    Sequences <- MCSequences
    Probes = {3, 7}
    Kinds = {"lookup", "strict", "history", "scan", "inventory", "copy", "copySequence",
             "chain", "plan"}
    Limits <- MCLimits
    Budgets = {20, 45}
    MaxCommits = 3
    MaxChanges = 3
    MaxDamage = 1
INVARIANTS
    StrictExact
    LookupExact
    HistoryExact
    RecoveryExact
    BudgetKept
    AnswerIsOfOneVersion
    SinksAgree
    TailsAgree
    FailedSinkIsNoFile
    FreshnessExact
CHECK_DEADLOCK FALSE
