\* Up to four candidates; chains of up to three; two snapshots may be forks,
\* misnumbered, orphans, duplicates or damaged.
CONSTANTS
    Identities = {a, b, c, d}
    None = None
    MaxSequence = 3
    MaxSnapshots = 4
    MaxFaults = 2
    MaxCandidates = 4
    MaxDepth = 3
    MaxResults = 4
SYMMETRY Symmetry
SPECIFICATION Spec
INVARIANTS RecoveryIsNewestIntact EnumerationAgrees RootIsLastFinished
PROPERTY InterruptionKeepsRoot
