\* Two records besides the directory, of no, one or three units in one or two chunks;
\* manifests of one root and of two; every kind of harm, or limits on one side.
CONSTANTS
    Ids = {0, 1, 2}
    Payloads <- MCPayloads
    Manifests <- MCManifests
    Jobs <- MCJobs
    Generous <- MCGenerous
    Foreign <- MCForeign
    NoFile = NoFile
SPECIFICATION Spec
INVARIANTS StreamingMatchesMemory CommitIsGenuine ReadersAgree SalvageIsExact
PROPERTY DrainEnds
CHECK_DEADLOCK FALSE
