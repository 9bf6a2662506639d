\* A manifest may name roots that are never written; the file arrives unharmed.
CONSTANTS
    Ids = {1, 2}
    Payloads <- MCPayloads
    Manifests <- MCManifests
    Jobs <- MCUnharmed
    Generous <- MCGenerous
    Foreign <- MCForeign
    NoFile = NoFile
SPECIFICATION Spec
INVARIANT FinishedIsReadable
CHECK_DEADLOCK FALSE
