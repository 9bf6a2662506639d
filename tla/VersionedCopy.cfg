\* Five versions of the object in turn; a read limit that is too small by one,
\* and one that is just enough.
CONSTANTS
    MaxVersion = 4
    Bytes <- MCBytes
    Identities <- MCIdentities
    TailBytes <- MCTail
    ReadLimits = {3, 4}
SPECIFICATION Spec
INVARIANTS OneVersionInSink SuccessIsExact
CHECK_DEADLOCK FALSE
