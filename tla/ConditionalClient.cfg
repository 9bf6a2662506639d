\* Metadata and two ranges; the attempts are fewer than all retries and replays
\* could use, the delay budget runs out after one to three delays, one server
\* minimum is above the per-delay cap.
CONSTANTS
    MaxVersion = 1
    Ranges = 2
    ReadLimits = {1, 2}
    MaxAttempts = 5
    Base = 1
    MaxDelay = 3
    MaxCumulative = 6
    Minimums = {0, 2, 4}
SPECIFICATION FairSpec
INVARIANTS OneVersionAccepted AttemptsAccounted OneRefreshPerRequest
PROPERTIES OperationReturns
CHECK_DEADLOCK FALSE
