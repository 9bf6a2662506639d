\* A patient policy: seventy attempts, 100 ms doubling up to 1 s.
CONSTANTS
    MaxVersion = 0
    Ranges = 0
    ReadLimits = {0}
    MaxAttempts = 70
    Base = 100
    MaxDelay = 1000
    MaxCumulative = 100000
    Minimums = {0}
SPECIFICATION Spec
INVARIANTS BackoffIsCappedExponential
CHECK_DEADLOCK FALSE
