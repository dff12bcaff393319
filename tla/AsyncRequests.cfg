SPECIFICATION FairSpec
CONSTANTS
    a = a
    b = b
    Requests = {a, b}
    Tasks = {t1, t2}
    Children = {a}
    Rooted = {a, b}
    Dependencies <- SomeDependencies
    MaxRetries = 1
    MaxConcurrent = 1
    MaxFaults = 1
    NoReq = NoReq
INVARIANT RequestsTypeOK
INVARIANT WorkAfterDependencies
INVARIANT NoStallNoDuplicate
INVARIANT LimitHolds
INVARIANT NoFailureWithoutCause
PROPERTY ResultsAreFinal
PROPERTY EveryRequestSettles
CHECK_DEADLOCK FALSE
