SPECIFICATION Spec
CONSTANTS
    a = a
    b = b
    Requests = {a, b}
    Tasks = {t1, t2}
    Children = {a}
    Rooted = {a, b}
    Dependencies <- SomeDependencies
    MaxRetries = 1
    MaxConcurrent = 1
    MaxFaults = 0
    NoReq = NoReq
INVARIANT RunsOnceLeavesSucceed
CHECK_DEADLOCK FALSE
