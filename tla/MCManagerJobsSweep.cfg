SPECIFICATION Spec
CONSTANTS
    j1 = j1
    j2 = j2
    a1 = a1
    NoJob = NoJob
    Jobs <- TwoJobs
    Dispatched <- OnlyJ2
    Apps <- OneApp
    AppOf <- AllOfA1
    Limit = 2
    Slack = 1
    MaxStarts = 2
INVARIANT OneRunPerApplication
CHECK_DEADLOCK FALSE
