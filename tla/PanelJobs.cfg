SPECIFICATION Spec
CONSTANTS
    Ticker = Ticker
    NoOne = NoOne
    Jobs = {b1, s1}
    Scheduled = {s1}
    Restores = {}
    Threads = {}
    TTL = 3
    Gap = 2
INVARIANTS
    TypeOK
    OneAtATime
    RecoveryOnlyTouchesTheDead
    SettledJobIsClean
PROPERTIES
    OutcomesAreFinal
    SuccessIsPublished
    RetentionAfterSuccess
    KeepsPromise
CHECK_DEADLOCK FALSE
