SPECIFICATION FairSpec
CONSTANTS
    Ticker = Ticker
    NoOne = NoOne
    Jobs = {r1, s1}
    Scheduled = {s1}
    Restores = {r1}
    Threads = {s1}
    TTL = 2
    Gap = 1
PROPERTY EveryEventEnds
CHECK_DEADLOCK FALSE
