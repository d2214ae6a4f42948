SPECIFICATION Spec
CONSTANTS
    NoOne = NoOne
    Closed = Closed
    Workers = {w1, w2}
    Interval = 2
    MaxClock = 3
    MaxDeaths = 1
    MaxEdits = 1
INVARIANTS
    RetriedOnce
PROPERTIES
    OnceUnlessSetBack
    DueIsServed
CHECK_DEADLOCK FALSE
