SPECIFICATION Spec
CONSTANTS
    NoOne = NoOne
    Closed = Closed
    Workers = {w1, w2, w3}
    Interval = 2
    MaxClock = 3
    MaxDeaths = 0
    MaxEdits = 0
PROPERTY OncePerInterval
CHECK_DEADLOCK FALSE
