SPECIFICATION PromiseSpec
CONSTANTS
    None = None
    Never = Never
    Manual = Manual
    NoRun = NoRun
    Nobody = Nobody
    Shell = Shell
    c1 = c1
    c2 = c2
INVARIANT SomePromiseHolds
CHECK_DEADLOCK FALSE
