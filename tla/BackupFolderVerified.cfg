SPECIFICATION Spec
CONSTANTS
    Backups = {1, 2, 3, 4}
    Streams = {2, 4}
    Unverified = {4}
    Keep = 2
    Limit = 2
    MaxBeside = 2
    MaxValidations = 0
PROPERTY VerifiedAlwaysKept
CHECK_DEADLOCK FALSE
