SPECIFICATION Spec
CONSTANTS
    None = None
    Never = Never
    Manual = Manual
    NoRun = NoRun
    Nobody = Nobody
    Shell = Shell
    c1 = c1
    c2 = c2
INVARIANTS
    MovesHold
    ServersHold
    BackupsAreKept
    SignInsHold
    SecretsHold
    SessionsHold
PROPERTIES
    ManagerStepsHold
CHECK_DEADLOCK FALSE
