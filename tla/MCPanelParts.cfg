SPECIFICATION Spec
CONSTANTS
    None = None
    Never = Never
    Unreadable = Unreadable
INVARIANTS
    BackupsAreWhole
    PipelinesDeliver
    ContainersAreRecovered
    RestoresAreExact
    UpgradesHold
    GuardsHold
    ChainIntact
    NothingForgotten
PROPERTIES
    PanelStepsHold
    SealedRowsAreFinal
    NewestVerifiedKept
    PlacesAreKept
    StreamLimit
    StreamKeepsItsOwn
CHECK_DEADLOCK FALSE
