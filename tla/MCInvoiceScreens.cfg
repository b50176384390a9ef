SPECIFICATION ScreensSpec
CONSTANTS
    Contracts <- MCContracts
    Openings <- MCOpenings
    Filters <- MCFilters
    MaxLines = 1
    MaxComments = 2
    MaxElsewhere = 1
    MaxPresses = 5
    MaxLoads = 2
    MaxCalls = 2
    MaxAsks = 2
INVARIANTS
    FrozenIsShownFrozen
    OneCallPerForm
    NothingTwice
PROPERTIES
    AnswersNeverReopen
    ShownStaysShown
    ScreensCatchUp
CHECK_DEADLOCK FALSE
