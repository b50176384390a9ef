SPECIFICATION FairSpec
CONSTANTS
    Pages <- MCPages
    Words <- MCWords
    Blank = "spaces"
    NoQuery = NoQuery
    MaxPresses = 4
    MaxBehind = 1
INVARIANTS
    ChangesAddUp
    ControlsAgree
PROPERTY HeldIsLetGo
CHECK_DEADLOCK FALSE
