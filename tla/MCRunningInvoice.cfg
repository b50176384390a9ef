SPECIFICATION Spec
CONSTANTS
    e1 = e1
    s1 = s1
    Evergreen = {e1}
    Specific = {s1}
    Deadline <- Deadlines
    Platforms = {"instagram", "tiktok"}
    Bodies <- Forms
    NoFormula = NoFormula
    NoVideo = NoVideo
    NoViews = NoViews
    NoDay = NoDay
    StartDate = 1
    EndDate = 3
    FixedRate = 6
    Counts = {0, 1, 2}
    LastDay = 5
INVARIANT TypeOK
PROPERTIES
    AmountIsFinal
    HandInNeverCosts
    MeasuringNeverCosts
