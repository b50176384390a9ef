SPECIFICATION Spec
CONSTANTS
    Contents = {c1}
    Nowhere = Nowhere
    Admins = {a1}
    Creator = Creator
    Slots = {s1}
    Deadline = 2
    LastDay = 1
    MaxDrafts = 2
INVARIANTS
    RefusalsAreExplained
    NotesReachTheirDraft
    TurnIsPlayable
PROPERTY ScreensNeverGoBack
