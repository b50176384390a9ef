SPECIFICATION FairSpec
CONSTANTS
    Contracts = {c1}
    Requests = {r1, r2}
    Files = {f1, f2}
    NoContract = NoContract
    NoFile = NoFile
    PoolSize = 2
    Faults = {"crash", "lost_put", "lost_commit", "failed_remove"}
    MaxAdjustments = 1
    MaxComments = 1
    MaxSaves = 1
INVARIANT SnapshotKeepsEveryAdjustment
PROPERTIES
    OnlyFaultsLeaveFiles
    ImplementsSteps
    EveryRequestEnds
