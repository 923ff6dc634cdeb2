SPECIFICATION DriverSpec
CONSTANTS
    N = 3
    Kind <- MCKind
    Policy <- MCPolicy
    DependsOn <- MCDependsOn
    MaxRetry = 2
    PendingCap = 3
    Replies <- MCReplies
    Svn <- MCSvn
    SelfManaged <- MCSelfManaged
INVARIANTS
    StagedWhenVerified
    FloorBelowRunning
PROPERTIES
    EveryBootReported
    KeepsContract
