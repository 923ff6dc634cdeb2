SPECIFICATION LoopSpec
CONSTANTS
    N = 3
    Kind <- MCKind
    Policy <- MCPolicy
    DependsOn <- MCDependsOn
    MaxRetry = 2
    PendingCap = 3
    Replies <- MCReplies
INVARIANTS
    WalkPrefix
    ReadyMeansServed
    CascadeContained
    CommitWindow
    SinkFits
    FailClosed
