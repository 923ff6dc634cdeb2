SPECIFICATION DispatchSpec
CONSTANTS
    N = 2
    Kind <- MCKind
    Policy <- MCPolicy
    DependsOn <- MCDependsOn
    MaxRetry = 2
    PendingCap = 3
    Replies <- MCReplies
INVARIANTS
    ResetsAgree
    NeverStranded
    AttemptsBounded
PROPERTIES
    VerifyBeforeRelease
    VerifiedAtRest
    Quiesces
