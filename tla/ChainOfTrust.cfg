SPECIFICATION MCSpec
CONSTANTS
    MaxLen = 3
    LongLen = 5
INVARIANTS
    AcceptsWellFormed
    CascadeIsClosure
CHECK_DEADLOCK FALSE
