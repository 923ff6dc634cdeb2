\* Three slots, four addresses, three targets; an unknown owner is cleared by RSTDAA.
SPECIFICATION Spec
CONSTANTS
    t1 = t1
    t2 = t2
    t3 = t3
    NoPid = NoPid
    Targets <- MCTargets
    Addrs <- MCAddrs
    NSlots = 3
    Wanted <- MCWanted
    Legacy <- MCLegacy
    LAPS = 2
    CallerResets = TRUE
    CallerKnowsBus = TRUE
INVARIANTS
    HeldIsReserved
    NoSharedAddress
    RightTarget
    WalkCoversAll
