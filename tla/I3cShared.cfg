\* A walk may start while the owner of an address is unknown.
SPECIFICATION Spec
CONSTANTS
    t1 = t1
    t2 = t2
    t3 = t3
    NoPid = NoPid
    Targets <- MCTargets
    Addrs <- MCAddrs
    NSlots = 2
    Wanted <- MCWanted
    Legacy <- MCLegacy
    LAPS = 2
    CallerResets = FALSE
    CallerKnowsBus = TRUE
INVARIANTS
    NoSharedAddress
