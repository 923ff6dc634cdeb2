\* Two transfers of up to two commands, one re-initialisation, three in-band interrupts.
SPECIFICATION Spec
CONSTANTS
    IBIQ_DEPTH = 2
    MaxCmds = 2
    Calls <- MCCalls
    MaxXfers = 2
    MaxInits = 1
    MaxIbis = 3
INVARIANTS
    HonestSuccess
    CleanBetweenTransfers
    NeverDeaf
    GapIsAnnounced
