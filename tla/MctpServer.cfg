\* Two clients, a table of two, up to two packets per drive_pending.
SPECIFICATION Spec
CONSTANTS
    Clients = {a, b}
    Handle = {h1, h2}
    None = None
    MaxRequests = 1
    MaxListeners = 1
    Outstanding = 2
    Timeouts = {0, 2}
    MaxBatch = 2
    MaxTime = 3
    MaxMsgs = 3
INVARIANTS
    TableIsWaiting
    NobodyMissesAMessage
PROPERTIES
    DeliveredToItsOwner
    HonestTimeout
    EveryTimeoutReturns
CHECK_DEADLOCK FALSE
