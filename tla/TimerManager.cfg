SPECIFICATION FairSpec
CONSTANTS
    Id <- MCId
    Capacity = 2
    Windows <- MCWindows
    InstantMax = 5
PROPERTIES
    SleepsUntilNearest
    RefinesWatchdogs
    Expires
