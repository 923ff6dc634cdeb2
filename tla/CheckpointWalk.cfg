SPECIFICATION FairWalkSpec
CONSTANTS
    K = 3
    Timeout <- MCTimeout
    U64Max = 7
PROPERTIES
    CompleteIsEarned
    JudgedByWindow
    Decides
    RefinesBootWatch
