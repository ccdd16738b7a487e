SPECIFICATION Spec
CONSTANTS
    Worlds <- MCWorlds
    Tools <- MCTools
    forkThreshold = 1
    contextWindowSizes <- MCWindows
INVARIANTS
    RowsAreOfTheFile
    ConversationIsWhole
    NothingIsMissed
    SignalsAreDerived
PROPERTIES
    PendingResolves
CHECK_DEADLOCK FALSE
