SPECIFICATION Spec
CONSTANTS
    Worlds <- CodexWorlds
    Tools <- MCTools
    forkThreshold = 1
    contextWindowSizes <- MCWindows
INVARIANTS
    FallbackReplaces
CHECK_DEADLOCK FALSE
