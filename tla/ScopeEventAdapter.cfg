SPECIFICATION Spec
CONSTANTS
    Sessions = {1, 2}
    SessionLimit = 1
    MessageLimit = 1
    OutCap = 1
    Ordinals <- MCOrdinals
    MaxWrites = 3
    MaxFaults = 1
INVARIANTS
    LogIsSound
    CaughtUp
PROPERTIES
    EveryMessageIsAnnounced
CHECK_DEADLOCK FALSE
