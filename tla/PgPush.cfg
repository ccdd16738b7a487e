SPECIFICATION Spec
CONSTANTS
    NSessions = 2
    MaxTime = 4
    Worlds <- PassWorlds
INVARIANTS NothingMissed
PROPERTIES DoneMeansMirrored
CHECK_DEADLOCK FALSE
