SPECIFICATION Spec
CONSTANTS
    s1 = s1
    s2 = s2
    Sessions = {s1, s2}
    Worlds <- SafeWorlds
INVARIANT UserDecides
PROPERTIES NothingLost ResyncIsInvisible
CHECK_DEADLOCK FALSE
