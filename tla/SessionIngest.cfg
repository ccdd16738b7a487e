SPECIFICATION Spec
CONSTANT Worlds <- MCWorlds
INVARIANTS
    RowsFollowTheFile
    OrdinalsAreUnique
PROPERTIES
    LinesAreKept
    CatchesUp
CHECK_DEADLOCK FALSE
