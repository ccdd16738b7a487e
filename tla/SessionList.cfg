SPECIFICATION Spec
CONSTANTS
    Sessions <- MCSessions
    Rows <- MCRows
    Archives <- MCArchives
    Filters <- MCFilters
    PageSize = 1
    Day = 2
    ActiveWindow = 1
    StaleWindow = 2
    MaxTime = 3
    MaxWrites = 2
INVARIANTS
    PagesMissNothing
    TranscriptIsAPrefix
    TreesAreWhole
    SidebarAgrees
CHECK_DEADLOCK FALSE
