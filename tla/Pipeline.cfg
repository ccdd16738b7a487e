CONSTANTS
    Files = {"a", "b"}
    Empty = {"b"}
    Stores <- MCStores
    Unstamped = {"warp"}
    Watchable = {"a", "warp"}
    Processes <- MCProcesses
    Workers = 1
    Buffer = 1
    BatchSize = 2
    Delay = 1
    MaxTime <- MCMaxTime
    MaxFaults = 1
    MaxStops = 1
SPECIFICATION Spec
INVARIANTS WorkersAreCollected ChangesAreSignalled
PROPERTIES FollowsTheSources EverySourceIsStored WatchIsTold
CHECK_DEADLOCK FALSE
