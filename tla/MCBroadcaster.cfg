SPECIFICATION Spec
CONSTANTS
    Subscribers = {s1, s2}
    Scopes = {messages, sessions}
    NoEvent = NoEvent
    BufferCap = 2
    MinInterval = 2
    MaxCommits = 4
PROPERTIES
    RateLimited
    EmitIsASignal
    EveryClientIsSignalled
