CONSTANTS
    c1 = c1
    p1 = p1
    None = None
    Channels <- MCChannels
    Patterns <- MCPatterns
    MaxPings = 2
    MaxReconnects = 2
    AttemptBound = 1
    MaxCalls = 5
    MaxDrops = 2
    MaxBuffer = 2
    MaxInbox = 2
    ReentrantHandlers = TRUE

SPECIFICATION Spec
INVARIANT PingPairing
CHECK_DEADLOCK FALSE
