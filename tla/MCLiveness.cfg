CONSTANTS
    c1 = c1
    p1 = p1
    None = None
    Channels <- MCChannels
    Patterns <- MCPatterns
    MaxPings = 1
    MaxReconnects = 2
    AttemptBound = 1
    MaxCalls = 4
    MaxDrops = 2
    MaxBuffer = 2
    MaxInbox = 2
    ReentrantHandlers = FALSE

SPECIFICATION FairSpec
PROPERTY HandlerTerminates
CHECK_DEADLOCK FALSE
