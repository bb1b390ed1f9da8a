\* One outage, one reconnection and two frames, of which the first cannot be
\* marshalled and the second can circulate.
CONSTANTS
    MaxConns = 2
    MaxBreaks = 1
    MaxFrames = 2
    BadFrames = {1}
    ChannelCap = 1
SPECIFICATION Spec
INVARIANT
    FirstConnectionIsLossless
PROPERTIES
    CloseEndsLoops
    BrokenIsClosed
\* A closed writer whose goroutines have ended does nothing more.
CHECK_DEADLOCK FALSE
