\* Two reconnections, which a drain needs to send something, and one frame.
CONSTANTS
    MaxConns = 3
    MaxBreaks = 1
    MaxFrames = 1
    BadFrames = {}
    ChannelCap = 1
SPECIFICATION Spec
INVARIANTS
    TypeOK
    NoLeakedConnection
    DisconnectIsPending
    NoFileLeftBehind
\* A closed writer whose goroutines have ended does nothing more.
CHECK_DEADLOCK FALSE
