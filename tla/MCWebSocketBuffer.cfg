\* The comment at line 488 of writer_websocket.go, which the code does not keep.
CONSTANTS
    MaxConns = 2
    MaxBreaks = 1
    MaxFrames = 1
    BadFrames = {}
    ChannelCap = 1
SPECIFICATION Spec
PROPERTIES
    BufferIsKept
\* A closed writer whose goroutines have ended does nothing more.
CHECK_DEADLOCK FALSE
