\* The comment at line 147 of writer_websocket.go, which the code does not keep.
CONSTANTS
    MaxConns = 2
    MaxBreaks = 1
    MaxFrames = 0
    BadFrames = {}
    ChannelCap = 1
SPECIFICATION Spec
PROPERTIES
    LiveConnectionsSurvive
\* A closed writer whose goroutines have ended does nothing more.
CHECK_DEADLOCK FALSE
