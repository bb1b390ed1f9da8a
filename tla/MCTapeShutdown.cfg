\* The tape writer at shutdown: does it keep the frames already in the channel?
CONSTANTS
    SessionIds = {Match1, Match2}
    Session = Match1
    NoSession = NoSession
    ChannelCap = 2
    MaxFrames = 3
SPECIFICATION Spec
PROPERTY
    ShutdownKeepsFrames
CHECK_DEADLOCK FALSE
