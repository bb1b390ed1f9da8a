\* A session's own match and one other, a channel of two slots, three offers.
CONSTANTS
    SessionIds = {Match1, Match2}
    Session = Match1
    NoSession = NoSession
    ChannelCap = 2
    MaxFrames = 3
SPECIFICATION Spec
INVARIANTS
    TypeOK
    FewLateFrames
    MatchIsComplete
    TapeIsDeferred
    GoneMeansStopped
PROPERTIES
    ImplementsRecording
    CancelEndsWorker
    NewMatchStops
    FramesAreConsumed
\* The poller has closed, the worker has ended: the session really stops.
CHECK_DEADLOCK FALSE
