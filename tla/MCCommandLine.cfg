SPECIFICATION Spec
CONSTANTS
    h1 = h1
    h2 = h2
    c1 = c1
    Hosts = {h1, h2}
    MaxPort = 3
    Invocations <- MCInvocations
    ShowFiles <- MCShowFiles
    Clients = {c1}
    Playlists <- MCPlaylists
    MaxFiles = 2
    Versions <- MCVersions
    Modes <- MCModes
    OtherStatus = "score"
    PollerConfigs <- MCPollerConfigs
    Base = 2
    MaxPrefix = 3
    MaxLength = 4
    MaxMessages = 2
    MaxErrors = 2
    Recordings <- MCRecordings
INVARIANTS
    TypeOK
    EffectiveSettings
    TargetsAreNamed
    LabelsAreNotEarlier
    ExitZeroMeansShown
    SnapshotIsConsistent
    UpdateIsOrdered
    StreamIsAsAsked
    FramesReadArePrefix
    ValidMeansAllGood
PROPERTIES
    ShowEnds
    EveryFileIsPlayed
    PlayIsFullSpeed
CHECK_DEADLOCK FALSE
