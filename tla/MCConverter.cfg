SPECIFICATION Spec
CONSTANTS
    in = in
    sub = sub
    rec = rec
    Dirs <- MCDirs
    Stems <- MCStems
    Commands <- MCCommands
    MaxRecordings = 2
    WorkDir = in
    Length = 2
    MaxSuffix = 1
    MaxRuns = 2
    MaxFaults = 1
INVARIANTS TypeOK RecordingsSurvive SuccessMeansComplete ExitZeroMeansOutput
PROPERTY EveryStepIsProgress
CHECK_DEADLOCK FALSE
