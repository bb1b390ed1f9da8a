\* One file format, and one failing file operation: a writer that fails at its
\* start keeps its session, and nothing is recorded as long as the server plays.
CONSTANTS
    Targets = {Server}
    Choices <- TapeOnly
    MaxMatches = 1
    MaxFailures = 1
    Slots = {Slot1, Slot2}
SPECIFICATION Spec
PROPERTIES
    FailedStartIsSurvived
\* After an interrupt everything has ended.
CHECK_DEADLOCK FALSE
