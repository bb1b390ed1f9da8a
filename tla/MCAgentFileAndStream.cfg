\* A tape and the events API: what the help text of "stream" promises, which
\* the code does not keep.
CONSTANTS
    Targets = {Server}
    Choices <- FileAndStream
    MaxMatches = 2
    MaxFailures = 0
    Slots = {Slot1, Slot2}
SPECIFICATION Spec
PROPERTIES
    FileOfManyIsRecorded
\* After an interrupt everything has ended.
CHECK_DEADLOCK FALSE
