\* One server that plays two matches, at most two sessions alive.
CONSTANTS
    Targets = {Server}
    Choices <- MCChoices
    MaxMatches = 2
    MaxFailures = 1
    Slots = {Slot1, Slot2}
SPECIFICATION Spec
INVARIANTS
    TypeOK
    OneRecorder
    OnlyStoppedAreForgotten
PROPERTIES
    SilentServerIsDropped
    InterruptEndsFiles
    SingleFileIsRecorded
\* After an interrupt everything has ended.
CHECK_DEADLOCK FALSE
