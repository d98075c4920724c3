SPECIFICATION Spec
CONSTANTS
    Ports = {5000, 5001}
    MaxSessions = 2
    MaxCalls = 2
    MaxPackets = 2
    MaxLog = 1
    Values <- Typed
    Lengths <- Sizes3
    MaxFields = 2
    Idle = idle
    Targets <- Three
    Earlier <- Two
    MaxWaits = 2
    None = none
    MaxSteps = 4
INVARIANTS RowsTrue QuietAfterStop FieldsAgree OrderKept
CHECK_DEADLOCK FALSE
