CONSTANTS
    RenegoMaxRecords = 3
    Stalls = TRUE
    MaxWritten = 2
    MaxData = 2
    MaxWarnings = 1
    MaxAsked = 1
SPECIFICATION Spec
INVARIANTS InStep ReadInOrder WrittenOnce
PROPERTY ConnectSent
CHECK_DEADLOCK FALSE
