\* The handshake fails.
SPECIFICATION Spec
CONSTANTS
    a = a
    b = b
    OutPacket <- MCPackets
    InPacket <- MCPackets
    OutSize <- MCSize
    InSize <- MCSize
    Outputs <- MCOutputs
    SendBufSize = 9
    RecvBufSize = 7
    SendFailures = {}
    SplitPackets = FALSE
    ControlRecords = TRUE
    MaxQueued = 3
    MaxInq = 2
INVARIANT FailedSessionClosed
