\* Linux: send() on the open blocking socket succeeds.  Every record just fits
\* into recv_buf, and no append goes past the end of send_buf.
SPECIFICATION Spec
CONSTANTS
    a = a
    b = b
    OutPacket <- MCPackets
    InPacket <- MCPackets
    OutSize <- MCSize
    InSize <- MCSize
    Outputs <- MCOutputs
    SendBufSize = 9
    RecvBufSize = 6
    SendFailures = {}
    SplitPackets = FALSE
    ControlRecords = TRUE
    MaxQueued = 3
    MaxInq = 2
INVARIANTS NoFault
PROPERTIES StreamSpec Flushed InputProgress
