\* Buffers too small for what arrives: packets cut in two, records larger than
\* the room in recv_buf, appends past the end of send_buf, failing send().
SPECIFICATION Spec
CONSTANTS
    a = a
    b = b
    OutPacket <- MCPackets
    InPacket <- MCPackets
    OutSize <- MCSize
    InSize <- MCSize
    Outputs <- MCOutputs
    SendBufSize = 5
    RecvBufSize = 4
    SendFailures = {"zero", "error"}
    SplitPackets = TRUE
    ControlRecords = TRUE
    MaxQueued = 3
    MaxInq = 2
INVARIANTS TypeOK RecvConserved RecvDrained RecordIsFront SendConserved NoReorder
