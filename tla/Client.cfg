\* The start of a session, on Linux, with room in both buffers.
SPECIFICATION Spec
CONSTANTS
    Filters <- MCFilters
    Topics <- MCTopics
    NPublish = 2
    MaxPacketId = 3
    MaxPings = 1
    MaxPublish = 1
    OutSize <- MCOutSize
    InSize <- MCInSize
    SendBufSize = 20
    RecvBufSize = 12
    SendFailures = {}
    SplitPackets = FALSE
    ControlRecords = FALSE
    MaxInq = 3
INVARIANTS TypeOK GrantsFollowed RequestIdsDiffer OpeningApart
PROPERTY SessionSpec
