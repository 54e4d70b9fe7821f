\* The broker publishes, as soon as it has sent CONNACK; the session is
\* established.
SPECIFICATION Spec
CONSTANTS
    Filters <- MCFilters
    Topics <- MCTopics
    NPublish = 0
    MaxPacketId = 3
    MaxPings = 0
    MaxPublish = 2
    OutSize <- MCOutSize
    InSize <- MCInSize
    SendBufSize = 20
    RecvBufSize = 12
    SendFailures = {}
    SplitPackets = FALSE
    ControlRecords = FALSE
    MaxInq = 2
INVARIANTS NoWildFilter AckOnce
PROPERTIES LiteralDelivered SessionEstablished
