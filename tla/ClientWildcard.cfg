\* The broker publishes on a topic that only the wildcard filter receives.
SPECIFICATION Spec
CONSTANTS
    Filters <- MCFilters
    Topics <- MCTopics
    NPublish = 0
    MaxPacketId = 3
    MaxPings = 0
    MaxPublish = 2
    OutSize <- MCOutSize
    InSize <- MCInSize
    SendBufSize = 20
    RecvBufSize = 12
    SendFailures = {}
    SplitPackets = FALSE
    ControlRecords = FALSE
    MaxInq = 3
PROPERTY EveryPublishDelivered
