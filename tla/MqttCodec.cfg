CONSTANTS
    Base = 4
    Packets <- MCPackets
    After <- MCAfter
    BufLen = 26
SPECIFICATION Spec
INVARIANTS
    LengthRoundTrip
    Framed
    WritesWhatItReports
    PublishDecoded
    SubackDecoded
