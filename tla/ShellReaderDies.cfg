SPECIFICATION Spec
CONSTANTS
    NoPacket = NoPacket
    SizeT = 65536
    MaxQueue = 2
    Packet <- EmptyReport
    Content <- EmptyContent
    Line <- MCLine
    Number <- MCNumber
    Address <- MCAddress
INVARIANT ErrorsAreIgnored
CHECK_DEADLOCK FALSE
