SPECIFICATION Spec
CONSTANTS
    NoPacket = NoPacket
    SizeT = 65536
    MaxQueue = 2
    Packet <- MCPacket
    Content <- MCContent
    Line <- MCLine
    Number <- MCNumber
    Address <- MCAddress
INVARIANT RespTimeAsCommented
CHECK_DEADLOCK FALSE
