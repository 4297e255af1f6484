SPECIFICATION Spec
CONSTANTS
    NoPacket = NoPacket
    SizeT = 65536
    MaxQueue = 2
    Packet <- MCPacket
    Content <- MCContent
    Line <- MCLine
    Number <- MCNumber
    Address <- MCAddress
INVARIANTS
    TypeOK
    InBounds
    ReportAsSent
    AnnouncedArePrinted
    CallsAsTyped
PROPERTY PacketsSettle
CHECK_DEADLOCK FALSE
