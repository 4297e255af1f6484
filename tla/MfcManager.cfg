SPECIFICATION Spec
CONSTANTS
    d1 = d1
    d2 = d2
    s1 = s1
    g1 = g1
    g2 = g2
    t1 = t1
    t2 = t2
    AnyAddr = AnyAddr
    Dev = {d1, d2}
    MaxVifs = 2
    Sender = {s1}
    Group = {g1, g2}
    Thread = {t1, t2}
    MaxQueue = 1
    Route <- MCRoute
    Packet <- MCPacket
INVARIANTS
    TypeOK
    RoutesFollowInterfaces
    NoEmptyList
PROPERTIES
    LossesAreRaces
    ListenerKeepsUp
