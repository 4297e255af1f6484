SPECIFICATION Spec
CONSTANTS
    d1 = d1
    d2 = d2
    lo = lo
    p1 = p1
    p2 = p2
    sh = sh
    s1 = s1
    g1 = g1
    prefix = prefix
    NoDev = NoDev
    NoProcess = NoProcess
    NoFile = NoFile
    AnyAddr = AnyAddr
    Dev = {d1, d2, lo}
    MaxVifs = 2
    Daemon = {p1, p2}
    ShellProcess = {sh}
    Address = {s1, g1, AnyAddr}
    Multicast = {g1}
    Host <- MCHost
    File <- MCFile
INVARIANTS
    TypeOK
    NothingOutlivesItsOwner
PROPERTIES
    TablesBelongToOwner
    StartedAsConfigured
    StartsSettle
