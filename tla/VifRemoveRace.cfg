SPECIFICATION Spec
CONSTANTS
    d1 = d1
    d2 = d2
    d3 = d3
    t1 = t1
    t2 = t2
    None = None
    NoDev = NoDev
    NoIndex = NoIndex
    Dev = {d1, d2}
    Thread = {t1, t2}
    MaxVifs = 2
    MaxPkts = 0
    Malformed = {}
    Index = {}
    Configs <- StartConfigs
    Operation = {"add", "removeName"}
PROPERTY RemovalHitsNamed
