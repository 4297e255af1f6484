SPECIFICATION Spec
CONSTANTS
    d1 = d1
    d2 = d2
    d3 = d3
    t1 = t1
    t2 = t2
    None = None
    NoDev = NoDev
    NoIndex = NoIndex
    Dev = {d1, d2, d3}
    Thread = {t1}
    MaxVifs = 3
    MaxPkts = 1
    Malformed = {}
    Index = {0, 1, 2, 3, 65537}
    Configs <- SoloConfigs
    Operation = {"add", "removeIndex", "removeName", "list"}
INVARIANTS
    AloneSeesKernel
    RegisteredIsListed
    AppendFailsOnlyWhenFull
    VifiTrueBelowHoles
PROPERTIES
    AddsMakeNoHole
    RemovalHitsNamed
