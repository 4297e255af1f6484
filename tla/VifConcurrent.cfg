SPECIFICATION Spec
CONSTANTS
    d1 = d1
    d2 = d2
    d3 = d3
    t1 = t1
    t2 = t2
    None = None
    NoDev = NoDev
    NoIndex = NoIndex
    Dev = {d1, d2, d3}
    Thread = {t1, t2}
    MaxVifs = 2
    MaxPkts = 1
    Malformed = {}
    Index = {}
    Configs <- StartConfigs
    Operation <- AppendOperations
SYMMETRY MCSymmetry
INVARIANTS
    TypeOK
    AppendOnlyRegular
    AppendOnlyVifi
    AnswersTrue
PROPERTY ImplementsRegistry
