SPECIFICATION BansSpec
CONSTANTS
    i1 = i1
    i2 = i2
    i3 = i3
    IP = {i1, i2, i3}
    MaxKills = 2
SYMMETRY Symmetry
INVARIANTS BansOK FileWhole PromiseKept
PROPERTY ImplementsStore
