SPECIFICATION Spec
CONSTANTS
    w1 = w1  w2 = w2  i1 = i1  i2 = i2
    NoScope = NoScope  NoRequest = NoRequest  NoId = NoId
    Workers = {w1, w2}
    Slugs <- MCSlugs
    Ids = {i1, i2}
    Requests <- MCRequests
SYMMETRY MCWorkerSymmetry
INVARIANTS
    LinesAreOwn
    BotsApart
    RaceHarmless
    GoesOnRegistered
