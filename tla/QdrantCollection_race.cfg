SPECIFICATION Spec
CONSTANTS
    c1 = c1  c2 = c2  d1 = d1  d2 = d2
    NoCollection = NoCollection
    Callers = {c1, c2}
    Docs = {d1}
    MaxPoints = 1
    NumIndexes = 2
    Attempts = 2
    Ops = {"ensure"}
    Transports = {TRUE}
INVARIANTS
    RaceTolerated
