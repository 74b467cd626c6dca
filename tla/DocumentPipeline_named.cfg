SPECIFICATION Spec
CONSTANTS
    w1 = w1  w2 = w2  s1 = s1  s2 = s2  d1 = d1  d2 = d2
    long = long  short = short  big = big  empty = empty
    NoRow = NoRow  NoDoc = NoDoc  NoRequest = NoRequest  Nobody = Nobody
    Workers = {w1}
    Scopes = {s1}
    Docs = {d1}
    Bodies = {long, short}
    MaxChunks = 2
    Faults = {}
    Targets <- MCOneOwner
    Keys <- MCOneOwner
    KeyOf <- MCKeyOf
    HashOf <- MCHashOf
    ChunkIds <- MCChunkIds
    ChunksOf <- MCChunksOf
INVARIANTS
    NoInternalError
