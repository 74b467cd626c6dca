SPECIFICATION Spec
CONSTANTS
    w1 = w1  w2 = w2  s1 = s1  s2 = s2  d1 = d1  d2 = d2
    long = long  short = short  big = big  empty = empty
    NoRow = NoRow  NoDoc = NoDoc  NoRequest = NoRequest  Nobody = Nobody
    Workers = {w1, w2}
    Scopes = {s1}
    Docs = {d1, d2}
    Bodies = {long, short, big, empty}
    MaxChunks = 2
    Faults = {"purge", "upsert", "save"}
    Targets <- MCOneOwner
    Keys <- MCOneOwner
    KeyOf <- MCKeyOf
    HashOf <- MCHashOf
    ChunkIds <- MCChunkIds
    ChunksOf <- MCChunksOf
SYMMETRY MCWorkerSymmetry
INVARIANTS
    TypeOK
    QuiescentInSync
    NoMixture
    NoChangeHonest
PROPERTIES
    ImplementsStore
    RowsFenced
