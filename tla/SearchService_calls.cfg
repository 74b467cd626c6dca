SPECIFICATION FairSpec
CONSTANTS
    c1 = c1  c2 = c2  c3 = c3
    Calls = {c1, c2}
    Threads = 1
    Attempts = 2
INVARIANTS
    StatusJustified
    CountedOnce
    Drained
PROPERTIES
    CallsEnd
    ShutsDown
CHECK_DEADLOCK FALSE
