SPECIFICATION Spec
CONSTANTS
    Procs = {p1, p2}
    Dirs = {d1}
    Candidates <- MCCandidates
    CreateOptions <- MCCreateOptions
    MinDays = 1
    MaxDays = 6
    NameLimit = 4
    Tolerance = 1
    MaxClock = 3
    MaxIdents = 2
    MaxCrashes = 1
    Callers = {k1, k2}
    Targets = {t1, t2, t3}
    LeafHours = {1, 2}
    Authorities <- MCAuthorities
    MinValidity = 2
    MaxValidity = 3
    CacheEntries = 2
    SerialBits = 4
    SerialSeed = 9
    SerialStep = 5
    MaxMints = 4
INVARIANTS
    CaSound
    LeavesSound
PROPERTIES
    NeverOverwritten
CHECK_DEADLOCK FALSE
