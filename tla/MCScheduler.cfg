\* With and without --keep_going; two slots; the task of b may panic.
SPECIFICATION SchedFairSpec
CONSTANTS
    w = w
    a = a
    b = b
    l = l
    t = t
    d = d
    Procs = {w, a, b, l, t, d}
    Makers <- MCMakers
    Rank <- MCRank
    Count = 2
    GiveUpIn = {}
    MaxArrivals = 6
    Requested = {l, t, d}
    Commands = {a, b, l, t, d}
    Tests = {t}
    MayFail = {w, a, t, d}
    MayHit = {w, a}
    MayPanic = {b}
INVARIANTS
    SchedTypeOK
    NothingLeft
    LostIsExplained
PROPERTIES
    IsABuild
    BuildEnds
CHECK_DEADLOCK FALSE
