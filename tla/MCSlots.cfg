\* Callers may give up while they are queued; a caller once served takes its slot.
SPECIFICATION SlotsSpec
CONSTANTS
    p1 = p1
    p2 = p2
    p3 = p3
    p4 = p4
    Procs = {p1, p2, p3, p4}
    Rank <- MCRank
    Count = 2
    GiveUpIn = {"queued"}
    MaxArrivals = 6
INVARIANTS
    SlotsTypeOK
    SlotsConserved
    NoLostWaiter
PROPERTY
    GreatestRankFirst
