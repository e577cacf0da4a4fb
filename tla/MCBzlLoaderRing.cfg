\* Three threads load the files of a ring.  A thread that is stuck is
\* what LoadsEnd reports, not a deadlock of the whole.
SPECIFICATION LoaderFairSpec
CONSTANTS
    p = p
    q = q
    r = r
    s = s
    Nobody = Nobody
    Files = {p, q, r, s}
    Threads = {t1, t2, t3}
    Loads <- RingLoads
INVARIANTS
    LoaderTypeOK
    CyclesAreFound
    WalksEnd
PROPERTIES
    LoadsEnd
CHECK_DEADLOCK FALSE
