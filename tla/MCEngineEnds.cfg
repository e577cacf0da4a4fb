\* The ring; requests of two versions overlap.  A request that is stuck is
\* what RequestsEnd reports, not a deadlock of the whole.
SPECIFICATION EngineFairSpec
CONSTANTS
    a = a
    m = m
    top = top
    x = x
    y = y
    None = None
    Keys = {x, y}
    Leaves = {y}
    Values = {0, 1}
    Clients = {c1, c2}
    Tasks = {t1, t2, t3}
    Wants <- RingWants
    Outcome <- RingOutcome
    Outcomes <- MCOutcomes
    MaxVersion = 1
    MaxFaults = 0
    MidPoll = FALSE
    Quiet = FALSE
    MayPanic = FALSE
INVARIANTS
    WaitsAcyclic
PROPERTIES
    RequestsEnd
CHECK_DEADLOCK FALSE
