\* a and top; the change, or new version, overlaps requests; one request
\* is given up or one computation panics.
SPECIFICATION EngineSpec
CONSTANTS
    a = a
    m = m
    top = top
    x = x
    y = y
    None = None
    Keys = {a, top}
    Leaves = {a}
    Values = {0, 1}
    Clients = {c1, c2}
    Tasks = {t1, t2, t3}
    Wants <- ChainWants
    Outcome <- ChainOutcome
    Outcomes <- MCOutcomes
    MaxVersion = 1
    MaxFaults = 1
    MidPoll = FALSE
    Quiet = FALSE
    MayPanic = TRUE
SYMMETRY EngineSymmetry
INVARIANTS
    EngineTypeOK
    RunningIsHeld
