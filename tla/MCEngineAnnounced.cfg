\* a and top; a change overlaps requests: does a request after its announcement
\* see it?
SPECIFICATION EngineSpec
CONSTANTS
    a = a
    m = m
    top = top
    x = x
    y = y
    None = None
    Keys = {a, top}
    Leaves = {a}
    Values = {0, 1}
    Clients = {c1, c2}
    Tasks = {t1, t2, t3, t4}
    Wants <- ChainWants
    Outcome <- ChainOutcome
    Outcomes <- MCOutcomes
    MaxVersion = 1
    MaxFaults = 0
    MidPoll = FALSE
    Quiet = FALSE
    MayPanic = FALSE
SYMMETRY EngineSymmetry
INVARIANTS
    FreshResult
