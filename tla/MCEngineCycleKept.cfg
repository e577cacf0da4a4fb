\* The loop, opened at rest: is the cycle forgotten?
SPECIFICATION EngineSpec
CONSTANTS
    a = a
    m = m
    top = top
    x = x
    y = y
    None = None
    Keys = {a, x, y}
    Leaves = {a}
    Values = {0, 1}
    Clients = {c1}
    Tasks = {t1, t2, t3, t4}
    Wants <- LoopWants
    Outcome <- LoopOutcome
    Outcomes <- MCOutcomes
    MaxVersion = 1
    MaxFaults = 0
    MidPoll = FALSE
    Quiet = TRUE
    MayPanic = FALSE
SYMMETRY EngineSymmetry
INVARIANTS
    FreshResult
