\* The chain; two changes or new versions, each made at rest; a request is
\* given up once, and its abort may find a task in the middle of a poll.
SPECIFICATION EngineSpec
CONSTANTS
    a = a
    m = m
    top = top
    x = x
    y = y
    None = None
    Keys = {a, m, top}
    Leaves = {a}
    Values = {0, 1}
    Clients = {c1}
    Tasks = {t1, t2, t3, t4}
    Wants <- ChainWants
    Outcome <- ChainOutcome
    Outcomes <- MCOutcomes
    MaxVersion = 2
    MaxFaults = 1
    MidPoll = TRUE
    Quiet = TRUE
    MayPanic = FALSE
SYMMETRY EngineSymmetry
INVARIANTS
    FreshResult
    CurrentDeps
    OneComputation
