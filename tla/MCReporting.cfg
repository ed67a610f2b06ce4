SPECIFICATION AllSpec
CONSTANTS
    a = a
    b = b
    i1 = i1
    bad = bad
    c1 = c1
    c2 = c2
    None = None
    Svc = {a, b}
    Heads <- Branch
    Rejected = {bad}
    Modes = {"per-service", "abort-cycle"}
    Prunes = {TRUE, FALSE}
    MaxCycles = 3
    MaxMoves = 2
    MaxEvents = 5
    MaxFaults = 3
    MaxStarts = 2
INVARIANTS ErrorMeansFailing
PROPERTIES LossIsTold
\* The loop waits when the bound on events is reached, and the bounds on cycles
\* and moves end every behaviour of Status.
CHECK_DEADLOCK FALSE
