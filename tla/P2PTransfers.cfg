SPECIFICATION Spec
CONSTANTS
    a = a
    b = b
    t = t
    u = u
    Processes = {a, b}
    Transfers = {t, u}
    Routes <- MCRoutes
    MaxFails = 1
    None = None
VIEW Relevant
INVARIANTS Intact ListsMatch NoVainWait
CHECK_DEADLOCK FALSE
