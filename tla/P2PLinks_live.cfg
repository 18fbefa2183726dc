SPECIFICATION FairSpec
CONSTANTS
    a = a
    b = b
    d = d
    Servers = {a, b}
    Dead = {d}
    Known <- Known_both
    Desired <- Desired_pair
    Console = {a, b}
    Commands = {"find"}
    ErrorCheck = TRUE
    K <- K_one
    MaxCrashes = 1
PROPERTIES PingEnds HandledUnlessRing
CHECK_DEADLOCK FALSE
