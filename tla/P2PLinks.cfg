SPECIFICATION Spec
CONSTANTS
    a = a
    b = b
    d = d
    Servers = {a, b}
    Dead = {d}
    Known <- Known_one
    Desired <- Desired_one
    Console = {b}
    Commands = {"find", "lactive"}
    ErrorCheck = TRUE
    K <- K_two
    MaxCrashes = 1
INVARIANTS TypeOK MutexHeldToRead ListedIsPinged AnswersMatch
