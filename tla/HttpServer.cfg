CONSTANTS
  c1 = c1
  c2 = c2
  Clients = {c1, c2}
  NoOne = NoOne
  MaxClients = 2
  MaxFd = 2
  Commands = {"suspend", "resume", "reset", "halt"}
  MaxCommands = 2
  MaxKills = 1
  Interrupts = TRUE
SYMMETRY Symmetry
SPECIFICATION Spec
INVARIANTS TypeOK RegisteredIsInTable SocketsBelong CommandReachesAll
CHECK_DEADLOCK FALSE
