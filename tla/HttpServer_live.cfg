CONSTANTS
  c1 = c1
  c2 = c2
  Clients = {c1, c2}
  NoOne = NoOne
  MaxClients = 1
  MaxFd = 2
  Commands = {"suspend", "resume", "reset", "halt"}
  MaxCommands = 1
  MaxKills = 0
  Interrupts = TRUE
SPECIFICATION FairSpec
PROPERTIES Served HaltEndsAll
CHECK_DEADLOCK FALSE
