SPECIFICATION FairSpec
CONSTANTS
    c1 = c1
    c2 = c2
    Clients = {c1, c2}
    NoOne = NoOne
    MaxClients = 2
    MaxIds = 3
    MaxRequests = 1
    MaxEvents = 1
    Side = 3
SYMMETRY Symmetry
INVARIANTS GTypeOK MutexCovers OneConversation BoardMatchesList
 
CHECK_DEADLOCK FALSE
