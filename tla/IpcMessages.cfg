CONSTANTS
  Senders = {"s1", "s2"}
  Receivers = {"r1"}
  MSGSIZ = 3
  PRIOR = 3
  QBYTES = 2
  Lengths = {0, 2, 3}
  Priorities <- MCPriorities
SPECIFICATION FairSpec
PROPERTIES InOrder Delivered
