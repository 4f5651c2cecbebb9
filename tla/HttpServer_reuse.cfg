SPECIFICATION FairSpec
CONSTANTS
  s1 = s1
  s2 = s2
  o1 = o1
  o2 = o2
  p1 = p1
  Servers = {s1, s2}
  Operators = {o1, o2}
  Peers = {}
  Fds = {0, 1}
  MaxChunks = 2
  None = None
  Threadless = {}
PROPERTIES
  StopReturns
