SPECIFICATION FairSpec
CONSTANTS
  NoIndex = NoIndex  Unknown = Unknown
  c1 = c1  c2 = c2  c3 = c3  d1 = d1  d2 = d2  d3 = d3  q1 = q1
  Node = {c1, c2}
  Doc = {d1}
  Query = {}
  SockBuf = 0
PROPERTY RegistrationCompletes
\* No connection has to arrive, and a server that died takes no step.
CHECK_DEADLOCK FALSE
