SPECIFICATION PoolSpec
CONSTANTS
  None = None
  r1 = r1  r2 = r2  r3 = r3
  c1 = c1  c2 = c2  c3 = c3
  Req = {r1, r2, r3}
  Regs = {c1, c2, c3}
  Addr <- AddrThreeNodes
  MaxTerms = 3
  MaxStale = 2
INVARIANTS TypeOK NodeHeldOnce CountersMatchList PermitsBacked WalkStaysInList
PROPERTY RequestsFinish
\* The server is idle when no one connects, and stops in an undefined state.
CHECK_DEADLOCK FALSE
