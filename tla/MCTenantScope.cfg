\* Two requests of any kind on a pool of one connection.
SPECIFICATION FairSpec
CONSTANTS
  Requests = {r1, r2}
  Conns = {c1}
  t1 = t1
  t2 = t2
  p1 = p1
  p2 = p2
  p3 = p3
  s1 = s1
  Props = {p1, p2, p3}
  TenantOf <- TwoTenants
  Staff = {s1}
  SeatOf <- SeatAtFirst
  Assigned <- OneOfTwo
  MaxRuns = 1
  None = none
CHECK_DEADLOCK FALSE
INVARIANTS
  ReachesItsOwnRows
  PoolIsClean
PROPERTIES
  EveryRequestEnds
