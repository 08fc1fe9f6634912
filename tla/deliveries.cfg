SPECIFICATION Spec
CONSTANTS
  t1 = t1
  t2 = t2
  d1 = d1
  d2 = d2
  NoOne = NoOne
  Orders = {o1, o2}
  Drivers = {d1, d2}
  Tomos = {t1, t2}
  DriverOf <- Writers
  Moves = {v1, v2}
  MaxMoves = 2
  Bound = FALSE
  MaxFaults = 1
INVARIANTS TypeOK AcceptedClaimStands ToldOnce
CHECK_DEADLOCK FALSE
