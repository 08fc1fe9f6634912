SPECIFICATION FairSpec
CONSTANTS
  t2 = t2
  t4 = t4
  Nobody = Nobody
  Tables = {t2, t4}
  Rank <- Ranks
  Capacity <- Capacities
  Requests = {r1, r2}
  Jobs = {j1, j2}
  Mixes <- AllMixes
  Day = 6
  Duration = 2
  Ahead = 2
  MaxBookings = 3
  MaxScans = 2
  MaxFaults = 1
INVARIANTS TypeOK TablesBookedOnce RemindedOnce
PROPERTIES EveryRequestEnds
CHECK_DEADLOCK FALSE
