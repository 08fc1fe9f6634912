SPECIFICATION FairSpec
CONSTANTS
  s1 = s1
  s2 = s2
  Nobody = Nobody
  Subs = {s1, s2}
  PlanOf <- PlanOfBought
  Providers = {"mercadopago", "stripe"}
  Requests = {r1, r2}
  Limit <- Limits
  Quotas = {5}
  MaxEvents = 3
  MaxEdits = 1
  MaxFaults = 1
  MaxClock = 1
  MaxLeads = 3
  Mixes <- Mixed
INVARIANTS TypeOK LimitsMatchPlan RecordedIsApplied PlanIsPaidFor
 
CHECK_DEADLOCK FALSE
