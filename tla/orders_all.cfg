SPECIFICATION Spec
CONSTANTS
  q1 = q1
  q2 = q2
  q3 = q3
  o1 = o1
  o2 = o2
  o3 = o3
  p1 = p1
  p2 = p2
  s1 = s1
  l1 = l1
  Nobody = Nobody
  Requests <- ThreeRequests
  Orders = {o1, o2, o3}
  Products = {p1, p2}
  Supplies = {s1}
  Leads = {l1}
  Items <- Shared
  Client <- OneAnonymous
  Recipe <- SharedSupply
  Stock0 <- StockTwo
  Supply0 <- SupplyThree
  Minimum <- MinimumOne
  Kitchen = TRUE
  Inventory = TRUE
  Faults <- AllFaults
SYMMETRY RequestSymmetry
INVARIANTS TypeOK StockNotUnderstated LowStockAlerted
PROPERTIES ImplementsLedger
CHECK_DEADLOCK FALSE
