SPECIFICATION Spec
CONSTANTS
  q1 = q1
  q2 = q2
  q3 = q3
  o1 = o1
  o2 = o2
  o3 = o3
  p1 = p1
  p2 = p2
  s1 = s1
  l1 = l1
  Nobody = Nobody
  Requests <- TwoRequests
  Orders = {o1, o2}
  Products = {p1}
  Supplies = {s1}
  Leads = {l1}
  Items <- OneEach
  Client <- SameClient
  Recipe <- FirstOnly
  Stock0 <- StockThree
  Supply0 <- SupplyThree
  Minimum <- MinimumOne
  Kitchen = TRUE
  Inventory = FALSE
  Faults <- NoFaults
SYMMETRY RequestSymmetry
INVARIANTS SalesOncePerOrder
CHECK_DEADLOCK FALSE
