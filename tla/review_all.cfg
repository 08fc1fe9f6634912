SPECIFICATION Spec
CONSTANTS
  r1 = r1
  r2 = r2
  u1 = u1
  j1 = j1
  Nobody = Nobody
  Reviews <- TwoReviews
  Directs <- OneDirect
  Jobs <- None
  Faults <- AllFaults
  Roles = {FALSE}
SYMMETRY RequestSymmetry
INVARIANTS TypeOK ApprovalFollowsDelivery
PROPERTIES NoSendAfterFinal
CHECK_DEADLOCK FALSE
