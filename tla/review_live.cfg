SPECIFICATION FairSpec
CONSTANTS
  r1 = r1
  r2 = r2
  u1 = u1
  j1 = j1
  Nobody = Nobody
  Reviews <- TwoReviews
  Directs <- None
  Jobs <- OneJob
  Faults <- PromptFaults
  Roles = {TRUE, FALSE}
INVARIANTS ClaimExclusive AtMostOneMessage
PROPERTIES DecisionIsFinal PendingIsResolvable EveryReviewEnds
CHECK_DEADLOCK FALSE
