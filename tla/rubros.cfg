SPECIFICATION FairSpec
CONSTANTS
  e1 = e1
  e2 = e2
  p1 = p1
  p2 = p2
  t1 = t1
  t2 = t2
  t3 = t3
  Nobody = Nobody
  Processes = {p1, p2}
  Editors = {e1, e2}
  KeyOf <- Keys
  Turns = {t1, t2, t3}
  Window = 2
  Mixes <- Mixed
  MaxFaults = 1
INVARIANTS TypeOK OneContentPerVersion OneAnchor
PROPERTIES EditIsServed
CHECK_DEADLOCK FALSE
