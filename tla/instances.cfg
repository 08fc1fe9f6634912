SPECIFICATION Spec
CONSTANTS
  r1 = r1
  r2 = r2
  r3 = r3
  c1 = c1
  c2 = c2
  Nobody = Nobody
  Chats = {c1, c2}
  Recent = {c1}
  Requests = {r1, r2}
  Flows <- AnyFlow
  Faults = {"gateway", "db", "lead", "slow", "crash"}
  MaxFaults = 1
  MaxLeads = 2
INVARIANTS PendingIsRunning SyncedIsImported ImportedOnce
SYMMETRY Symmetry
CHECK_DEADLOCK FALSE
