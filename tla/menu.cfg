SPECIFICATION FairMenuSpec
CONSTANTS
  a = a
  b = b
  i1 = i1
  i2 = i2
  r1 = r1
  r2 = r2
  NoCall = NoCall
  Categories <- TwoCategories
  Imports <- TwoImports
  Files <- TwoImports
  Calls <- TwoCalls
  Menus <- CrossedMenus
  Faults <- AllFaults
INVARIANTS CreatedOnce MenuIsServed
PROPERTY EveryCallEnds
CHECK_DEADLOCK FALSE
