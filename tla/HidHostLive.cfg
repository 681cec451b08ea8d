SPECIFICATION FairSpec
CONSTANTS
  Addrs = {1, 2, 3}
  NSlots = 2
  Kinds = {"keyboard", "mouse", "odd_mouse"}
  Restless = TRUE
PROPERTY
  ReportsRead
