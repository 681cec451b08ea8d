SPECIFICATION FairSpec
CONSTANTS
  Addrs = {1}
  NSlots = 2
  Kinds = {"combo"}
  Restless = FALSE
PROPERTY
  ReportsRead
