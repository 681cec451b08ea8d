SPECIFICATION Spec
CONSTANTS
  Addrs = {1, 2, 3}
  NSlots = 4
  Kinds = {"combo", "odd_mouse", "stick", "receiver"}
  Restless = FALSE
INVARIANTS
  CountsMatch
  DestLive
  TablesAgree
  NothingLeft
  PortsHeld
