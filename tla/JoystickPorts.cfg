SPECIFICATION FairSpec
CONSTANTS
  Addrs = {1, 2}
  Kinds = {"stick", "pad", "xbox"}
  MaxPads = 1
INVARIANTS
  OnePortEach
PROPERTIES
  HeldStickShown
