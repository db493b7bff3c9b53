CONSTANTS
  Servers = {s1, s2}
  Enabled = {s1, s2}
SPECIFICATION FairRegistrySpec
CHECK_DEADLOCK FALSE
INVARIANTS
  UsedIsConnected
PROPERTIES
  WaitersAreReleased
