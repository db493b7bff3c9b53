CONSTANTS
  Packets = {p1, p2}
  Oversized = {p2}
  Junk = Junk
  GHST_NM_RCV = 4
  GHST_MIN_PACKETSIZE = 1
  GHST_RX_BUFFSIZE = 2
  NB_PKT_MAX = 2
SPECIFICATION FairSpec
INVARIANTS
  TypeOK
  NoSharedSlot
  UnreadIntact
PROPERTIES
  RefinesFifo
  EveryPacketFetched
\* What follows an overrun is not described.
CHECK_DEADLOCK FALSE
