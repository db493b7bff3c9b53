SPECIFICATION Spec
CONSTANTS
  NB_PKT_MAX = 2
  STATUS_SIZE = 328
  PAYLOAD_SIZE = 4
  Summer <- MCNoSummer
  Configurations <- MCUpOnly
  Packets <- MCLongPackets
  Datagrams <- MCNothing
  Payloads <- MCPayloads
  Words <- MCWords
INVARIANT EveryPayloadFits
\* The process may exit.
CHECK_DEADLOCK FALSE
