SPECIFICATION Spec
CONSTANTS
  NB_PKT_MAX = 2
  STATUS_SIZE = 328
  PAYLOAD_SIZE = 4
  Summer <- MCSummer
  Configurations <- MCOneStream
  Packets <- MCPackets
  Datagrams <- MCDatagrams
  Payloads <- MCPayloads
  Words <- MCWords
INVARIANTS
  FitsBuffer
  DatagramWellFormed
  PayloadEncoded
  PayloadIntact
PROPERTY NothingLeftOver
\* The process may exit.
CHECK_DEADLOCK FALSE
