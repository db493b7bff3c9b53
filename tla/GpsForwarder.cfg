CONSTANTS
  NB_PKT_MAX = 1
  autoquit_threshold = 1
SPECIFICATION Spec
CHECK_DEADLOCK FALSE
INVARIANTS
  TimedByReceiver
PROPERTIES
  ImplementsBasic
