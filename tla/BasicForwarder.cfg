CONSTANTS
  NB_PKT_MAX = 2
  autoquit_threshold = 2
SPECIFICATION FairSpec
CHECK_DEADLOCK FALSE
INVARIANTS
  TypeOK
  ReceiveWhileStarted
  NothingAbandoned
  OneFetchAtMost
  InterruptStopsRadio
PROPERTIES
  ProgramEnds
