CONSTANTS
  NumServers = 2
  Packets <- SomeKinds
  NB_PKT_MAX = 1
  FwdStatus = {"ok", "bad"}
  Ghosts = TRUE
  MaxPackets = 1
  MaxReports = 2
SPECIFICATION FairSpec
CHECK_DEADLOCK FALSE
INVARIANTS
  CountersConserved
  RatiosSound
  NoReportDropped
PROPERTIES
  ReportGetsSent


