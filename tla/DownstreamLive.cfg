CONSTANTS
  Servers = {s1}
  Tokens = {t1, t2}
  autoquit_threshold = 2
  MayFallSilent = {s1}
  Wrap = 1
  MaxPulls = 1
  MaxResps = 1
SPECIFICATION FairSpec
CHECK_DEADLOCK FALSE
INVARIANTS
  AutoquitJustified
PROPERTIES
  SilenceIsNoticed
  ResponseIsSent
