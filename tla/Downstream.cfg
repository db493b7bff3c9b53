CONSTANTS
  Servers = {s1, s2}
  Tokens = {t1}
  autoquit_threshold = 0
  MayFallSilent = {}
  Wrap = 2
  MaxPulls = 1
  MaxResps = 2
SPECIFICATION Spec
CHECK_DEADLOCK FALSE
SYMMETRY ServerSymmetry
INVARIANTS
  TxAccounted
