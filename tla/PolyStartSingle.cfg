SPECIFICATION MainSpec
CONSTANTS
  MAX_SERVERS = 2
  MNTR_SYS_MAX = 2
  LGW_MULTI_NB = 2
  LGW_RF_CHAIN_NB = 2
  TX_GAIN_LUT_SIZE_MAX = 2
  TooLong <- MCTooLong
  Starred <- MCStarred
  Pids = {1, 2, 3}
  Directories <- MCSingle
  Actions <- MCActions
INVARIANT EveryServerPolled
\* The program may exit.
CHECK_DEADLOCK FALSE
