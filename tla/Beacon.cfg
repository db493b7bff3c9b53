CONSTANTS
  Servers = {s1}
  beacon_period = 2
  beacon_offset = 0
  GPS_REF_MAX_AGE = 1
  XERR_INIT_AVG = 2
  MaxTime = 6
SPECIFICATION FairSpec
INVARIANTS
  TypeOK
  AverageSound
  BeaconSecondsBounded
  OneBeaconPerRequest
PROPERTIES
  CorrectionRecovers
