SPECIFICATION FairSpec
CONSTANTS
  DiskIds = {"d1", "d2"}
  Claims <- MCClaims
  Giga = 2
  MinSizeTable <- MCMinSizeTable
  RetryCount = 2
  Threshold = 2
  Faults <- MCFaults
  Failures = 3
INVARIANT TypeOK
INVARIANT CapacityServed
INVARIANT EveryDiskOwned
INVARIANT VolumeHasDisk
PROPERTY Provisioned
PROPERTY Reclaimed
CHECK_DEADLOCK FALSE
