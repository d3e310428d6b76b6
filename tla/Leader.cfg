SPECIFICATION Spec
CONSTANTS
  Replicas = {r1, r2}
  LeaseDuration = 4
  RenewDeadline = 1
  Slow = 1
  Fast = 2
  ShutdownGracePeriod = 2
  MaxTry = 0
  ExitDelay = 0
  MaxTime = 3
  MaxWrites = 2
SYMMETRY MCSymmetry
INVARIANT TypeOK
INVARIANT MutualExclusion
