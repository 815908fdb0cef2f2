\* A queue of two, where waiting clients overtake each other; a rotated file kept, two
\* restarts, a failed append.
SPECIFICATION FairSpec
CONSTANTS
  Window = 2
  QueueSize = 2
  BatchSize = 2
  RotateAt = 2
  Retention = 1
  MaxShares = 4
  MaxTime = 2
  MaxRestarts = 2
  MaxFaults = 1
INVARIANTS TypeOK MissedWereInFlight WindowsComplete NeverTwice TotalIsWindow
PROPERTIES EventuallyCounted
