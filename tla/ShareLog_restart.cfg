\* One restart after a snapshot taken while shares were queued.
SPECIFICATION Spec
CONSTANTS
  Window = 1
  QueueSize = 4
  BatchSize = 2
  RotateAt = 2
  Retention = 2
  MaxShares = 3
  MaxTime = 2
  MaxRestarts = 1
  MaxFaults = 0
INVARIANTS LifetimeKept
