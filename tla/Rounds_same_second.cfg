SPECIFICATION Spec
CONSTANTS
  Tracker = {"timer"}
  SubmitTime <- TwoInASecond
  Finder = {1, 2, 3}
  Counted = {1, 2, 3}
  Start = 1
  MaxShareLines = 10
  Timely = TRUE
  MaxShares = 3
  MaxFlying = 2
  MaxFaults = 0
INVARIANT VerifiedToTheSecond
