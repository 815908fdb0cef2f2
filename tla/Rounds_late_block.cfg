SPECIFICATION Spec
CONSTANTS
  Tracker = {"timer"}
  SubmitTime <- EachSecond
  Finder = {1, 2, 3}
  Counted = {1, 2, 3}
  Start = 1
  MaxShareLines = 10
  Timely = FALSE
  MaxShares = 3
  MaxFlying = 1
  MaxFaults = 0
INVARIANT PaidOnce
