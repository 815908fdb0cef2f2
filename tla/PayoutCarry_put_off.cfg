\* One send put off to the next run (violated).
SPECIFICATION Spec
CONSTANTS
  w1 = w1
  w2 = w2
  Wallet = {w1}
  N = 3
  Base <- LoneMiner
  MinPayout = 2
  Run = {"auto"}
  InOrder = TRUE
  Foreign = {}
  HeightGaps = FALSE
  MaxUnread = 0
  MaxRefreshes = 0
  MaxRefusals = 1
  MaxTimeouts = 0
  MaxCrashes = 0
INVARIANTS Conserved
