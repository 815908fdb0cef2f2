\* The first block has two miners, and one of them reaches the minimum with it (violated).
SPECIFICATION Spec
CONSTANTS
  w1 = w1
  w2 = w2
  Wallet = {w1, w2}
  N = 2
  Base <- MixedRound
  MinPayout = 3
  Run = {"auto"}
  InOrder = TRUE
  Foreign = {}
  HeightGaps = FALSE
  MaxUnread = 0
  MaxRefreshes = 0
  MaxRefusals = 0
  MaxTimeouts = 0
  MaxCrashes = 0
INVARIANTS Conserved
