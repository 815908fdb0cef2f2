\* One miner, blocks payable in order, one of them not the pool's; every selected send is made in
\* its own run.
SPECIFICATION Spec
CONSTANTS
  w1 = w1
  w2 = w2
  Wallet = {w1}
  N = 7
  Base <- LoneMiner
  MinPayout = 3
  Run = {"auto"}
  InOrder = TRUE
  Foreign = {4}
  HeightGaps = TRUE
  MaxUnread = 0
  MaxRefreshes = 0
  MaxRefusals = 0
  MaxTimeouts = 0
  MaxCrashes = 2
INVARIANTS PaidInFull
