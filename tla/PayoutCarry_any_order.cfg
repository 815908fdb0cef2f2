\* Blocks payable in any order, a refresh beside the auto run, a coinbase that cannot be read once,
\* sends put off, a lost answer, a crash.
SPECIFICATION FairSpec
CONSTANTS
  w1 = w1
  w2 = w2
  Wallet = {w1, w2}
  N = 2
  Base <- MixedRound
  MinPayout = 3
  Run = {"auto", "refresh"}
  InOrder = FALSE
  Foreign = {}
  HeightGaps = TRUE
  MaxUnread = 1
  MaxRefreshes = 1
  MaxRefusals = 1
  MaxTimeouts = 1
  MaxCrashes = 1
INVARIANTS TypeOK SourcesOnce SourcesHonoured
PROPERTIES EventuallyPaid
