\* A send that times out, or whose sender dies, leaves no line: it is paid again (violated).
SPECIFICATION ManualSpec
CONSTANTS
  o1 = o1
  o2 = o2
  r1 = r1
  h1 = h1
  h2 = h2
  b1 = b1
  c1 = c1
  w1 = w1
  s1 = s1
  None = None
  Candidate = {c1}
  Wallet = {w1}
  AutoWorker = {}
  OnceWorker = {}
  Recorder = {}
  AmountOf <- EqualRewards
  MaxAttempts = 2
  MaxSends = 1
  MaxCrashes = 1
  TimelyWallet = TRUE
  HonestCli = TRUE
  Recovery = {h1}
  Backfill = {b1}
  Source = {s1}
  Shares = 2
  MaxBatches = 2
  MaxListings = 1
INVARIANTS HandPaysOnce
CHECK_DEADLOCK FALSE
