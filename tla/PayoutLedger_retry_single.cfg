\* A single-candidate send retried after a recorded failure.
SPECIFICATION Spec
CONSTANTS
  None = None
  Candidate = {c1}
  Wallet = {w1}
  AutoWorker = {}
  OnceWorker = {o1}
  Recorder = {}
  AmountOf <- DistinctAmounts
  MaxAttempts = 3
  MaxSends = 1
  MaxCrashes = 1
  TimelyWallet = TRUE
  HonestCli = TRUE
PROPERTIES OpenIntentBlocks
CHECK_DEADLOCK FALSE
