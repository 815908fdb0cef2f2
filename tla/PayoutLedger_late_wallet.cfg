\* The daemon executes a request after the CLI timed out.
SPECIFICATION Spec
CONSTANTS
  None = None
  Candidate = {c1}
  Wallet = {w1}
  AutoWorker = {a1}
  OnceWorker = {}
  Recorder = {}
  AmountOf <- DistinctAmounts
  MaxAttempts = 2
  MaxSends = 1
  MaxCrashes = 0
  TimelyWallet = FALSE
  HonestCli = TRUE
INVARIANTS ClearedMeansUnsent
