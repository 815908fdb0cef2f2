\* Two auto runs on one ledger.
SPECIFICATION Spec
CONSTANTS
  None = None
  Candidate = {c1}
  Wallet = {w1}
  AutoWorker = {a1, a2}
  OnceWorker = {}
  Recorder = {}
  AmountOf <- DistinctAmounts
  MaxAttempts = 2
  MaxSends = 1
  MaxCrashes = 1
  TimelyWallet = TRUE
  HonestCli = TRUE
INVARIANTS AtMostOnce
