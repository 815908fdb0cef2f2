\* A payment recorded by hand after an aggregated send.
SPECIFICATION Spec
CONSTANTS
  None = None
  Candidate = {c1}
  Wallet = {w1}
  AutoWorker = {a1}
  OnceWorker = {}
  Recorder = {r1}
  AmountOf <- DistinctAmounts
  MaxAttempts = 1
  MaxSends = 1
  MaxCrashes = 0
  TimelyWallet = TRUE
  HonestCli = TRUE
INVARIANTS NotRecordedTwice
