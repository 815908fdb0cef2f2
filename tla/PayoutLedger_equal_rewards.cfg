\* Two rewards of the same amount to the same address.
SPECIFICATION Spec
CONSTANTS
  None = None
  Candidate = {c1, c2}
  Wallet = {w1}
  AutoWorker = {a1}
  OnceWorker = {}
  Recorder = {}
  AmountOf <- EqualRewards
  MaxAttempts = 2
  MaxSends = 1
  MaxCrashes = 1
  TimelyWallet = TRUE
  HonestCli = TRUE
INVARIANTS SettledByOwnTx
