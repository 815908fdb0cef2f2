\* The hourly auto run alone on its ledger, crashing, timing out and restarting; the
\* candidates of the wallet are of equal reward.
SPECIFICATION FairSpec
CONSTANTS
  None = None
  Candidate = {c1, c2}
  Wallet = {w1}
  AutoWorker = {a1}
  OnceWorker = {}
  Recorder = {}
  AmountOf <- EqualRewards
  MaxAttempts = 2
  MaxSends = 1
  MaxCrashes = 2
  TimelyWallet = TRUE
  HonestCli = TRUE
INVARIANTS TypeOK AtMostOnce SettledByMatchingTx
PROPERTIES OpenIntentBlocks PaysOnce EventuallyRecorded IntentsResolve
