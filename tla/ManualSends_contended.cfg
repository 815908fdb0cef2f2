\* Two operators with send-once, a recorder, two recovery batches and a backfill
\* on one ledger.
SPECIFICATION ManualSpec
CONSTANTS
  o1 = o1
  o2 = o2
  r1 = r1
  h1 = h1
  h2 = h2
  b1 = b1
  c1 = c1
  w1 = w1
  s1 = s1
  None = None
  Candidate = {c1}
  Wallet = {w1}
  AutoWorker = {}
  OnceWorker = {o1, o2}
  Recorder = {r1}
  AmountOf <- EqualRewards
  MaxAttempts = 2
  MaxSends = 1
  MaxCrashes = 1
  TimelyWallet = TRUE
  HonestCli = TRUE
  Recovery = {h1, h2}
  Backfill = {b1}
  Source = {s1}
  Shares = 2
  MaxBatches = 2
  MaxListings = 1
INVARIANTS WriteAhead OneSenderAtATime
PROPERTIES NothingSentAgain
SYMMETRY Alike
\* Operators' tools end for good once the bounds are met.
CHECK_DEADLOCK FALSE
