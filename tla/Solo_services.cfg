\* Two services on one file, a reorganisation, failed calls, a lost snapshot.
SPECIFICATION FairSpec
CONSTANTS
  b1 = b1
  Block = {b1}
  Depth = 3
  MinConf = 4
  Recent = 1
  MaxReorg = 1
  MaxHeight = 4
  MaxErrors = 1
  MaxLosses = 1
INVARIANTS TypeOK PaidIsBuried
PROPERTIES EventuallyPaid
