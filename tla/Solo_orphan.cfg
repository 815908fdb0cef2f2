\* A block leaves the chain after the lookup that found it.
SPECIFICATION Spec
CONSTANTS
  b1 = b1
  Block = {b1}
  Depth = 3
  MinConf = 4
  Recent = 1
  MaxReorg = 1
  MaxHeight = 4
  MaxErrors = 0
  MaxLosses = 0
INVARIANTS OrphansUnpaid
