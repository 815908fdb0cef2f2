\* A block that may be submitted twice; reorganisations, a failed lookup, a death.
SPECIFICATION FairSpec
CONSTANTS
  c1 = c1
  c2 = c2
  Candidate = {c1}
  Depth = 3
  Recent = 1
  Count = 3
  MaxSends = 1
  MaxReorg = 1
  Gap = 1
  MaxHeight = 3
  MaxEvents = 2
  MaxErrors = 1
  MaxDeaths = 1
INVARIANTS TypeOK NotSentAgain ConfirmedIsBuried
PROPERTY Settles
