\* More events than a follow-up looks up.
SPECIFICATION Spec
CONSTANTS
  c1 = c1
  c2 = c2
  Candidate = {c1, c2}
  Depth = 3
  Recent = 1
  Count = 1
  MaxSends = 2
  MaxReorg = 1
  Gap = 1
  MaxHeight = 4
  MaxEvents = 2
  MaxErrors = 0
  MaxDeaths = 0
INVARIANTS ConfirmedIsBuried
