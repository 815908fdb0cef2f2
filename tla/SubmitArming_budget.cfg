\* The process dies while it is armed: its new budget is a second block.
SPECIFICATION Spec
CONSTANTS
  Tool <- OneShell
  Kinds = {"arm-watch"}
  MaxRuns = 2
  MaxCandidates = 2
  MaxDeaths = 1
  MaxFailures = 0
  MaxKills = 0
INVARIANTS OnePerArming
CHECK_DEADLOCK FALSE
