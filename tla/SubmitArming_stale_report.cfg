\* The disarm of a drill fails before the armed process has written a snapshot.
SPECIFICATION Spec
CONSTANTS
  Tool <- OneShell
  Kinds = {"drill"}
  MaxRuns = 2
  MaxCandidates = 2
  MaxDeaths = 0
  MaxFailures = 1
  MaxKills = 0
PROPERTIES ExitTells
CHECK_DEADLOCK FALSE
