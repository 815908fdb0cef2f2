\* A plain systemd-restart beside a drill writes back the armed flag it has read.
SPECIFICATION Spec
CONSTANTS
  Tool <- TwoShells
  Kinds = {"drill", "systemd-restart"}
  MaxRuns = 2
  MaxCandidates = 2
  MaxDeaths = 0
  MaxFailures = 0
  MaxKills = 0
INVARIANTS LeftDisarmed
CHECK_DEADLOCK FALSE
