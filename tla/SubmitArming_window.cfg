\* Two subcommands one after the other, two blocks, one death of the process, a failed
\* systemctl, a kill.
SPECIFICATION FairSpec
CONSTANTS
  Tool <- OneShell
  Kinds = {"arm-watch", "fresh", "drill", "watch", "disarm", "systemd-restart", "start", "stop"}
  MaxRuns = 2
  MaxCandidates = 2
  MaxDeaths = 1
  MaxFailures = 1
  MaxKills = 1
INVARIANTS TypeOK SendsBounded
PROPERTIES EventuallyDisarmed
CHECK_DEADLOCK FALSE
