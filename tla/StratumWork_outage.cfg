\* The daemon does not answer for as long as a job lives.
SPECIFICATION Spec
CONSTANTS
  Session = {s1}
  Nonce = {1}
  Form = {f1}
  Level = {1, 2}
  Initial = 1
  Password = {2}
  JobTtl = 2
  JobCacheSize = 8
  DupWindow = 2
  DupCacheSize = 8
  PowMayFail = FALSE
  MaxTips = 2
  MaxTemplates = 3
  MaxSynthetic = 0
  MaxRetargets = 0
  MaxCredited = 1
  MaxTime = 2

INVARIANTS MinerServed
