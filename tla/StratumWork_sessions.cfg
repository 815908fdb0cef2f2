\* A connection of fixed or changing difficulty; rollovers, a retarget, failed fetches, expiry.
SPECIFICATION FairSpec
CONSTANTS
  Session = {s1}
  Nonce = {1}
  Form = {f1, f2}
  Level = {1, 2}
  Initial = 1
  Password = {2}
  JobTtl = 2
  JobCacheSize = 3
  DupWindow = 2
  DupCacheSize = 8
  PowMayFail = FALSE
  MaxTips = 2
  MaxTemplates = 2
  MaxSynthetic = 0
  MaxRetargets = 1
  MaxCredited = 3
  MaxTime = 2
INVARIANTS TypeOK CreditedOnce MinerInStep

PROPERTIES EventuallyOnTip
