\* One proof of work, sent in two forms or for two jobs of its template.
SPECIFICATION Spec
CONSTANTS
  Session = {s1}
  Nonce = {1}
  Form = {f1, f2}
  Level = {1, 2}
  Initial = 1
  Password = {}
  JobTtl = 2
  JobCacheSize = 8
  DupWindow = 2
  DupCacheSize = 8
  PowMayFail = FALSE
  MaxTips = 2
  MaxTemplates = 3
  MaxSynthetic = 0
  MaxRetargets = 1
  MaxCredited = 2
  MaxTime = 2

INVARIANTS WorkCreditedOnce
