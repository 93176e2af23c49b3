SPECIFICATION FairSpec
CONSTANTS
  None = None
  Broken = Broken
  Yaml = Yaml
  Reaper = Reaper
  Term = Term
  Sessions = {s1, s2}
  Records = {rA, rB}
  Admins = {}
  Webhooks = {w1}
  MaxEdits = 0
  MaxExits = 0
PROPERTIES
  ErroredReplaced
CHECK_DEADLOCK FALSE
