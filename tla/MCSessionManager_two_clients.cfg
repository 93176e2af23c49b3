SPECIFICATION Spec
CONSTANTS
  None = None
  Broken = Broken
  Yaml = Yaml
  Reaper = Reaper
  Term = Term
  Sessions = {s1, s2, s3}
  Records = {rA, rB}
  Admins = {}
  Webhooks = {}
  MaxEdits = 1
  MaxExits = 1
SYMMETRY Symmetry
INVARIANTS
  OneLiveClient
CHECK_DEADLOCK FALSE
