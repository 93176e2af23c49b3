SPECIFICATION Spec
CONSTANTS
  None = None
  Broken = Broken
  Yaml = Yaml
  Reaper = Reaper
  Term = Term
  Sessions = {s1, s2, s3}
  Records = {rA, rB}
  Admins = {a1, a2}
  Webhooks = {w1}
  MaxEdits = 1
  MaxExits = 1
SYMMETRY Symmetry
CONSTRAINT EditsOrRequests
INVARIANTS
  TypeOK
  MappedStarted
  NeverTwoSessions
  RowAgrees
  YamlApplied
CHECK_DEADLOCK FALSE
