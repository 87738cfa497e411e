\* Every move ends and rollouts are accepted again.
SPECIFICATION FairSpec
CONSTANTS
  Requests = {r1, r2}
  Rollouts = {j1}
  Moves = {m1, m2}
  Rows = {}
  Uncounted = {}
  Nightly = {}
  Databases = {bundled, other}
  Bundled = bundled
  Views = {"rollout", "move", "cancel"}
  Faults = {"crash", "undo"}
PROPERTIES
  MoveEnds
  RolloutsResume
CHECK_DEADLOCK FALSE
