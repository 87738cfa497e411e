\* Two requests, a rollout, two moves one after the other, Redis switches and the nightly work in
\* between; the process may die.
SPECIFICATION Spec
CONSTANTS
  Requests = {r1, r2}
  Rollouts = {j1}
  Moves = {m1, m2}
  Rows = {x1}
  Uncounted = {u2}
  Nightly = {u2}
  Databases = {bundled, other}
  Bundled = bundled
  Views = {"rollout", "move", "redis"}
  Faults = {"crash"}
SYMMETRY Alike
INVARIANTS TypeOK CountedRowsKept NeverOntoItself FailedMoveStays
PROPERTIES ImplementsWriteGate
CHECK_DEADLOCK FALSE
