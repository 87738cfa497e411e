CONSTANTS
  d1 = d1
  d2 = d2
  Devices = {d1, d2}
  Plans <- MCPlans
  Commands = 2
  MaxWorkers = 2
  CommitChecks = 2
  Writers = {w1, w2}
  Readers = {r1}
  MaxLines = 2
SPECIFICATION FairSpec
INVARIANTS SuccessIsReal PushSafe LogSafe
PROPERTIES PartEnds
CHECK_DEADLOCK FALSE
