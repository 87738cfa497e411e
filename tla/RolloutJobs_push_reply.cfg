\* The answer to the RPUSH is lost.
SPECIFICATION Spec
CONSTANTS
  j1 = j1
  j2 = j2
  j3 = j3
  t1 = t1
  t2 = t2
  NoJob = NoJob
  Jobs = {j1, j2}
  Targets = {t1, t2}
  TargetsOf <- MCTargetsOf
  MaxConcurrent = 2
  Requests = {}
  Faults = {"reply_lost"}
  MaxFaults = 1
  MaxRestarts = 0
INVARIANTS
  OnePushPerDevice
CHECK_DEADLOCK FALSE
