\* Every kind of fault, one in a behaviour; a stop; a restart.
SPECIFICATION Spec
CONSTANTS
  j1 = j1
  j2 = j2
  j3 = j3
  t1 = t1
  t2 = t2
  NoJob = NoJob
  Jobs = {j1, j2}
  Targets = {t1, t2}
  TargetsOf <- MCTargetsOf
  MaxConcurrent = 1
  Requests = {"stop"}
  Faults = {"outage", "reply_lost", "postgres", "log", "thread", "slow", "crash"}
  MaxFaults = 1
  MaxRestarts = 1
INVARIANTS
  HoldsMatchTable
  CountersAccounted
CHECK_DEADLOCK FALSE
