\* Every accepted rollout ends and a stop comes to an end, Redis outages included.
SPECIFICATION FairSpec
CONSTANTS
  j1 = j1
  j2 = j2
  j3 = j3
  t1 = t1
  t2 = t2
  NoJob = NoJob
  Jobs = {j1, j3}
  Targets = {t1, t2}
  TargetsOf <- MCTargetsOf
  MaxConcurrent = 1
  Requests = {"stop"}
  Faults = {"outage"}
  MaxFaults = 1
  MaxRestarts = 0
PROPERTIES
  AcceptedEnds
  DrainEnds
  DevicesFreed
CHECK_DEADLOCK FALSE
