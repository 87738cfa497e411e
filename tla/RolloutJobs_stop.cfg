\* Two rollouts and one slot; cancels and a stop at any moment; the process dies and is started again.
SPECIFICATION Spec
CONSTANTS
  j1 = j1
  j2 = j2
  j3 = j3
  t1 = t1
  t2 = t2
  NoJob = NoJob
  Jobs = {j1, j3}
  Targets = {t1, t2}
  TargetsOf <- MCTargetsOf
  MaxConcurrent = 1
  Requests = {"cancel", "stop"}
  Faults = {"crash"}
  MaxFaults = 1
  MaxRestarts = 1
INVARIANTS
  TypeOK
  RecordedOnce
  GaugesAgree
PROPERTIES
  ExitLosesNothing
CHECK_DEADLOCK FALSE
