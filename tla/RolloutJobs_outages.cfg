\* Rollouts that share a device, a slot for each; cancels, pauses; Redis, Postgres or the process fails.
SPECIFICATION Spec
CONSTANTS
  j1 = j1
  j2 = j2
  j3 = j3
  t1 = t1
  t2 = t2
  NoJob = NoJob
  Jobs = {j1, j2}
  Targets = {t1, t2}
  TargetsOf <- MCTargetsOf
  MaxConcurrent = 2
  Requests = {"cancel", "pause"}
  Faults = {"outage", "postgres", "crash"}
  MaxFaults = 1
  MaxRestarts = 1
INVARIANTS
  FailedSubmitNeverRuns
  RecordedOnce
  OnePushPerDevice
PROPERTIES
  IdleStaysQuiet
  ImplementsDeviceHolds
CHECK_DEADLOCK FALSE
