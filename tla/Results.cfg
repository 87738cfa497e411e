CONSTANTS
  Off = Off
  d1 = d1
  d2 = d2
  d3 = d3
  Vocabulary <- MCVocabulary
  Befores <- MCBefores
  Strangers <- MCStrangers
  Abbreviations <- MCAbbreviations
  Hyphened <- MCHyphened
  Sections <- MCSections
  Globals <- MCGlobals
  Default <- MCDefault
  Devices = {d1, d2, d3}
  Jobs <- MCJobs
  Reviewers = {v1, v2}
  MaxCommands = 3
  Launches = {1, 2, 3}
  PlatformsOf <- MCPlatformsOf
  TargetsOf <- MCTargetsOf
  MaxFaults = 2
  Keys = {1, 2, 3}
  KeyType <- MCKeyType
  Runs = {r1, r2}
  MaxSessions = 2
  MaxAttempts = 4
  Scripts = {s1}
  Scheduler = sched
  k1 = k1
  k2 = k2
  AppKeys = {k1, k2}
  AppKey = k1
  Elsewhere <- MCElsewhere
  Period = 2
  RetryAfter = 1
  Keep = 1
  MaxTime = 3
  MaxKills = 1
  MaxErrors = 1
  MaxWorks = 3
SPECIFICATION Spec
INVARIANTS EvidenceSafe ReviewsSafe LaunchSafe BackupsSafe
PROPERTIES HostKeysSafe
CHECK_DEADLOCK FALSE
SYMMETRY Symmetry
