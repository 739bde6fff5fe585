SPECIFICATION Spec
CONSTANTS
  MaxConfig = 3
  MaxEvents = 2
  Valid <- AllValid
  UserOps <- EditOnly
  Faults <- CrashOnly
PROPERTY IgnoredOnlyWhenRunning
