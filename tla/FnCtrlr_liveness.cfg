SPECIFICATION FairSpec
CONSTANTS
  MaxConfig = 3
  MaxEvents = 2
  Valid <- ValidConfigs
  UserOps <- NoRevert
  Faults <- FiniteFaults
INVARIANTS QuietInv QuiescentCorrect
PROPERTIES ServingIsKept Converges Released
