SPECIFICATION FairSpec
CONSTANTS
  MaxSet = 3
  MaxActive = 1
INVARIANTS StartedProcessesAgree CleanExitDrains
PROPERTY ShutdownCompletes
