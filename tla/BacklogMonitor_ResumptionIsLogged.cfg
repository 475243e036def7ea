SPECIFICATION MonitorSpec
CONSTANTS
  MaxBacklog = 5
  WarningLevel = 60
  MaxRestarts = 1
INVARIANTS
  ResumptionIsLogged
