SPECIFICATION FairMonitorSpec
CONSTANTS
  MaxBacklog = 5
  WarningLevel = 60
  MaxRestarts = 1
INVARIANTS
  TypeOK
  DrainAnnouncedOnce
PROPERTIES
  MonitorConverges
