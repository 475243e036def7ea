SPECIFICATION FairSpec
CONSTANTS
  Clients = {c1, c2}
  Resources = {r1}
  Costs = {2}
  DayTicks = 2
  Periods = {1}
  Every = Every
  MaxTime = 3
  MaxApprovals = 2
INVARIANTS
  ReportIsCurrent
  DrainedReportIsExact
PROPERTY ReportIsAnswered
