SPECIFICATION CliSpec
PROPERTIES ResumeReplaysAll
CONSTANTS
  r1 = r1
  Requests = {r1, r2}
  Approvals = {a1}
  NoId = NoId
  PageSize = 4
  MaxAsks = 1
  TaskOf <- MCReplay
  MaxFaults = 0
  MaxBrowser = 0
CHECK_DEADLOCK FALSE
