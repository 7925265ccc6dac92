SPECIFICATION FairCliSpec
INVARIANTS CliTypeOK RowMatchesLog OneTurnPerRequest DecidedOnceWhileWaiting DoneSawItsTurn AcknowledgedDecisionCounts
CONSTANTS
  r1 = r1
  Requests = {r1, r2}
  Approvals = {a1, a2}
  NoId = NoId
  PageSize = 4
  MaxAsks = 1
  TaskOf <- MCReplay
  MaxFaults = 1
  MaxBrowser = 1
CHECK_DEADLOCK FALSE
PROPERTIES CliEnds
