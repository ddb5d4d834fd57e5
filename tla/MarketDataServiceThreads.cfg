CONSTANTS
  Proc = {p1, p2}
  Home <- OneProcess
  Times = {0, 1, 2, 3}
  Values = {1}
  Transports = {"ws", "rest", "archive"}
  Receipts = {1}
  OpenBars = {}
  ClosedBars = {}
  Queries <- MCQueries
  Ratio = 2
  Cutoff = 1
  Gaps = {2}
  LastNow = 3
  MaxCalls = 2
  MaxFails = 1
  Nil = Nil
SPECIFICATION MFairSpec
CHECK_DEADLOCK FALSE
INVARIANT SingleFlight
PROPERTY CallsEnd
