CONSTANTS
  Proc = {p1}
  Home <- OneProcess
  Times = {0, 1, 2, 3, 4, 5}
  Values = {1}
  Transports = {"ws", "rest", "archive"}
  Receipts = {1}
  OpenBars = {}
  ClosedBars = {}
  Queries <- MCEndsFirst
  Ratio = 2
  Cutoff = 1
  Gaps = {}
  LastNow = 6
  MaxCalls = 4
  MaxFails = 0
  Nil = Nil
SPECIFICATION MSpec
CHECK_DEADLOCK FALSE
INVARIANT MaterializeFillsGaps
