CONSTANTS
  Proc = {p1, p2}
  Times = {1, 2}
  Values = {1, 2}
  Transports = {"ws", "rest"}
  Receipts = {1}
  OpenBars <- MCOpenBars
  ClosedBars <- MCClosedBars
  MaxCalls = 2
  MaxFails = 0
  Nil = Nil
SPECIFICATION Spec
CHECK_DEADLOCK FALSE
INVARIANT CommitClearsOpenRow
