CONSTANTS
  Proc = {p1, p2}
  Home <- TwoProcesses
  Times = {0, 1, 2, 3}
  Values = {1}
  Transports = {"ws", "rest", "archive"}
  Receipts = {1}
  OpenBars <- MCForming
  ClosedBars <- MCStreamed
  Queries <- MCQueries
  Ratio = 2
  Cutoff = 1
  Gaps = {}
  LastNow = 4
  MaxCalls = 2
  MaxFails = 1
  Nil = Nil
SPECIFICATION MSpec
CHECK_DEADLOCK FALSE
SYMMETRY Symmetry
INVARIANTS
  AnswersAreComplete
  OnlyClosedAreFinal
  FlightIsReleased
PROPERTY NoCandleLost
