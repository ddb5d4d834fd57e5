CONSTANTS
  Proc = {p1, p2}
  Times = {2, 3, 4}
  Duration = 2
  close_time_ms <- MCCloseTime
  Values <- MCValues
  Transports = {"ws", "rest", "archive", "canonical", "api"}
  Receipts <- MCReceipts
  OpenBars <- MCOpenBars
  ClosedBars <- MCClosedBars
  MaxCalls = 3
  MaxFails = 1
  Nil = Nil
  Queries <- MCQueries
  Cutoff = 4
  Series <- MCSeries
  Snapshots <- MCSnapshots
  Sources <- MCSources
  Exchange = "exchange"
SPECIFICATION ASpec
SYMMETRY Symmetry
CHECK_DEADLOCK FALSE
INVARIANTS
  RepairConverges
  SnapshotsServeTheStore
PROPERTIES
  RevisionsAreDeliberate
  WritesAreReported
