CONSTANTS
  Proc = {sup}
  Sup = sup
  Times = {1, 2, 3}
  Values = {1, 2}
  Transports = {"ws", "rest"}
  Receipts = {1}
  OpenBars <- MCOpenBars
  ClosedBars <- MCClosedBars
  MaxCalls = 0
  MaxFails = 0
  Streams <- MCLateStreams
  Backfill <- MCBackfill
  reconnect_after = 1
  QueueSizes = {2}
  Nil = Nil
SPECIFICATION SSpec
CHECK_DEADLOCK FALSE
INVARIANT ClosedUpdatesReachStore
