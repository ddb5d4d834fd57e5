CONSTANTS
  Proc = {sup, p1}
  Sup = sup
  Times = {1, 2, 3}
  Values = {1, 2}
  Transports = {"ws", "rest"}
  Receipts = {1}
  OpenBars <- MCOpenBars
  ClosedBars <- MCClosedBars
  MaxCalls = 3
  MaxFails = 1
  Streams <- MCStreams
  Backfill <- MCBackfill
  reconnect_after = 1
  QueueSizes <- MCQueueSizes
  Nil = Nil
SPECIFICATION SFairSpec
CHECK_DEADLOCK FALSE
INVARIANTS
  EveryUpdateAccounted
  QueueBounded
  ClosedUpdatesReachStore
  CheckpointIsCommitted
  RedeliveryClearsOpenRow
  ReconnectsAreCounted
PROPERTIES
  FinalIsForever
  RunEnds
