CONSTANTS
  Candles <- MCCandles
  Trades <- MCTrades
  Step = 2
  Cap = 2
  Requests <- MCRequests
  MaxRetries = 1
  LastNow = 11
  Nil = Nil
SPECIFICATION FairSpec
CHECK_DEADLOCK FALSE
INVARIANTS
  PTypeOK
  BarsAreComplete
  StallsAreReal
  OnlySplitMillisecondsLoseTrades
  PublicPageIsEnough
PROPERTY FetchEnds
