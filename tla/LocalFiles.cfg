CONSTANTS
  close_time_ms <- MCCloseTime
  Files <- MCFiles
  Starts <- MCStarts
  Ends <- MCEnds
  NoBound = NoBound
  MaxProbes = 4
  CacheProc = {c1, c2}
  Segments <- MCSegments
  Ranges <- MCRanges
  MaxCacheCalls = 4
  NoFile = NoFile
  Torn = Torn
  Hole = Hole
  FootProc = {f1, f2}
  Trades <- MCTrades
  TradeTime <- MCTradeTime
  DayMs = 4
  BarMs = 2
  FootQueries <- MCFootQueries
  MaxFootCalls = 3
  NoManifest = NoManifest
  ArchProc = {a1, a2}
  Archives <- MCArchives
  NotPublished = NotPublished
  BarLength = 2
  DayLength = 4
  DaysPerMonth = 2
  ArchiveRanges <- MCArchiveRanges
  RestBars <- MCRestBars
  MaxMonths = 1
  MaxDays = 1
  MaxArchCalls = 2
  OfflineRows <- MCOfflineRows
  MaxRows = 4
  OfflineQueries <- MCOfflineQueries
SPECIFICATION Spec
SYMMETRY Symmetry
CHECK_DEADLOCK FALSE
INVARIANTS
  SeekNeverSkips
  CacheReadsAreWhole
  RawReadsNeverFail
  FetchedFootprintsAreWhole
  ShortfallHasACause
  OfflineMatchesReference
