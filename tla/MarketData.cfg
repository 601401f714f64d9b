\* Two threads, three collections of two stocks.
SPECIFICATION Spec
CONSTANTS
  Workers = {w1, w2}
  Tickers = {t1, t2}
  LastDay = 2
  Frames <- MCFrames
  MaxRuns = 3
  NoRow = NoRow
  NoFrame = NoFrame
  NoRequest = NoRequest
  Console = Console
SYMMETRY MCSymmetry
INVARIANTS
  TypeOK
  StreamsAreRestored
  InsertedOnce
  RowsNameTheirRun
  ClientsAreToldTheTruth
  NobodyWaitsInACircle
PROPERTIES
  ImplementsPriceStore
\* No further collection is asked for.
CHECK_DEADLOCK FALSE
