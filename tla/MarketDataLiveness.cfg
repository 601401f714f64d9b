\* Two threads that store the same two days.
SPECIFICATION FairSpec
CONSTANTS
  Workers = {w1, w2}
  Tickers = {t1}
  LastDay = 2
  Frames <- MCTwoRows
  MaxRuns = 3
  NoRow = NoRow
  NoFrame = NoFrame
  NoRequest = NoRequest
  Console = Console
PROPERTIES
  EveryCollectionAnswered
\* No further collection is asked for.
CHECK_DEADLOCK FALSE
