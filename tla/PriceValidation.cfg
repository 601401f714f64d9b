\* Every frame of up to three rows.
SPECIFICATION Spec
CONSTANTS
  Rows <- MCRows
  MaxRows = 3
  From = 1
  To = 3
INVARIANTS
  LoopKeepsFirstSoundRows
  EveryRowAccountedFor
  KeptRowsAreSound
  SummaryTellsLoss
\* The loop ends.
CHECK_DEADLOCK FALSE
