\* Two sessions one after the other, with no fault at all.
SPECIFICATION FairSpec
CONSTANTS
  p1 = p1  p2 = p2
  Pull = {p1}
  None = None  Error = Error
  MaxStarts = 2
  MaxFaults = 0
PROPERTIES TimerEnds
\* The user may do nothing, and the bounds end the starts.
CHECK_DEADLOCK FALSE
