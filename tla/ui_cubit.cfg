\* One session, two pulls, and a call that times out or a service that restarts at
\* any step.
SPECIFICATION FairSpec
CONSTANTS
  p1 = p1  p2 = p2
  Pull = {p1, p2}
  None = None  Error = Error
  MaxStarts = 1
  MaxFaults = 1
INVARIANTS TypeOK
PROPERTIES StaleGoes ShownSessionEnds TimerSummaryShown
\* The user may do nothing, and the bounds end the starts.
CHECK_DEADLOCK FALSE
