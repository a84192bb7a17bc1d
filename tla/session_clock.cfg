\* Three sessions, a clock of three ticks to the second, polls at any time.
SPECIFICATION TimedSpec
CONSTANTS
  study = study  detox = detox
  None = None
  Profile = {study, detox}
  Duration = {0, 2}
  Started = {1, 2}
  Unit = 3
  Timeout = 2
  MinGap = 0
  MaxGap = 4
  MaxRan = 9
  MaxRefreshes = 3
  MaxKills = 1
INVARIANTS ClockOK LagIsBounded
PROPERTIES RefinesFocusSession NeverEndsEarly BeatingIsSafe
\* The bounds end a session that is not ended.
CHECK_DEADLOCK FALSE
