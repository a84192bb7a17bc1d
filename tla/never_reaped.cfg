\* A reap that ends while a start is in progress disarms the watchdog.
SPECIFICATION FairSpec
CONSTANTS
  c1 = c1  c2 = c2  study = study  detox = detox  site1 = site1  site2 = site2
  None = None
  Client = {c1}
  Profile = {study}
  Site = {site1}
  Owner <- OneRule
  Duration = {1}
  Commands = {"StartSession", "GetSession"}
  Watched = TRUE
  HostsMayFail = FALSE
  Overlap = TRUE
  MaxLive = 2
  MaxLaunch = 1
  MaxStops = 0
PROPERTIES UnblockedWithoutUi
\* The UI may never come back, and the bounds end the launches and the starts.
CHECK_DEADLOCK FALSE
