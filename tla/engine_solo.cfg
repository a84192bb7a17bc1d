\* The service from its start, with one request at a time, the watchdog, the
\* warm-up, and one stop and restart.
SPECIFICATION Spec
CONSTANTS
  c1 = c1  c2 = c2  study = study  detox = detox  site1 = site1  site2 = site2
  None = None
  Client = {c1}
  Profile = {study}
  Site = {site1}
  Owner <- OneRule
  Duration = {1}
  Commands = {"StartSession", "EndSession", "GetSession", "RestoreInterruptedSession",
              "ClearSessionHistory"}
  Watched = TRUE
  HostsMayFail = FALSE
  Overlap = TRUE
  MaxLive = 2
  MaxLaunch = 1
  MaxStops = 1
INVARIANTS TypeOK RulesHaveOwner HostsHaveOwner CheckpointHasOwner EndedByOne
PROPERTIES NeverReplaced
\* The UI may never come back, and the bounds end the launches and the starts.
CHECK_DEADLOCK FALSE
