\* Handlers, reaps and warm-ups that do not overlap, with a stop at any
\* step, on a hosts file that cannot always be written.
SPECIFICATION Spec
CONSTANTS
  c1 = c1  c2 = c2  study = study  detox = detox  site1 = site1  site2 = site2
  None = None
  Client = {c1}
  Profile = {study, detox}
  Site = {site1, site2}
  Owner <- OneRuleEach
  Duration = {2}
  Commands = {"StartSession", "EndSession", "GetSession", "RestoreInterruptedSession",
              "PopSessionSummary", "Health", "DiscardInterruptedSession", "SetEnabled", "UiHeartbeat",
              "ClearSessionHistory"}
  Watched = TRUE
  HostsMayFail = TRUE
  Overlap = FALSE
  MaxLive = 3
  MaxLaunch = 2
  MaxStops = 1
INVARIANTS RecordedOnce LiveIsEnforced LiveIsCheckpointed
PROPERTIES RulesFrozen ImplementsFocusSession
\* The UI may never come back, and the bounds end the launches and the starts.
CHECK_DEADLOCK FALSE
