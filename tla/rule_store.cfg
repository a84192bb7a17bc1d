\* Edits of the rules beside the migration, over three old databases, with a stop
\* at any step.
SPECIFICATION Spec
CONSTANTS
  c1 = c1
  Client = {c1}
  Profile <- ThreeProfiles
  Builtin = {"profile-estudo"}
  Stale = {"profile-trabalho"}
  Domain <- TypedDomains
  Seeds <- SameSeeds
  Legacy <- OldDatabases
  Commands = {"UpsertProfile", "DeleteProfile", "UpsertSite", "DeleteSite", "SetEnabled",
              "SetEnabledBatch", "SetRedirectPage"}
  MaxRow = 5
  MaxRequests = 2
  MaxStops = 1
INVARIANTS TypeOK NoOrphans BuiltinsServed UniqueDomains StoredNormal WarmUpGoesOn
PROPERTIES AliasesFollow
\* The bounds end the requests and the starts.
CHECK_DEADLOCK FALSE
