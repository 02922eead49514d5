CONSTANTS
  MinDelay = 1
  MaxDelay = 300
  PolicyDelay = 3600
  MetadataDelay = 60
  MaxStreak = 10
  Targets = 3
  MAX_DISCONNECTS = 3
  MaxRecent = 4
  DefaultSize = 2
  Sizes = {0, 1, 3}
  MaxEntries = 6
  MaxStarts = 4
  MaxTroubles = 3
  Ips = {"a", "b"}
  MaxRefreshes = 2
  Fields = {"rawOutput", "hops"}
  MaxLength = 2
SPECIFICATION ServicesSpec
INVARIANTS
  RunTypeOK
  AtMostOneLateDial
  CycleTellsItsVerdict
  FewStaleStatuses
  TypeOK
  Accounted
  SkippedIsExact
  AtMostOneLate
  IdentityKept
  AltIpsFresh
  BufferReassembles
PROPERTIES
  FirstOutcomeWins
  BackoffFollowsStreak
  SignalIsActedOn
  ShutdownStops
  ApiViewConverges
  DisconnectsForgiven
  EntriesMoveOn
\* run() ends, and the process with it.
CHECK_DEADLOCK FALSE
