CONSTANTS
  a1 = a1
  a2 = a2
  w1 = w1
  w2 = w2
  NoAddr = NoAddr
  Addr <- MCAddr
  Ids <- MCIds
  TTL <- MCTTL
  Config <- MCConfig
  Writers <- OneWriter
  Options <- PartialOnly
  InitZones <- MCZones
  InitEgress <- FewEgress
  MaxAttempts = 2
  MaxFaults = 2
  LateApply = TRUE
SPECIFICATION FairSpec

PROPERTIES RunsEnd Converges
