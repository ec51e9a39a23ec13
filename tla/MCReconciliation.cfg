CONSTANTS
  a1 = a1
  a2 = a2
  NoAddr = NoAddr
  Addr <- MCAddr
  Ids <- MCIds
  TTL <- MCTTL
  Zones <- MCZones
  Config <- MCConfig
SPECIFICATION Spec
INVARIANTS TypeOK VerificationIsExact NoopIffWanted ApplyAchieves Settles KeepsMatchingRecord ForceRewritesInPlace
PROPERTY OnlyManagedTouched
CHECK_DEADLOCK FALSE
