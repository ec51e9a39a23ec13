CONSTANTS
  a1 = a1
  a2 = a2
  w1 = w1
  w2 = w2
  NoAddr = NoAddr
  Addr <- MCAddr
  Ids <- FewIds
  TTL <- MCTTL
  Config <- MCConfig
  Writers <- TwoWriters
  Options <- PartialOnly
  InitZones <- FewZones
  InitEgress <- OnlyAEgress
  MaxAttempts = 2
  MaxFaults = 1
  LateApply = TRUE
SPECIFICATION AuditSpec
INVARIANT DivergenceDetected
PROPERTY OnlyLicensedChange
SYMMETRY WriterSymmetry
