CONSTANTS
  Tokens <- MCTokens
  MaxArgs = 3
  Environments <- MCEnvironments
  Disks <- MCDisks
  MaxEdits = 1
SPECIFICATION Spec
INVARIANTS TypeOK RunsAsAsked ExitStatusMeans ConfigInUse
PROPERTY QuietSuccessIsAskedFor
CHECK_DEADLOCK FALSE
