CONSTANTS
  Tokens <- DeleteTokens
  MaxArgs = 3
  Environments <- BareEnvironment
  Disks <- OneDisk
  MaxEdits = 0
SPECIFICATION Spec
INVARIANT DryRunHonored
CHECK_DEADLOCK FALSE
