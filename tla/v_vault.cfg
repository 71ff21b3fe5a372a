SPECIFICATION VaultSpec
CONSTANTS
  VaultIds = {v1}
  Reserves = {1}
  MaxSignals = 2
INVARIANT AcknowledgedIsCleared
CHECK_DEADLOCK FALSE
