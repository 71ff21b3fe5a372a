SPECIFICATION SharesSpec
CONSTANTS
  Chains = {c1}
  Users = {u1}
  InitialHolders = {}
  Unit = 2
  Amounts = {1}
  SpokePrices = {1}
  MaxOps = 3
  MaxOpsOfTwo = 3
  RpcReliable = TRUE
INVARIANT IssuanceIsSupply
CHECK_DEADLOCK FALSE
