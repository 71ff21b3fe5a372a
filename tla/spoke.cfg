SPECIFICATION SpokeSpec
CONSTANTS
  VaultIds = {v1}
  Reserves = {1, 2}
  MaxSignals = 3
  c1 = c1
  c2 = c2
  Chains = {c1, c2}
  Users = {u1}
  InitialHolders = {u1}
  Unit = 2
  Amounts = {1}
  SpokePrices = {1, 3}
  MaxOps = 4
  MaxOpsOfTwo = 3
  RpcReliable = FALSE
  Roots = {"r1", "r2"}
  Times = {5, 200}
  MaxSettings = 4
SYMMETRY ChainSymmetry
INVARIANTS
  SpokeTypeOK
  NoStaleFlag
  VaultsEndAsOnChain
  TotalIsSum
  ActiveTogether
  CheckpointsAddUp
  SettingsFollowTheSpoke
PROPERTIES
  IssuanceStaysRight
  PositionsStayRight
CHECK_DEADLOCK FALSE
