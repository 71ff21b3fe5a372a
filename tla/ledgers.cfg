SPECIFICATION LedgersSpec
CONSTANTS
  u1 = u1
  u2 = u2
  a1 = a1
  a2 = a2
  redeemer = redeemer
  Users = {u1, u2}
  InitialHolders = {}
  Unit = 2
  Assets = {a1, a2}
  Amounts = {2}
  Navs = {3}
  Percent = 10
  NavUnit = 2
  BasinAsset = a1
  Redeemer = redeemer
  MaxAsks = 3
  MaxEpochs = 2
  Flows = {"deposit", "redeem", "basin", "vaultDeposit", "vaultRedeem", "syncDeposit"}
  Ray = 10
  SpreadPerSecond = 10
  CollateralScale = 2
  Values = {2}
  Rates = {10, 15}
  MaxOperations <- Operations
  AssetIds = {i1, i2}
  PoolEscrows = {e1, e2}
  BookAmounts = {1}
  BookPrices = {1, 2}
  MaxBlocks = 3
  MaxMoves = 5
SYMMETRY LedgerSymmetry
INVARIANTS
  LedgersTypeOK
  OutstandingIsCovered
  ClaimsFindTheirOrders
  OrdersSettleWithEpoch
  
  SyncDepositsAreKept
  LinkedWhileOpen
  DebtIsOwed
  ClaimsAreOwn
  PendingCreditIsOpen
  FeesAreCollected
  BooksFollowTheChains
  PeriodsAreSnapshot
CHECK_DEADLOCK FALSE
