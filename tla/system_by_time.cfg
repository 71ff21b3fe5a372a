SPECIFICATION SystemSpec
CONSTANTS
  m1 = m1
  m2 = m2
  p1 = p1
  p2 = p2
  a1 = a1
  a2 = a2
  pool1 = pool1
  NoPayload = NoPayload
  MessageIds = {m1, m2}
  PayloadIds = {p1, p2}
  Adapters = {a1, a2}
  Pools = {pool1}
  Undecodable = {}
  HasProofs = FALSE
  MaxSends = 3
  MaxUnderpaid = 1
  MaxFailures = 0
  Ordering = "omnichain"
  PoolOf <- OnePool
  AdapterSetOf <- TwoAdapterSets
  Batch <- SharedBatches
  AdapterOrder <- OneAdapter
INVARIANTS
  PoolAdaptersSettled
  RowPerSend
CHECK_DEADLOCK FALSE
