SPECIFICATION SystemSpec
CONSTANTS
  m1 = m1
  m2 = m2
  p1 = p1
  p2 = p2
  a1 = a1
  a2 = a2
  pool1 = pool1
  NoPayload = NoPayload
  MessageIds = {m1}
  PayloadIds = {p1}
  Adapters = {a1, a2}
  Pools = {pool1}
  Undecodable = {}
  HasProofs = FALSE
  MaxSends = 1
  MaxUnderpaid = 0
  MaxFailures = 0
  Ordering = "multichain"
  PoolOf <- OnePool
  AdapterSetOf <- OneAdapterSet
  Batch <- SingleBatch
  AdapterOrder <- TwoAdapters
INVARIANTS
  PoolAdaptersSettled
CHECK_DEADLOCK FALSE
