SPECIFICATION SystemSpec
CONSTANTS
  m1 = m1
  m2 = m2
  p1 = p1
  p2 = p2
  a1 = a1
  a2 = a2
  pool1 = pool1
  NoPayload = NoPayload
  MessageIds = {m1, m2}
  PayloadIds = {p1}
  Adapters = {a1}
  Pools = {pool1}
  Undecodable = {}
  HasProofs = FALSE
  MaxSends = 1
  MaxUnderpaid = 1
  MaxFailures = 0
  Ordering = "multichain"
  PoolOf <- OnePool
  AdapterSetOf <- NoAdapterSets
  Batch <- PairBatch
  AdapterOrder <- OneAdapter
INVARIANTS
  AllComplete
CHECK_DEADLOCK FALSE
