SPECIFICATION BoundedSpec
CONSTANTS
  m1 = m1
  m2 = m2
  p1 = p1
  a1 = a1
  a2 = a2
  pool1 = pool1
  NoPayload = NoPayload
  MessageIds = {m1, m2}
  PayloadIds = {p1}
  Adapters = {a1}
  Pools = {pool1}
  Undecodable = {m2}
  HasProofs = TRUE
  MaxTime = 1
  MaxLogs = 5
  PoolOf <- OnePool
  AdapterSetOf <- OneAdapterSet
  Batch <- PairBatch
INVARIANTS
  ExecutionsConserved
CHECK_DEADLOCK FALSE
