SPECIFICATION BoundedSpec
CONSTANTS
  m1 = m1
  m2 = m2
  p1 = p1
  a1 = a1
  a2 = a2
  pool1 = pool1
  NoPayload = NoPayload
  MessageIds = {m1}
  PayloadIds = {p1}
  Adapters = {a1}
  Pools = {pool1}
  Undecodable = {}
  HasProofs = FALSE
  MaxTime = 2
  MaxLogs = 5
  PoolOf <- OnePool
  AdapterSetOf <- NoAdapterSets
  Batch <- SingleBatch
INVARIANTS
  TypeOK
  StatusMatchesFacts
  HandledRowsWereSent
  CompletedRowsWereCarried
  ExecutionsConserved
  NoHandleLeftBehind
PROPERTIES
  FactsAreFinal
  CompletesWhenExecuted
  ImplementsLifecycle
CHECK_DEADLOCK FALSE
