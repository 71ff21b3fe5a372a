---------------------------- MODULE CrosschainSystem ----------------------------
(***************************************************************************)
(* The indexer on what the contracts emit: first the two chains run, then   *)
(* the indexer is started and reads their logs, each chain's in order and   *)
(* the two interleaved in any way.  A handler reads only its event and the  *)
(* tables, so indexing a history that is complete visits the same tables    *)
(* as following the chains while they grow.                                 *)
(***************************************************************************)
EXTENDS CrosschainIndexer

CONSTANTS AdapterOrder, MaxSends, MaxUnderpaid, MaxFailures,
          Ordering  \* how the logs of the two chains are interleaved

\* "omnichain": by time.  "multichain": in any way, a transaction at a time.
ASSUME OrderingType == Ordering \in {"omnichain", "multichain"}

ASSUME AdapterOrderType == AdapterOrder \in Seq(Adapters)

VARIABLES now, source, destination, underpaid, shortages, sent, handled, delivered, failed, failures,
          started  \* the indexer runs

Contracts == INSTANCE CrosschainContracts
               WITH SentMessages <- MessageIds, SentPayloads <- PayloadIds, BatchOf <- Batch,
                    Announcing <- DOMAIN AdapterSetOf, Proofs <- HasProofs

contractVars == <<now, source, destination, underpaid, shortages, sent, handled, delivered, failed, failures>>
systemVars == <<contractVars, started, vars>>

SystemInit == Contracts!ContractsInit /\ started = FALSE /\ Init

Transact == /\ ~started
            /\ Contracts!ContractsNext
            /\ UNCHANGED <<started, vars>>

Start == /\ ~started /\ source # <<>>
         /\ started' = TRUE
         /\ UNCHANGED <<contractVars, vars>>

LogOf == [source |-> source, destination |-> destination]

\* The next log of `chain` goes ahead of the other chain.
GoesFirst(chain, other) ==
  LET next == LogOf[chain][indexed[chain] + 1]
      log  == LogOf[other]
      n    == indexed[other]
  IN  CASE Ordering = "omnichain"  -> n < Len(log) => next.time <= log[n + 1].time
        [] Ordering = "multichain" -> n \in 1..Len(log) - 1 => log[n].time # log[n + 1].time

Reads(chain, other) == /\ started /\ indexed[chain] < Len(LogOf[chain])
                       /\ GoesFirst(chain, other)
                       /\ indexed' = [indexed EXCEPT ![chain] = @ + 1]

ReadSource == Reads("source", "destination")
ReadDestination == Reads("destination", "source")

\* Every log of a transaction carries the transaction's time, and no two
\* transactions share one.
IndexSource(live) ==
  LET e == source[indexed["source"] + 1]
  IN  /\ ReadSource
      /\ \/ e.kind = "PrepareMessage" /\ PrepareMessage(e.id, e.time, live)
         \/ e.kind = "UnderpaidBatch" /\ UnderpaidBatch(e.id, e.time)
         \/ e.kind = "RepayBatch" /\ RepayBatch(e.id, e.time)
         \/ e.kind = "SendPayload" /\ SendPayload(e.id, e.adapter, e.time)
         \/ e.kind = "SendProof" /\ SendProof(e.id, e.adapter, e.time)
      /\ UNCHANGED <<contractVars, started>>

IndexDestination ==
  LET e == destination[indexed["destination"] + 1]
  IN  /\ ReadDestination
      /\ \/ e.kind = "ExecuteMessage" /\ ExecuteMessage(e.id, e.time)
         \/ e.kind = "FailMessage" /\ FailMessage(e.id, e.time)
         \/ e.kind = "HandlePayload" /\ HandlePayload(e.id, e.adapter, e.time)
         \/ e.kind = "HandleProof" /\ HandleProof(e.id, e.adapter, e.time)
         \/ e.kind = "SetAdapters" /\ SetAdapters(PoolOf[e.id], AdapterSetOf[e.id], e.time)
      /\ UNCHANGED <<contractVars, started>>

SystemNext == Transact \/ Start \/ (\E live \in BOOLEAN : IndexSource(live)) \/ IndexDestination

SystemSpec == SystemInit /\ [][SystemNext]_systemVars

\* Ponder reads on: the indexer is started and every log of both chains indexed.
FairSpec == /\ SystemSpec
            /\ WF_started(Start)
            /\ WF_(indexed["source"])(ReadSource)
            /\ WF_(indexed["destination"])(ReadDestination)

-----------------------------------------------------------------------------
(* Properties: most compare the tables, once all logs are indexed, with what *)
(* the chains did.                                                           *)

AllIndexed == started /\ \A c \in Chains : indexed[c] = Len(LogOf[c])

\* Every batch that was sent ran, and no failed message is left.
ChainsSettled ==
  /\ \A p \in PayloadIds : underpaid[p] = 0 /\ delivered[p] = sent[p]
  /\ \A m \in MessageIds : failed[m] = 0

Logged(log, kind, id) == {i \in DOMAIN log : log[i].kind = kind /\ log[i].id = id}

\* The queues are a way station: once both chains are indexed every receive found
\* its row.
QueuesDrained == AllIndexed => db.messageQueue = {} /\ db.payloadQueue = {}

\* The same as a liveness property: a receive that came before its send does
\* not wait forever.
ReceivesFindTheirRows == []<>(db.messageQueue = {} /\ db.payloadQueue = {})

\* Every send of a payload, paid or short of gas, has a row of its own: a resend does
\* not land on the row of an earlier instance, and a repay adds none.  It needs time
\* order and sends that prepare their messages (v3_1).
RowPerSend ==
  AllIndexed => \A p \in PayloadIds : Cardinality(RowsOf(db.payloads, p)) = sent[p] + underpaid[p]

IndexedLogs(kind, m) == {i \in Logged(destination, kind, m) : i <= indexed["destination"]}

\* Whatever was indexed so far, as many executions of a message are recorded on rows
\* of it or wait in the queue as the destination logged: none is lost, none is
\* recorded on a row that has one, and no row is executed without one.
ExecutedRows ==
  \A m \in MessageIds :
    Cardinality({k \in RowsOf(db.messages, m) : db.messages[k].executedAt # Null})
      + Cardinality({e \in db.messageQueue : e.status = "execute" /\ e.id = m})
    = Cardinality(IndexedLogs("ExecuteMessage", m))

\* As many rows of a message are failed as failures wait for a retry.
FailedRows ==
  AllIndexed => \A m \in MessageIds :
    Cardinality({k \in RowsOf(db.messages, m) : db.messages[k].failedAt # Null}) = failed[m]

\* When everything was delivered and executed on chain, every payload is Completed
\* in whatever order the two chains were indexed.
AllComplete ==
  AllIndexed /\ ChainsSettled => \A k \in DOMAIN db.payloads : db.payloads[k].status = "Completed"

\* At no moment is a payload Completed that has a message still to be executed.
CompletedMeansExecuted ==
  \A k \in DOMAIN db.payloads : ~IsOpen(db.payloads[k]) => AllExecuted(db, k)

\* The SetAdapters logs of a pool indexed so far, and the set the last one left.
SetAdaptersLogs(pool) == {i \in 1..indexed["destination"] : /\ destination[i].kind = "SetAdapters"
                                                           /\ PoolOf[destination[i].id] = pool}

LastAdapterSet(pool) ==
  LET logs == SetAdaptersLogs(pool)
  IN  IF logs = {} THEN {}
      ELSE AdapterSetOf[destination[CHOOSE i \in logs : \A j \in logs : j <= i].id]

\* A pool's adapter rows follow the destination: the set of its last log is enabled
\* and no other adapter, and once every announcement was run nothing is in progress.
PoolAdaptersSettled ==
  \A pool \in Pools :
    LET rows == {k \in DOMAIN db.poolAdapters : k[1] = pool}
    IN  /\ {k[2] : k \in {j \in rows : db.poolAdapters[j].isEnabled}} = LastAdapterSet(pool)
        /\ AllIndexed /\ ChainsSettled => \A k \in rows : db.poolAdapters[k].inProgress = "None"

=============================================================================
