--------------------------- MODULE CrosschainIndexer ---------------------------
(***************************************************************************)
(* The crosschain handlers driven by the logs of two chains in any order:   *)
(* "source" sends, "destination" receives.  Nothing is assumed about which  *)
(* logs the contracts emit, only that the logs of one chain are indexed in  *)
(* the order of that chain; CrosschainSystem adds what the contracts do.    *)
(* Logs of one block stand for one transaction.  Times and logs have no     *)
(* bound here, MCIndexer sets one for TLC.                                  *)
(***************************************************************************)
EXTENDS CrosschainHandlers

VARIABLES db,          \* the tables; one transaction of the database per handler
          clock,       \* the time of the last indexed block of each chain
          indexed,     \* logs indexed so far of each chain; the number of a log is its position
          executions   \* history: the ExecuteMessage logs indexed so far

vars == <<db, clock, indexed, executions>>

Chains == {"source", "destination"}

Init == /\ db = EmptyDatabase
        /\ clock = [c \in Chains |-> 1]
        /\ indexed = [c \in Chains |-> 0]
        /\ executions = {}

Indexes(chain, t) ==
  /\ clock[chain] <= t
  /\ clock' = [clock EXCEPT ![chain] = t]
  /\ indexed' = [indexed EXCEPT ![chain] = @ + 1]

-----------------------------------------------------------------------------
(* Source chain *)

PrepareMessage(m, t, live) ==
  /\ Indexes("source", t)
  /\ db' = OnPrepareMessage(db, m, t, live)
  /\ UNCHANGED executions

UnderpaidBatch(p, t) ==
  /\ Indexes("source", t)
  /\ db' = OnUnderpaidBatch(db, p, t)
  /\ UNCHANGED executions

RepayBatch(p, t) ==
  /\ Indexes("source", t)
  /\ db' = OnRepayBatch(db, p, t)
  /\ UNCHANGED executions

SendPayload(p, a, t) ==
  /\ Indexes("source", t)
  /\ db' = OnSendPayload(db, p, a, t, t)
  /\ UNCHANGED executions

SendProof(p, a, t) ==
  /\ Indexes("source", t)
  /\ db' = OnSendProof(db, p, a)
  /\ UNCHANGED executions

-----------------------------------------------------------------------------
(* Destination chain *)

MessageLog(m, status, t) == [pos |-> indexed["destination"] + 1, time |-> t, status |-> status, id |-> m]

ExecuteMessage(m, t) ==
  /\ Indexes("destination", t)
  /\ db' = OnMessageReceive(db, MessageLog(m, "execute", t))
  /\ executions' = executions \cup {MessageLog(m, "execute", t)}

FailMessage(m, t) ==
  /\ Indexes("destination", t)
  /\ db' = OnMessageReceive(db, MessageLog(m, "fail", t))
  /\ UNCHANGED executions

PayloadLog(p, a, type, t) ==
  [pos |-> indexed["destination"] + 1, time |-> t, type |-> type, id |-> p, adapter |-> a]

HandlePayload(p, a, t) ==
  /\ Indexes("destination", t)
  /\ db' = OnPayloadReceive(db, PayloadLog(p, a, "PAYLOAD", t))
  /\ UNCHANGED executions

HandleProof(p, a, t) ==
  /\ Indexes("destination", t)
  /\ db' = OnPayloadReceive(db, PayloadLog(p, a, "PROOF", t))
  /\ UNCHANGED executions

SetAdapters(pool, adapters, t) ==
  /\ Indexes("destination", t)
  /\ db' = OnSetAdapters(db, pool, adapters)
  /\ UNCHANGED executions

-----------------------------------------------------------------------------

\* A log of either chain, with the time t of its block, is indexed.
Step(t) ==
  \/ \E m \in MessageIds :
       \/ \E live \in BOOLEAN : PrepareMessage(m, t, live)
       \/ ExecuteMessage(m, t)
       \/ FailMessage(m, t)
  \/ \E p \in PayloadIds :
       \/ UnderpaidBatch(p, t)
       \/ RepayBatch(p, t)
       \/ \E a \in Adapters :
            \/ SendPayload(p, a, t)
            \/ SendProof(p, a, t)
            \/ HandlePayload(p, a, t)
            \/ HandleProof(p, a, t)
  \/ \E pool \in Pools, adapters \in SUBSET Adapters : SetAdapters(pool, adapters, t)

Next == \E t \in Times : Step(t)

Spec == Init /\ [][Next]_vars

-----------------------------------------------------------------------------
(* Properties *)

\* Type invariant: every table holds rows of its own shape.
TypeOK ==
  /\ IsTable(db.messages, MessageKeys, MessageRow)
  /\ IsTable(db.payloads, PayloadKeys, PayloadRow)
  /\ db.participations \subseteq Participations
  /\ db.messageQueue \subseteq MessageReceives
  /\ db.payloadQueue \subseteq PayloadReceives
  /\ IsTable(db.poolAdapters, Pools \X Adapters, PoolAdapterRow)
  /\ clock \in [Chains -> Times]
  /\ indexed \in [Chains -> Nat]
  /\ executions \subseteq MessageReceives

\* The status column is written by three statements (insert, ON CONFLICT, the
\* aggregate UPDATE), each with its own CASE over old and new facts.  Whatever
\* wrote a row last, its status is the one its facts call for, and a message
\* that was executed carries no trace of an earlier failure.
StatusMatchesFacts ==
  /\ \A k \in DOMAIN db.payloads : db.payloads[k].status = PayloadStatus(db.payloads[k])
  /\ \A k \in DOMAIN db.messages :
       LET row == db.messages[k]
       IN  /\ row.status = "Executed" <=> row.executedAt # Null
           /\ row.status = "Failed" <=> row.failedAt # Null

\* A delivery is only ever booked on an instance of the payload that was sent:
\* a handle that is seen before its send waits in the queue, and with several
\* instances it is never routed to an underpaid one.
HandledRowsWereSent ==
  \A q \in db.participations :
    q.side = "HANDLE" => q.payload \in DOMAIN db.payloads /\ IsSent(db.payloads[q.payload])

\* A payload row is completed only after it was sent, after some adapter sent it
\* and some adapter handled it.
CompletedRowsWereCarried ==
  \A k \in DOMAIN db.payloads :
    ~IsOpen(db.payloads[k]) => /\ IsSent(db.payloads[k])
                               /\ ParticipationsOf(db, k, "SEND") # {}
                               /\ ParticipationsOf(db, k, "HANDLE") # {}

RecordedOn(e) == {k \in DOMAIN db.messages : db.messages[k].executedLog = e.pos}

\* No execution is lost or counted twice: every ExecuteMessage log indexed so far
\* is either still queued or recorded on exactly one row of its message, and
\* every executed row was executed by such a log.
ExecutionsConserved ==
  /\ \A e \in executions :
       IF e \in db.messageQueue THEN RecordedOn(e) = {}
       ELSE \E k \in RowsOf(db.messages, e.id) : RecordedOn(e) = {k}
  /\ \A k \in DOMAIN db.messages : db.messages[k].executedAt # Null =>
       \E e \in executions : /\ e.pos = db.messages[k].executedLog
                             /\ e.time = db.messages[k].executedAt
                             /\ e.id = k[1]

\* Between handlers no handle waits that could be applied: the two drains around
\* a send are enough, and a handle that waits for its send never blocks another.
NoHandleLeftBehind == \A e \in db.payloadQueue : ~TryPayloadReceive(db, e).applied

Kept(old, new, unset) == old # unset => new = old

MessageKept(old, new) ==
  /\ Kept(old.preparedAt, new.preparedAt, Null)
  /\ Kept(old.executedAt, new.executedAt, Null)
  /\ Kept(old.executedLog, new.executedLog, Null)
  /\ Kept(old.payload, new.payload, NoPayload)
  /\ new.executedAt = Null => Kept(old.failedAt, new.failedAt, Null)

PayloadKept(old, new) ==
  \A fact \in {"underpaidAt", "sentAt", "sentTx", "deliveredAt", "partiallyFailedAt",
               "completedAt"} : Kept(old[fact], new[fact], Null)

\* Every row of d is in e, with the facts it had.
Grows(d, e) ==
  /\ \A k \in DOMAIN d.messages :
       k \in DOMAIN e.messages /\ MessageKept(d.messages[k], e.messages[k])
  /\ \A k \in DOMAIN d.payloads :
       k \in DOMAIN e.payloads /\ PayloadKept(d.payloads[k], e.payloads[k])

\* Facts are final.  Whatever is indexed later, and however late the other chain
\* is, a row keeps its link to a payload and every time it was given; only a
\* failure is taken back, by the execution that retries it.
FactsAreFinal == [][Grows(db, db')]_vars

Completes(d, e) ==
  {k \in DOMAIN e.payloads : ~IsOpen(e.payloads[k]) /\ (k \in DOMAIN d.payloads => IsOpen(d.payloads[k]))}

\* A payload completes only when every message linked to it is executed, whichever
\* chain's log was the last one missing.  It is so after the step; a send, which may
\* link more messages to a row that its opening drain completed, had it so then.
CompletesWhenExecuted ==
  [][\A k \in Completes(db, db') :
       \/ AllExecuted(db', k)
       \/ /\ indexed'["source"] > indexed["source"]
          /\ AllExecuted(Reconcile(db, MessagesOf(k[1]), {k[1]}), k)]_vars

StatusOf(t) == [k \in DOMAIN t |-> t[k].status]

Lifecycle == INSTANCE CrosschainLifecycle
               WITH messageStatus <- StatusOf(db.messages), payloadStatus <- StatusOf(db.payloads)

\* The indexer keeps what CrosschainLifecycle promises the readers of the API.
ImplementsLifecycle == Lifecycle!LifecycleSpec

=============================================================================
