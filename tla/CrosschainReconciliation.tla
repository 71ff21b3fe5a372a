----------------------- MODULE CrosschainReconciliation -----------------------
(***************************************************************************)
(* How a receive of the destination chain (ExecuteMessage, FailMessage,     *)
(* HandlePayload, HandleProof) meets the send facts of the source chain.    *)
(*                                                                         *)
(* The indexer sees the two chains in any interleaving.  A receive that     *)
(* finds no row to land on is kept in a queue table, and every send handler *)
(* drains the queues of the ids it touches before and after its own writes. *)
(* The operators map a state of the tables to the next one.                 *)
(***************************************************************************)
EXTENDS CrosschainFacts

CONSTANTS Adapters,     \* adapter addresses
          Pools,
          PoolOf,       \* the pool of each message
          AdapterSetOf  \* what each SetPoolAdapters message announces: a set of adapters

ASSUME PoolOfType == PoolOf \in [MessageIds -> Pools]
ASSUME AdapterSetOfType == /\ DOMAIN AdapterSetOf \subseteq MessageIds
                           /\ \A m \in DOMAIN AdapterSetOf : AdapterSetOf[m] \subseteq Adapters

IsSetPoolAdapters(m) == m \in DOMAIN AdapterSetOf

(* A queued receive keeps the log it came from: `pos` is the primary key      *)
(* (chainId, transactionHash, logIndex), increasing along the chain, and      *)
(* `time` the block it was in.                                                *)
MessageReceives == [pos: Nat, time: Times, status: {"execute", "fail"}, id: MessageIds]
PayloadReceives == [pos: Nat, time: Times, type: {"PAYLOAD", "PROOF"}, id: PayloadIds,
                    adapter: Adapters]

Participations == [payload: PayloadKeys, adapter: Adapters, side: {"SEND", "HANDLE"},
                   type: {"PAYLOAD", "PROOF"}]

PoolAdapterRow == [isEnabled: BOOLEAN, inProgress: {"None", "Enabled", "Disabled"}]

(* The tables: `participations` is a set because an insert of an existing key *)
(* is dropped, the queues are sets of logs.                                   *)
EmptyDatabase == [messages |-> <<>>, payloads |-> <<>>, participations |-> {},
                  messageQueue |-> {}, payloadQueue |-> {}, poolAdapters |-> <<>>]

-----------------------------------------------------------------------------
(* Payload status from aggregates: one UPDATE *)

LinkedTo(messages, key) == {k \in DOMAIN messages : messages[k].payload = key}

ParticipationsOf(d, key, side) == {p \in d.participations : p.payload = key /\ p.side = side}

\* Mutation: no adapter has to have sent.
CountsAgree(d, key) == Cardinality(ParticipationsOf(d, key, "SEND"))
                         = Cardinality(ParticipationsOf(d, key, "HANDLE"))

\* Every adapter row that sent has a handle, by count.
AdaptersDone(d, key) ==
  /\ ParticipationsOf(d, key, "SEND") # {}
  /\ Cardinality(ParticipationsOf(d, key, "SEND"))
       = Cardinality(ParticipationsOf(d, key, "HANDLE"))

AllExecuted(d, key) ==
  /\ LinkedTo(d.messages, key) # {}
  /\ \A k \in LinkedTo(d.messages, key) : d.messages[k].executedAt # Null

SomeFailed(d, key) == \E k \in LinkedTo(d.messages, key) : d.messages[k].failedAt # Null

\* Mutation: a payload completes with its adapters.
RefreshIgnoringMessages(d, key, time, setDelivered) ==
  LET row == d.payloads[key]
  IN  IF key \notin DOMAIN d.payloads THEN d
      ELSE [d EXCEPT !.payloads[key] = WithPayloadStatus(
             [row EXCEPT !.deliveredAt = IF setDelivered THEN Coalesce(@, time) ELSE @,
                         !.completedAt = Coalesce(@, IF AdaptersDone(d, key) THEN time ELSE Null)])]

RefreshPayload(d, key, time, setDelivered) ==
  LET row       == d.payloads[key]
      delivered == IF setDelivered THEN Coalesce(row.deliveredAt, time) ELSE row.deliveredAt
      partially == IF delivered # Null /\ SomeFailed(d, key) THEN time ELSE Null
      completed == IF AdaptersDone(d, key) /\ AllExecuted(d, key) THEN time ELSE Null
  IN  IF key \notin DOMAIN d.payloads THEN d
      ELSE [d EXCEPT !.payloads[key] = WithPayloadStatus(
             [row EXCEPT !.deliveredAt = delivered,
                         !.partiallyFailedAt = Coalesce(@, partially),
                         !.completedAt = Coalesce(@, completed)])]

-----------------------------------------------------------------------------
(* Pool adapters of the destination chain *)

PoolAdaptersOf(d, pool) == {k \in DOMAIN d.poolAdapters : k[1] = pool}

ClearInProgress(d, pool) ==
  [d EXCEPT !.poolAdapters =
     [k \in DOMAIN @ |-> IF k[1] = pool THEN [@[k] EXCEPT !.inProgress = "None"] ELSE @[k]]]

-----------------------------------------------------------------------------
(* One receive *)

Applied(d) == [applied |-> TRUE, db |-> d]
Waiting(d) == [applied |-> FALSE, db |-> d]

ReceiveFacts(e) ==
  IF e.status = "execute"
  THEN [NoMessageFacts EXCEPT !.executedAt = e.time, !.executedLog = e.pos]
  ELSE [NoMessageFacts EXCEPT !.failedAt = e.time]

\* The message row of the receive is written, a failed SetPoolAdapters message
\* is no longer in progress, and the payload the row is linked to is refreshed.
WriteMessageReceive(d, e, key) ==
  LET written == [d EXCEPT !.messages = UpsertMessages(@, {key}, ReceiveFacts(e))]
      cleared == IF e.status = "fail" /\ IsSetPoolAdapters(e.id)
                 THEN ClearInProgress(written, PoolOf[e.id]) ELSE written
  IN  RefreshPayload(cleared, d.messages[key].payload, e.time, TRUE)

TryMessageReceive(d, e) ==
  LET targets == SendTargets(d.messages, d.payloads, e.id, e.status)
      key     == Lowest(targets)
      row     == d.messages[key]
  IN  IF targets = {} THEN Waiting(d)
      ELSE IF e.status = "fail" /\ row.failedAt # Null THEN Applied(d)
      ELSE IF ~PassesCausalOrder(e.time, MessageAnchor(row, d.payloads)) THEN Waiting(d)
      ELSE Applied(WriteMessageReceive(d, e, key))

\* Indices of the payload rows this adapter sent, and of those messages link to.
SentBy(d, e) ==
  {p.payload[2] : p \in {q \in d.participations :
      /\ q.payload[1] = e.id
      /\ q.adapter = e.adapter
      /\ q.side = "SEND"
      /\ q.type = e.type}}

LinkedIndices(d, id) ==
  {d.messages[k].payload[2] :
     k \in {j \in DOMAIN d.messages : /\ d.messages[j].payload # NoPayload
                                      /\ d.messages[j].payload[1] = id}}

WritePayloadReceive(d, e, key) ==
  LET handled   == [payload |-> key, adapter |-> e.adapter, side |-> "HANDLE", type |-> e.type]
      delivered == [NoPayloadFacts EXCEPT !.deliveredAt = e.time]
  IN  RefreshPayload(
        [d EXCEPT !.participations = @ \cup {handled},
                  !.payloads = IF @[key].deliveredAt = Null
                               THEN UpsertPayload(@, key, delivered) ELSE @],
        key, e.time, FALSE)

TryPayloadReceive(d, e) ==
  LET targets == HandleTargets(d.payloads, e.id, SentBy(d, e), LinkedIndices(d, e.id), e.time)
      key     == Lowest(targets)
  IN  IF targets = {} \/ ~PassesCausalOrder(e.time, PayloadAnchor(d.payloads[key]))
      THEN Waiting(d)
      ELSE Applied(WritePayloadReceive(d, e, key))

-----------------------------------------------------------------------------
(* The work lists: first by time, a fail before an execute, then by log *)

Earliest(T) == {e \in T : \A f \in T : e.time <= f.time}
Prefer(T, P) == IF T \cap P # {} THEN T \cap P ELSE T
FirstLogged(T) == CHOOSE e \in T : \A f \in T : e.pos <= f.pos

NextMessageReceive(todo, incoming) ==
  LET fails == {e \in todo : e.status = "fail"}
  IN  FirstLogged(Prefer(Prefer(Earliest(todo), fails), incoming))

NextPayloadReceive(todo, incoming) == FirstLogged(Prefer(Earliest(todo), incoming))

\* Mutation: a receive that found no row is dropped.
MessageTurnDropping(s, incoming) ==
  LET e      == NextMessageReceive(s.todo, incoming)
      loaded == IF e.id \in s.dirty THEN {e.id} ELSE s.loaded
      result == IF e.id \in loaded THEN TryMessageReceive(s.db, e) ELSE Waiting(s.db)
  IN  [todo   |-> s.todo \ {e},
       loaded |-> loaded,
       dirty  |-> IF result.applied THEN s.dirty \cup {e.id} ELSE s.dirty \ {e.id},
       db     |-> [result.db EXCEPT !.messageQueue = @ \ {e}]]

\* One turn of the message loop.  `loaded` holds the ids whose rows are in
\* memory: the rows of an id that a previous turn wrote are read again, and
\* then they are the only ones in memory.
MessageTurn(s, incoming) ==
  LET e      == NextMessageReceive(s.todo, incoming)
      loaded == IF e.id \in s.dirty THEN {e.id} ELSE s.loaded
      result == IF e.id \in loaded THEN TryMessageReceive(s.db, e) ELSE Waiting(s.db)
  IN  [todo   |-> s.todo \ {e},
       loaded |-> loaded,
       dirty  |-> IF result.applied THEN s.dirty \cup {e.id} ELSE s.dirty \ {e.id},
       db     |-> [result.db EXCEPT !.messageQueue =
                     IF result.applied THEN @ \ {e} ELSE @ \cup {e}]]

ReconcileMessages(d, ids, incoming) ==
  LET work == incoming \cup {e \in d.messageQueue : e.id \in ids}
      run[i \in 0..Cardinality(work)] ==
        IF i = 0 THEN [db |-> d, todo |-> work, loaded |-> ids, dirty |-> {}]
        ELSE MessageTurn(run[i - 1], incoming)
  IN  run[Cardinality(work)].db

PayloadTurn(s, incoming) ==
  LET e      == NextPayloadReceive(s.todo, incoming)
      result == TryPayloadReceive(s.db, e)
  IN  [todo |-> s.todo \ {e},
       db   |-> [result.db EXCEPT !.payloadQueue =
                   IF result.applied THEN @ \ {e} ELSE @ \cup {e}]]

ReconcilePayloads(d, ids, incoming) ==
  LET work == incoming \cup {e \in d.payloadQueue : e.id \in ids}
      run[i \in 0..Cardinality(work)] ==
        IF i = 0 THEN [db |-> d, todo |-> work] ELSE PayloadTurn(run[i - 1], incoming)
  IN  run[Cardinality(work)].db

\* Both queues drained for the ids a send handler touches.
Reconcile(d, messageIds, payloadIds) ==
  ReconcilePayloads(ReconcileMessages(d, messageIds, {}), payloadIds, {})

=============================================================================
