-------------------------- MODULE CrosschainHandlers --------------------------
(***************************************************************************)
(* The event handlers of the Gateway and of the MultiAdapter, one operator  *)
(* each, from the state of the tables and the fields of the event to the    *)
(* next state of the tables.                                                *)
(***************************************************************************)
EXTENDS CrosschainReconciliation, Sequences

CONSTANTS Batch,        \* the message ids of a payload, in the order of its bytes
          Undecodable,  \* messages decodeMessage knows no data for
          HasProofs     \* registry version v3; v3_1 sends no adapter proofs

ASSUME BatchType == Batch \in [PayloadIds -> Seq(MessageIds)]
ASSUME UndecodableType == Undecodable \subseteq MessageIds \ DOMAIN AdapterSetOf
ASSUME HasProofsType == HasProofs \in BOOLEAN

MessagesOf(p) == {Batch[p][i] : i \in DOMAIN Batch[p]}

KeyOf(d, kind, p, tx) ==
  ResolvePayloadKey(kind, d.payloads, p, PayloadIndexHint(d.messages, MessagesOf(p)),
                    HasUnlinkedAwaiting(d.messages, MessagesOf(p)), tx)

LinkFacts(key) == [NoMessageFacts EXCEPT !.payload = key]

-----------------------------------------------------------------------------
(* Gateway *)

\* Rows of the destination's adapter set take the announced change, adapters
\* without a row get a disabled one.
MarkInProgress(d, m) ==
  LET pool  == PoolOf[m]
      known == PoolAdaptersOf(d, pool)
  IN  [d EXCEPT !.poolAdapters =
         [k \in DOMAIN @ \cup {<<pool, a>> : a \in AdapterSetOf[m]} |->
            IF k \notin known
            THEN IF k \in DOMAIN @ THEN @[k] ELSE [isEnabled |-> FALSE, inProgress |-> "Enabled"]
            ELSE [@[k] EXCEPT !.inProgress =
                    IF k[2] \in AdapterSetOf[m] THEN "Enabled" ELSE "Disabled"]]]

\* `live`: the block is recent enough to be live indexing.
OnPrepareMessage(d, m, time, live) ==
  LET before   == Reconcile(d, {m}, {})
      key      == <<m, NextIndex(RowsOf(before.messages, m))>>
      prepared == [before EXCEPT !.messages =
                     UpsertMessages(@, {key}, [NoMessageFacts EXCEPT !.preparedAt = time])]
  IN  IF \E k \in RowsOf(d.messages, m) : /\ d.messages[k].status = "AwaitingBatchDelivery"
                                          /\ d.messages[k].payload = NoPayload
      THEN d
      ELSE Reconcile(IF IsSetPoolAdapters(m) /\ live THEN MarkInProgress(prepared, m)
                     ELSE prepared, {m}, {})

\* Each message of the batch takes its first prepared row that waits for a
\* batch; a message without one gets the row at its position in the batch,
\* unless it cannot be decoded.
LinkUnderpaid(messages, p, key) ==
  LET waiting(m) == {k \in RowsOf(messages, m) : IsUnlinkedAwaiting(messages[k])}
      positions  == {i \in DOMAIN Batch[p] :
                       waiting(Batch[p][i]) # {} \/ Batch[p][i] \notin Undecodable}
      rowAt(i)   == IF waiting(Batch[p][i]) # {} THEN Lowest(waiting(Batch[p][i]))
                    ELSE <<Batch[p][i], i - 1>>
  IN  [pools    |-> {PoolOf[Batch[p][i]] : i \in positions},
       messages |-> UpsertMessages(messages, {rowAt(i) : i \in positions}, LinkFacts(key))]

OnUnderpaidBatch(d, p, time) ==
  LET before == Reconcile(d, MessagesOf(p), {p})
      target == KeyOf(before, "UnderpaidBatch", p, Null)
      key    == <<p, target.index>>
      linked == LinkUnderpaid(before.messages, p, key)
      body   == [before EXCEPT !.messages = linked.messages,
                               !.payloads = IF Cardinality(linked.pools) > 1 THEN @
                                 ELSE UpsertPayload(@, key, [NoPayloadFacts EXCEPT !.underpaidAt = time])]
  IN  Reconcile(IF target.action = "defer" THEN before ELSE body, MessagesOf(p), {p})

\* A repay carries no fact of its own: the row it resolves to is written, but
\* no timestamp of it.
OnRepayBatch(d, p, tx) ==
  LET before == Reconcile(d, MessagesOf(p), {p})
      target == KeyOf(before, "RepayBatch", p, tx)
      body   == [before EXCEPT !.payloads = UpsertPayload(@, <<p, target.index>>, NoPayloadFacts)]
  IN  Reconcile(IF target.action # "mutate" THEN before ELSE body, MessagesOf(p), {p})

OnMessageReceive(d, e) == ReconcileMessages(d, {e.id}, {e})

-----------------------------------------------------------------------------
(* MultiAdapter *)

\* Mutation: only rows that still wait for their batch are linked.
LinkAwaitingMessages(messages, p, key) ==
  UpsertMessages(messages, {k \in DOMAIN messages : /\ k[1] \in MessagesOf(p)
                                                    /\ IsUnlinkedAwaiting(messages[k])},
                 LinkFacts(key))

\* The n-th occurrence of a message in the batch takes the n-th lowest of the
\* message's prepared rows without a payload.
LinkMessages(messages, p, key) ==
  LET unlinked == {k \in DOMAIN messages : /\ k[1] \in MessagesOf(p)
                                           /\ messages[k].payload = NoPayload
                                           /\ messages[k].preparedAt # Null}
      occurrences(m) == Cardinality({i \in DOMAIN Batch[p] : Batch[p][i] = m})
      taken == {k \in unlinked :
                  Cardinality({j \in unlinked : j[1] = k[1] /\ j[2] < k[2]}) < occurrences(k[1])}
  IN  UpsertMessages(messages, taken, LinkFacts(key))

Participation(key, adapter, side, type) ==
  [payload |-> key, adapter |-> adapter, side |-> side, type |-> type]

\* Mutation: the queues are drained before the send is written, not after it.
OnSendPayloadDrainingFirst(d, p, adapter, time, tx) ==
  LET before == Reconcile(d, MessagesOf(p), {p})
      key    == <<p, KeyOf(before, "SendPayload", p, tx).index>>
      sent   == [NoPayloadFacts EXCEPT !.sentAt = time, !.sentTx = tx]
  IN  [before EXCEPT !.messages = LinkMessages(@, p, key),
                     !.payloads = UpsertPayload(@, key, sent),
                     !.participations = @ \cup {Participation(key, adapter, "SEND", "PAYLOAD")}]

OnSendPayload(d, p, adapter, time, tx) ==
  LET before == Reconcile(d, MessagesOf(p), {p})
      key    == <<p, KeyOf(before, "SendPayload", p, tx).index>>
      sent   == [NoPayloadFacts EXCEPT !.sentAt = time, !.sentTx = tx]
      body   == [before EXCEPT !.messages = LinkMessages(@, p, key),
                               !.payloads = UpsertPayload(@, key, sent),
                               !.participations = @ \cup
                                 {Participation(key, adapter, "SEND", "PAYLOAD")}]
  IN  Reconcile(body, MessagesOf(p), {p})

OnSendProof(d, p, adapter) ==
  LET before == Reconcile(d, {}, {p})
      open   == {k \in RowsOf(before.payloads, p) : IsOpen(before.payloads[k])}
      body   == [before EXCEPT !.participations = @ \cup
                   {Participation(Lowest(open), adapter, "SEND", "PROOF")}]
  IN  IF ~HasProofs THEN d ELSE Reconcile(IF open = {} THEN before ELSE body, {}, {p})

OnPayloadReceive(d, e) ==
  IF e.type = "PROOF" /\ ~HasProofs THEN d ELSE ReconcilePayloads(d, {e.id}, {e})

\* Mutation: adapters that left the set are not touched.
OnSetListedAdapters(d, pool, adapters) ==
  [d EXCEPT !.poolAdapters =
     [k \in DOMAIN @ \cup {<<pool, a>> : a \in adapters} |->
        IF k[1] = pool /\ k[2] \in adapters THEN [isEnabled |-> TRUE, inProgress |-> "None"]
        ELSE @[k]]]

\* The destination's own SetAdapters log is authoritative for the set.
OnSetAdapters(d, pool, adapters) ==
  [d EXCEPT !.poolAdapters =
     [k \in DOMAIN @ \cup {<<pool, a>> : a \in adapters} |->
        IF k[1] = pool THEN [isEnabled |-> k[2] \in adapters, inProgress |-> "None"] ELSE @[k]]]

=============================================================================
