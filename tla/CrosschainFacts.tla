--------------------------- MODULE CrosschainFacts ---------------------------
(***************************************************************************)
(* The rows of `crosschain_message` and `crosschain_payload`, the merge     *)
(* rules of their upserts, and the choice of the row an event belongs to.   *)
(*                                                                         *)
(* A table is a function from keys <<id, index>> to rows.  A row keeps its  *)
(* timestamp facts; a time is a positive number and Null is SQL NULL.  The  *)
(* block, transaction and chain columns that accompany a timestamp are kept *)
(* where some decision reads them: `sentTx` is sentAtTxHash, `executedLog`  *)
(* is the log behind executedAtTxHash / executedAtChainId.                  *)
(***************************************************************************)
EXTENDS Integers, FiniteSets

CONSTANTS MessageIds, PayloadIds, NoPayload

Null == 0
NoIndex == -1
Times == Nat \ {0}

ASSUME NoPayloadIsNoKey == NoPayload \notin PayloadIds \X Nat

MessageKeys == MessageIds \X Nat
PayloadKeys == PayloadIds \X Nat

MessageStatuses == {"AwaitingBatchDelivery", "Failed", "Executed"}
PayloadStatuses == {"Underpaid", "InTransit", "Delivered", "PartiallyFailed", "Completed"}

MessageRow == [preparedAt: Nat, failedAt: Nat, executedAt: Nat, executedLog: Nat,
               payload: PayloadKeys \cup {NoPayload}, status: MessageStatuses]

PayloadRow == [underpaidAt: Nat, sentAt: Nat, sentTx: Nat, deliveredAt: Nat,
               partiallyFailedAt: Nat, completedAt: Nat, status: PayloadStatuses]

IsTable(t, Keys, Row) ==
  /\ t = [k \in DOMAIN t |-> t[k]]
  /\ DOMAIN t \subseteq Keys
  /\ \A k \in DOMAIN t : t[k] \in Row

RowsOf(t, id) == {k \in DOMAIN t : k[1] = id}

\* The row with the lowest index of a non-empty set of keys that share an id.
Lowest(K) == CHOOSE k \in K : \A j \in K : k[2] <= j[2]

\* Mutation: the highest index itself, -1 for none.
HighestIndex(K) == CHOOSE n \in {-1} \cup {k[2] : k \in K} : \A k \in K : k[2] <= n

\* coalesce(max(index), -1) + 1
NextIndex(K) == CHOOSE n \in {0} \cup {k[2] + 1 : k \in K} : \A k \in K : k[2] < n

-----------------------------------------------------------------------------
(* Merge rules of ON CONFLICT DO UPDATE *)

Coalesce(a, b) == IF a = Null THEN b ELSE a

\* Mutation: the newest fact wins.
MergeNewest(a, b) == IF b = Null THEN a ELSE b

MergeEarliest(a, b) ==
  IF a = Null THEN b ELSE IF b = Null \/ a <= b THEN a ELSE b

NoMessageFacts == [preparedAt |-> Null, failedAt |-> Null, executedAt |-> Null,
                   executedLog |-> Null, payload |-> NoPayload,
                   status |-> "AwaitingBatchDelivery"]

\* Mutation: an execution leaves the failure it retries.
MergeKeepingFailure(row, facts) ==
  [preparedAt  |-> MergeEarliest(row.preparedAt, facts.preparedAt),
   failedAt    |-> Coalesce(facts.failedAt, row.failedAt),
   executedAt  |-> MergeEarliest(row.executedAt, facts.executedAt),
   executedLog |-> Coalesce(row.executedLog, facts.executedLog),
   payload     |-> IF row.payload = NoPayload THEN facts.payload ELSE row.payload,
   status      |-> IF row.executedAt # Null \/ facts.executedAt # Null THEN "Executed"
                   ELSE IF row.failedAt # Null \/ facts.failedAt # Null THEN "Failed"
                   ELSE "AwaitingBatchDelivery"]

MergeMessage(row, facts) ==
  [preparedAt  |-> MergeEarliest(row.preparedAt, facts.preparedAt),
   failedAt    |-> IF facts.executedAt # Null THEN Null
                   ELSE Coalesce(facts.failedAt, row.failedAt),
   executedAt  |-> MergeEarliest(row.executedAt, facts.executedAt),
   executedLog |-> Coalesce(row.executedLog, facts.executedLog),
   payload     |-> IF row.payload = NoPayload THEN facts.payload ELSE row.payload,
   status      |-> IF row.executedAt # Null \/ facts.executedAt # Null THEN "Executed"
                   ELSE IF row.failedAt # Null \/ facts.failedAt # Null THEN "Failed"
                   ELSE "AwaitingBatchDelivery"]

\* Write the same facts to some keys: merge with a row that is there, insert otherwise.
UpsertMessages(t, K, facts) ==
  [k \in DOMAIN t \cup K |->
     IF k \notin K THEN t[k] ELSE IF k \in DOMAIN t THEN MergeMessage(t[k], facts) ELSE facts]

NoPayloadFacts == [underpaidAt |-> Null, sentAt |-> Null, sentTx |-> Null,
                   deliveredAt |-> Null, partiallyFailedAt |-> Null, completedAt |-> Null,
                   status |-> "Underpaid"]

\* Mutation: a send that is seen late outranks the delivery.
SentFirstStatus(row) ==
  IF row.completedAt # Null THEN "Completed"
  ELSE IF row.sentAt # Null THEN "InTransit"
  ELSE IF row.deliveredAt # Null THEN "Delivered" ELSE "Underpaid"

\* The CASE over a row's facts, terminal facts first.
PayloadStatus(row) ==
  IF row.completedAt # Null THEN "Completed"
  ELSE IF row.partiallyFailedAt # Null THEN "PartiallyFailed"
  ELSE IF row.deliveredAt # Null THEN "Delivered"
  ELSE IF row.sentAt # Null THEN "InTransit"
  ELSE "Underpaid"

WithPayloadStatus(row) == [row EXCEPT !.status = PayloadStatus(row)]

MergePayload(row, facts) ==
  WithPayloadStatus(
    [underpaidAt       |-> MergeEarliest(row.underpaidAt, facts.underpaidAt),
     sentAt            |-> MergeEarliest(row.sentAt, facts.sentAt),
     sentTx            |-> Coalesce(row.sentTx, facts.sentTx),
     deliveredAt       |-> MergeEarliest(row.deliveredAt, facts.deliveredAt),
     partiallyFailedAt |-> MergeEarliest(row.partiallyFailedAt, facts.partiallyFailedAt),
     completedAt       |-> MergeEarliest(row.completedAt, facts.completedAt),
     status            |-> row.status])

UpsertPayload(t, key, facts) ==
  [k \in DOMAIN t \cup {key} |->
     IF k # key THEN t[k]
     ELSE IF k \in DOMAIN t THEN MergePayload(t[k], facts) ELSE WithPayloadStatus(facts)]

-----------------------------------------------------------------------------
(* Send anchors and the message row of a receive *)

PayloadAnchor(row) == Coalesce(row.sentAt, row.underpaidAt)

MessageAnchor(row, payloads) ==
  IF row.payload \in DOMAIN payloads THEN PayloadAnchor(payloads[row.payload])
  ELSE row.preparedAt

PassesCausalOrder(receivedAt, anchor) == anchor # Null /\ receivedAt >= anchor

\* Mutations: rows that were executed take a receive as well; a failed row does
\* not take the execution that retries it.
TargetsWithExecuted(messages, payloads, id, status) ==
  {k \in RowsOf(messages, id) : MessageAnchor(messages[k], payloads) # Null}

TargetsWithoutRetry(messages, payloads, id, status) ==
  {k \in RowsOf(messages, id) : /\ MessageAnchor(messages[k], payloads) # Null
                                /\ messages[k].executedAt = Null
                                /\ status = "execute" => messages[k].failedAt = Null}

\* The rows a receive may land on; the receive takes the lowest one.  A fail
\* takes any anchored row that is not executed, an execute prefers rows that
\* failed before (a retry) to rows that received nothing yet.
SendTargets(messages, payloads, id, status) ==
  LET open == {k \in RowsOf(messages, id) :
                 /\ MessageAnchor(messages[k], payloads) # Null
                 /\ messages[k].executedAt = Null}
      failed == {k \in open : messages[k].failedAt # Null}
  IN  IF status = "execute" /\ failed # {} THEN failed ELSE open

-----------------------------------------------------------------------------
(* The payload row of a send or a handle event *)

IsOpen(row) == row.completedAt = Null
IsSent(row) == row.sentAt # Null

\* Mutation: rows that are linked to a payload count as waiting for one.
IsAwaiting(row) == row.status = "AwaitingBatchDelivery" /\ row.preparedAt # Null

IsUnlinkedAwaiting(row) ==
  row.status = "AwaitingBatchDelivery" /\ row.payload = NoPayload /\ row.preparedAt # Null

HasUnlinkedAwaiting(messages, ids) ==
  \E k \in DOMAIN messages : k[1] \in ids /\ IsUnlinkedAwaiting(messages[k])

\* Lowest payload index any row of these messages is linked to.
PayloadIndexHint(messages, ids) ==
  LET linked == {messages[k].payload : k \in {j \in DOMAIN messages : j[1] \in ids}}
                \ {NoPayload}
  IN  IF linked = {} THEN NoIndex ELSE Lowest(linked)[2]

Mutate(K) == [action |-> "mutate", index |-> Lowest(K)[2]]
Create(K) == [action |-> "create", index |-> NextIndex(K)]
Defer == [action |-> "defer", index |-> NoIndex]

\* `tx` is Null for the event kind that passes no transaction hash.
ResolvePayloadKey(kind, payloads, id, hint, newSend, tx) ==
  LET rows       == RowsOf(payloads, id)
      open       == {k \in rows : IsOpen(payloads[k])}
      unsent     == {k \in rows : ~IsSent(payloads[k])}
      sameTx     == {k \in rows : tx # Null /\ payloads[k].sentTx = tx}
      hinted     == {k \in rows : k[2] = hint}
      staleHint  == \E k \in hinted : IsSent(payloads[k]) /\ open \cap unsent # {}
      followHint == /\ hinted # {}
                    /\ ~staleHint
                    /\ hinted \subseteq open \/ (kind # "RepayBatch" /\ open = {})
  IN  IF ~newSend /\ kind # "UnderpaidBatch" /\ sameTx # {} THEN Mutate(sameTx)
      ELSE IF ~newSend /\ followHint THEN Mutate(hinted)
      ELSE IF kind = "UnderpaidBatch" THEN
             IF rows = {} \/ newSend THEN Create(rows)
             ELSE IF unsent # {} THEN Mutate(unsent) ELSE Defer
      ELSE IF kind = "SendPayload" /\ newSend THEN Create(rows)
      ELSE IF open \cap unsent # {} THEN Mutate(open \cap unsent)
      ELSE IF open # {} THEN Mutate(open)
      ELSE IF kind = "SendPayload" THEN Create(rows)
      ELSE Defer

\* Mutation: underpaid rows take a handle.
TargetsWithUnsent(payloads, id, sentBy, linked, receivedAt) == RowsOf(payloads, id)

\* The rows a handle receive may land on; it takes the lowest one.  The two
\* hints are sets of payload indices: where this adapter sent the payload, and
\* what the payload's linked messages point at.
HandleTargets(payloads, id, sentBy, linked, receivedAt) ==
  LET sent      == {k \in RowsOf(payloads, id) : IsSent(payloads[k])}
      pointed(I) == {k \in sent : I = {k[2]}}
      causal    == {k \in sent : payloads[k].sentAt <= receivedAt}
      fifo      == {k \in IF causal # {} THEN causal ELSE sent : IsOpen(payloads[k])}
      fresh     == {k \in fifo : payloads[k].deliveredAt = Null}
  IN  IF pointed(sentBy) # {} THEN pointed(sentBy)
      ELSE IF pointed(linked) # {} THEN pointed(linked)
      ELSE IF fresh # {} THEN fresh
      ELSE IF fifo # {} THEN fifo
      ELSE {k \in sent : k[2] \in linked /\ \A i \in linked : k[2] <= i}

=============================================================================
